---------------------------- MODULE SetupRecord ----------------------------
(***************************************************************************)
(* setup.json (setup/state.ts).  An update reads the file, computes what   *)
(* it is to become, takes the installer's lock (setup/state-lock.ts) and   *)
(* replaces the file if it is still what was read; three attempts.         *)
(***************************************************************************)
EXTENDS HomeProcesses

CONSTANTS
  Updaters,      \* actors that update the file
  MaxAttempts    \* MAX_UPDATE_ATTEMPTS

ASSUME UpdatersAssumption == Updaters \subseteq Actors /\ MaxAttempts \in Nat \ {0}

VARIABLES
  record,    \* the file: does it exist; who completed setup; whose Blender
             \* integration it names; which offer of it was settled
  lock,      \* whose token the lock file holds
  robbed,    \* history: the lock of a live process was taken for a stale one
  update     \* each updater's update

recordVars == <<record, lock, robbed, update>>

Missing == [exists |-> FALSE, core |-> NoOne, blender |-> NoOne, offer |-> 0]

NoUpdate == [at |-> "none", kind |-> "none", base |-> NoOne, attempt |-> 0,
             source |-> Missing, content |-> Missing]

RecordInit ==
  /\ record = Missing /\ lock = NoOne /\ robbed = FALSE
  /\ update = [a \in Updaters |-> NoUpdate]

\* updateSetupState's callback.  "core" completes setup; the others are the cases
\* of mergeBlenderSetupResult: an integration is recorded if the file still names
\* the one the installer started from.
Patched(a, latest) ==
  LET kind == update[a].kind
  IN [exists |-> TRUE,
      core |-> IF kind = "core" THEN a ELSE latest.core,
      blender |-> IF kind = "installed" /\ latest.blender = update[a].base THEN a ELSE latest.blender,
      offer |-> IF kind \in {"installed", "declined"} THEN 1 ELSE latest.offer]

StartUpdate(a, kind, base) ==
  update' = [update EXCEPT ![a] = [NoUpdate EXCEPT !.at = "reading", !.kind = kind,
                                                   !.base = base, !.attempt = 1]]

Ends(a, place) == update' = [update EXCEPT ![a].at = place]

\* readFile, the callback and the schema.
ReadRecord(a) ==
  /\ update[a].at = "reading" /\ UNCHANGED <<record, lock, robbed>>
  /\ \/ Works /\ update' = [update EXCEPT ![a].at = "locking", ![a].source = record,
                                          ![a].content = Patched(a, record)]
     \/ Fails /\ Ends(a, "failed")

\* acquireSetupStateLock: open() with "wx".
TakeLock(a) ==
  /\ update[a].at = "locking" /\ lock = NoOne
  /\ lock' = a /\ Ends(a, "locked")
  /\ Works /\ UNCHANGED <<record, robbed>>

\* The file is there.  A lock of a process that ended is renamed away, a moment
\* after it was read; for another it waits, up to LOCK_ATTEMPTS times, and gives
\* up at once if the file is being written or removed just then.
LookAtLock(a) ==
  /\ update[a].at = "locking" /\ lock # NoOne
  /\ IF Alive(lock) THEN Ends(a, "failed") ELSE Ends(a, "reclaiming")
  /\ Works /\ UNCHANGED <<record, lock, robbed>>

ReclaimLock(a) ==
  /\ update[a].at = "reclaiming"
  /\ lock' = NoOne /\ Ends(a, "locking")
  /\ robbed' = (robbed \/ (lock # NoOne /\ Alive(lock)))
  /\ Works /\ UNCHANGED record

Unchanged(a) == record = update[a].source

\* Faulty variant: the file is replaced without a look at it.
CompareNothing(a) ==
  /\ update[a].at = "locked"
  /\ Ends(a, "compared") /\ Works /\ UNCHANGED <<record, lock, robbed>>

\* atomicReplaceExpectedSource compares the file with what was read; whether a
\* missing file is still missing is left to link().
Compare(a) ==
  /\ update[a].at = "locked" /\ (update[a].source.exists => Unchanged(a))
  /\ Ends(a, "compared") /\ Works /\ UNCHANGED <<record, lock, robbed>>

\* release(): the token is compared first.
GiveBack(a) == lock' = IF lock = a THEN NoOne ELSE lock

\* Another update came first: the lock is given back and the update starts again,
\* unless this was its last attempt.
Stale(a) ==
  /\ \/ update[a].at = "locked" /\ update[a].source.exists /\ ~Unchanged(a)
     \/ update[a].at = "compared" /\ ~update[a].source.exists /\ record.exists
  /\ update' = [update EXCEPT ![a].at = IF update[a].attempt = MaxAttempts \/ lock # a
                                        THEN "failed" ELSE "reading",
                              ![a].attempt = update[a].attempt + 1]
  /\ GiveBack(a) /\ Works /\ UNCHANGED <<record, robbed>>

\* rename() over the file, or link() to a name that is free; then release(), which
\* throws if it fails or the lock is another's: the caller is told of a failure.
Publish(a) ==
  /\ update[a].at = "compared" /\ (update[a].source.exists \/ ~record.exists)
  /\ record' = update[a].content
  /\ \/ Works /\ GiveBack(a) /\ Ends(a, IF lock = a THEN "done" ELSE "unreleased")
     \/ Fails /\ UNCHANGED lock /\ Ends(a, "unreleased")
  /\ UNCHANGED robbed

\* Comparing or writing the new file throws; the lock is released.
UpdateFails(a) ==
  /\ update[a].at \in {"locked", "compared"}
  /\ Fails /\ Ends(a, "failed") /\ GiveBack(a) /\ UNCHANGED <<record, robbed>>

RecordStep(a) ==
  /\ Alive(a)
  /\ \/ ReadRecord(a) \/ TakeLock(a) \/ LookAtLock(a) \/ ReclaimLock(a)
     \/ Compare(a) \/ Stale(a) \/ Publish(a) \/ UpdateFails(a)

-----------------------------------------------------------------------------
RecordTypeOK ==
  /\ record.core \in Updaters \cup {NoOne} /\ record.blender \in Updaters \cup {NoOne}
  /\ lock \in Updaters \cup {NoOne} /\ robbed \in BOOLEAN
  /\ \A a \in Updaters : update[a].at \in {"none", "installing", "reading", "locking", "reclaiming",
                                            "locked", "compared", "done", "unreleased", "failed"}

\* What replaces the file is one update applied to what it said that moment: the
\* updates of any processes have the effect of one after the other.
UpdatesAreSerial ==
  record' # record /\ ~robbed =>
    \E a \in Updaters : update[a].at = "compared" /\ record' = Patched(a, record)

=============================================================================

------------------------- MODULE SetupWizardProofs -------------------------
(***************************************************************************)
(* Setup, for any processes, wizards, calls, Blender setups, faults and    *)
(* deaths: the updates of setup.json have the effect of one after the      *)
(* other, as long as no lock of a live process is taken for a stale one;   *)
(* the writes of auth.json by one process keep each other; and a wizard is *)
(* all or nothing.                                                         *)
(***************************************************************************)
EXTENDS SetupWizard, FiniteSetTheorems, SequenceTheorems, TLAPS

-----------------------------------------------------------------------------
(* setup.json *)


Names == Updaters \cup {NoOne}

Records == [exists : BOOLEAN, core : Names, blender : Names, offer : Nat]

Places == {"none", "installing", "reading", "locking", "reclaiming", "locked", "compared",
           "done", "unreleased", "failed"}

Kinds == {"none", "core", "installed", "declined", "unavailable"}

Updates == [at : Places, kind : Kinds, base : Names, attempt : Nat, source : Records, content : Records]

RecordType ==
  /\ record \in Records /\ lock \in Names /\ robbed \in BOOLEAN
  /\ update \in [Updaters -> Updates]

Computed == {"locking", "reclaiming", "locked", "compared"}

\* A file that is missing says nothing.
Lawful(file) == file.exists \/ file = Missing

\* What an update will write is its change applied to what it read.
Candidates ==
  \A a \in Updaters : update[a].at \in Computed =>
    update[a].content = Patched(a, update[a].source) /\ Lawful(update[a].source)

\* Between taking and giving back the lock an update is alone.
Holders == \A a \in Updaters : Alive(a) /\ update[a].at \in {"locked", "compared"} => lock = a

\* Nobody replaces the file under an update that compared it.
Fresh ==
  \A a \in Updaters : Alive(a) /\ update[a].at = "compared" /\ update[a].source.exists =>
    record = update[a].source

IInv ==
  /\ RecordType /\ Lawful(record) /\ Candidates
  /\ ~robbed => Holders /\ Fresh

\* A step of an update that changes its place, and nothing else but the lock.
Moves(a, place) ==
  /\ Ends(a, place) /\ (place \in Computed => update[a].at \in Computed)
  /\ UNCHANGED <<record, dead>> /\ lock' \in Names /\ robbed' \in BOOLEAN
  /\ ~robbed' =>
       /\ ~robbed
       /\ \A b \in Updaters \ {a} : Alive(b) /\ lock = b => lock' = b
       /\ place \in {"locked", "compared"} => lock' = a
       /\ place = "compared" /\ update[a].source.exists => record = update[a].source

-----------------------------------------------------------------------------
LEMMA UpdatersAct == \A a \in Updaters : a # NoOne
  BY ActorsAssumption, UpdatersAssumption

LEMMA MissingIsRecord == Missing \in Records /\ Lawful(Missing) /\ NoUpdate \in Updates
  <1>1. Missing \in Records
    <2>1. NoOne \in Names /\ 0 \in Nat /\ FALSE \in BOOLEAN  BY DEF Names
    <2> HIDE DEF Names
    <2> QED BY <2>1 DEF Missing, Records
  <1>2. NoUpdate \in Updates  BY <1>1 DEF NoUpdate, Updates, Names, Places, Kinds
  <1> QED BY <1>1, <1>2 DEF Lawful

LEMMA PatchedIsRecord ==
  ASSUME RecordType, NEW a \in Updaters, NEW latest \in Records
  PROVE  Patched(a, latest) \in Records /\ Patched(a, latest).exists
  BY DEF RecordType, Records, Names, Patched

\* Steps of others, and deaths.
LEMMA OthersStep ==
  ASSUME IInv, UNCHANGED recordVars, dead \subseteq dead'
  PROVE  IInv' /\ UpdatesAreSerial
  BY DEF IInv, RecordType, Candidates, Holders, Fresh, Alive, Lawful, Patched, UpdatesAreSerial, recordVars

\* An update that computes nothing yet may begin, go on and end.
LEMMA IdleStep ==
  ASSUME IInv, UNCHANGED <<record, lock, robbed, dead>>,
         NEW a \in Updaters, NEW u \in Updates, u.at \notin Computed,
         update' = [update EXCEPT ![a] = u]
  PROVE  IInv' /\ UpdatesAreSerial
  <1>1. RecordType'  BY DEF IInv, RecordType
  <1>2. \A b \in Updaters : update'[b].at \in Computed => update'[b] = update[b]
    BY DEF IInv, RecordType
  <1>3. Candidates'  BY <1>2 DEF IInv, Candidates, Patched
  <1>4. ~robbed' => Holders' /\ Fresh'
    BY <1>2 DEF IInv, Holders, Fresh, Alive, Computed
  <1> QED BY <1>1, <1>3, <1>4 DEF IInv, Lawful, UpdatesAreSerial

LEMMA PlaceStep ==
  ASSUME IInv, NEW a \in Updaters, NEW place \in Places, Alive(a), Moves(a, place)
  PROVE  IInv' /\ UpdatesAreSerial
  <1>1. update \in [Updaters -> Updates] /\ update[a] \in Updates
    BY DEF IInv, RecordType
  <1>2. /\ update' \in [Updaters -> Updates]
        /\ \A b \in Updaters \ {a} : update'[b] = update[b]
        /\ update'[a].at = place
        /\ update'[a].source = update[a].source /\ update'[a].content = update[a].content
        /\ update'[a].kind = update[a].kind /\ update'[a].base = update[a].base
    BY <1>1 DEF Moves, Ends, Updates
  <1>3. RecordType'  BY <1>2 DEF IInv, RecordType, Moves
  <1>5. Candidates'
    BY <1>2 DEF Moves, IInv, Candidates, Patched, Lawful
  <1>6. ASSUME ~robbed' PROVE Holders' /\ Fresh'
    BY <1>2, <1>6 DEF Moves, IInv, Holders, Fresh, Alive
  <1> QED BY <1>3, <1>5, <1>6 DEF Moves, IInv, Lawful, UpdatesAreSerial

-----------------------------------------------------------------------------
LEMMA UpdateStep ==
  ASSUME IInv, NEW a \in Updaters, RecordStep(a)
  PROVE  IInv' /\ UpdatesAreSerial
  <1> USE UpdatersAct
  <1>0. /\ Alive(a) /\ update \in [Updaters -> Updates] /\ update[a] \in Updates
        /\ record \in Records /\ lock \in Names /\ robbed \in BOOLEAN /\ dead' = dead
    BY DEF IInv, RecordType, RecordStep, ReadRecord, TakeLock, LookAtLock, ReclaimLock,
           Compare, Stale, Publish, UpdateFails, Works, Fails, processVars
  <1>1. CASE ReadRecord(a) /\ update' = [update EXCEPT ![a].at = "locking", ![a].source = record,
                                                       ![a].content = Patched(a, record)]
    <2>1. Patched(a, record) \in Records  BY <1>0, PatchedIsRecord DEF IInv
    <2> DEFINE u == [update[a] EXCEPT !.at = "locking", !.source = record, !.content = Patched(a, record)]
    <2>0. update' = [update EXCEPT ![a] = u]  BY <1>0, <1>1 DEF Updates
    <2>9. /\ u \in Updates /\ u.at = "locking" /\ u.source = record /\ u.content = Patched(a, record)
          /\ u.kind = update[a].kind /\ u.base = update[a].base
      BY <1>0, <2>1 DEF Updates, Places
    <2> HIDE DEF u
    <2>2. /\ update' \in [Updaters -> Updates]
          /\ \A b \in Updaters \ {a} : update'[b] = update[b]
          /\ update'[a].at = "locking"
          /\ update'[a].source = record /\ update'[a].content = Patched(a, record)
          /\ update'[a].kind = update[a].kind /\ update'[a].base = update[a].base
      BY <1>0, <2>0, <2>9
    <2>3. UNCHANGED <<record, lock, robbed>>  BY <1>1 DEF ReadRecord
    <2>4. RecordType'  BY <2>2, <2>3 DEF IInv, RecordType
    <2>5. Candidates'
      <3>1. Patched(a, update[a].source)' = Patched(a, record)  BY <2>2 DEF Patched
      <3>2. Lawful(record)  BY DEF IInv
      <3>3. \A b \in Updaters \ {a} : update'[b].at \in Computed =>
              update'[b].content = Patched(b, update[b].source)' /\ Lawful(update'[b].source)
        BY <2>2 DEF IInv, Candidates, Patched
      <3> QED BY <2>2, <3>1, <3>2, <3>3 DEF Candidates, Lawful
    <2>6. ~robbed' => Holders' /\ Fresh'
      BY <1>0, <2>2, <2>3 DEF IInv, Holders, Fresh, Alive
    <2> QED BY <2>3, <2>4, <2>5, <2>6 DEF IInv, Lawful, UpdatesAreSerial
  <1>2. CASE ReadRecord(a) /\ Ends(a, "failed")
    <2>1. Moves(a, "failed")  BY <1>0, <1>2 DEF Moves, ReadRecord, Computed
    <2>2. PICK place \in Places : Moves(a, place)  BY <2>1, Zenon DEF Places
    <2> QED BY <1>0, <2>2, PlaceStep
  <1>3. CASE TakeLock(a)
    <2>1. Moves(a, "locked")  BY <1>0, <1>3 DEF Moves, TakeLock, Computed, Names
    <2>2. PICK place \in Places : Moves(a, place)  BY <2>1, Zenon DEF Places
    <2> QED BY <1>0, <2>2, PlaceStep
  <1>4. CASE LookAtLock(a)
    <2>1. CASE Alive(lock)
      <3>1. Moves(a, "failed")  BY <1>0, <1>4, <2>1 DEF Moves, LookAtLock, Computed
      <3>2. PICK place \in Places : Moves(a, place)  BY <3>1, Zenon DEF Places
      <3> QED BY <1>0, <3>2, PlaceStep
    <2>2. CASE ~Alive(lock)
      <3>1. Moves(a, "reclaiming")  BY <1>0, <1>4, <2>2 DEF Moves, LookAtLock, Computed
      <3>2. PICK place \in Places : Moves(a, place)  BY <3>1, Zenon DEF Places
      <3> QED BY <1>0, <3>2, PlaceStep
    <2> QED BY <2>1, <2>2
  <1>5. CASE ReclaimLock(a)
    <2>1. Moves(a, "locking")  BY <1>0, <1>5 DEF Moves, ReclaimLock, Computed, Names
    <2>2. PICK place \in Places : Moves(a, place)  BY <2>1, Zenon DEF Places
    <2> QED BY <1>0, <2>2, PlaceStep
  <1>6. CASE Compare(a)
    <2>1. Moves(a, "compared")
      BY <1>0, <1>6 DEF Moves, Compare, Computed, Unchanged, IInv, Holders
    <2>2. PICK place \in Places : Moves(a, place)  BY <2>1, Zenon DEF Places
    <2> QED BY <1>0, <2>2, PlaceStep
  <1>7. ASSUME update[a].at \in {"locked", "compared"}, GiveBack(a)
        PROVE  /\ lock' \in Names
               /\ \A b \in Updaters \ {a} : Alive(b) /\ lock = b => lock' = b
    BY <1>0, <1>7 DEF GiveBack, Names
  <1>8. CASE Stale(a)
    <2> DEFINE place == IF update[a].attempt = MaxAttempts \/ lock # a THEN "failed" ELSE "reading"
               u == [update[a] EXCEPT !.at = place, !.attempt = update[a].attempt + 1]
    <2>1. update' = [update EXCEPT ![a] = u]  BY <1>0, <1>8 DEF Stale, Updates
    <2>7. place \in Places /\ place \notin Computed  BY DEF Computed, Places
    <2>8. update[a].attempt + 1 \in Nat  BY <1>0 DEF Updates
    <2> HIDE DEF place
    <2>2. /\ u \in Updates /\ u.at \notin Computed
      BY <1>0, <2>7, <2>8 DEF Updates
    <2> HIDE DEF u
    <2>3. UNCHANGED <<record, robbed>> /\ lock' \in Names
          /\ \A b \in Updaters \ {a} : Alive(b) /\ lock = b => lock' = b
      BY <1>7, <1>8 DEF Stale
    <2>4. /\ update' \in [Updaters -> Updates] /\ update'[a] = u
          /\ \A b \in Updaters \ {a} : update'[b] = update[b]
      BY <1>0, <2>1, <2>2
    <2>5. Candidates'  BY <2>2, <2>4 DEF IInv, Candidates, Patched
    <2>6. ~robbed' => Holders' /\ Fresh'
      BY <1>0, <2>2, <2>3, <2>4 DEF IInv, Holders, Fresh, Alive, Computed
    <2> QED BY <1>0, <2>3, <2>4, <2>5, <2>6 DEF IInv, RecordType, Lawful, UpdatesAreSerial
  <1>9. CASE UpdateFails(a)
    <2>1. Moves(a, "failed")  BY <1>0, <1>7, <1>9 DEF Moves, UpdateFails, Computed
    <2>2. PICK place \in Places : Moves(a, place)  BY <2>1, Zenon DEF Places
    <2> QED BY <1>0, <2>2, PlaceStep
  <1>10. CASE Publish(a)
    <2>1. /\ update[a].at = "compared" /\ record' = update[a].content /\ robbed' = robbed
          /\ update[a].source.exists \/ ~record.exists
          /\ lock' \in Names
          /\ \A b \in Updaters \ {a} : Alive(b) /\ lock = b => lock' = b
      BY <1>0, <1>7, <1>10 DEF Publish
    <2>2. PICK place \in {"done", "unreleased"} : Ends(a, place)  BY <1>10 DEF Publish
    <2>3. /\ update' \in [Updaters -> Updates]
          /\ \A b \in Updaters \ {a} : update'[b] = update[b]
          /\ update'[a].at = place
      <3>1. place \in Places  BY <2>2 DEF Places
      <3> QED BY <1>0, <2>2, <3>1 DEF Ends, Updates
    <2>4. update[a].content = Patched(a, update[a].source) /\ Lawful(update[a].source)
      BY <2>1 DEF IInv, Candidates, Computed
    <2>5. record' \in Records /\ record'.exists
      BY <1>0, <2>1, <2>4, PatchedIsRecord DEF IInv, Updates
    <2>6. Candidates'  BY <2>3 DEF IInv, Candidates, Patched, Computed
    <2>7. ASSUME ~robbed' PROVE record' = Patched(a, record)
      <3>1. update[a].source = record
        BY <1>0, <2>1, <2>4, <2>7 DEF IInv, Fresh, Lawful
      <3> QED BY <2>1, <2>4, <3>1
    <2>8. ASSUME ~robbed' PROVE Holders' /\ Fresh'
      <3>1. \A b \in Updaters \ {a} : Alive(b) => update[b].at \notin {"locked", "compared"}
        BY <1>0, <2>1, <2>8 DEF IInv, Holders
      <3> QED BY <1>0, <2>3, <3>1 DEF Holders, Fresh, Alive
    <2> QED BY <1>0, <2>1, <2>3, <2>5, <2>6, <2>7, <2>8 DEF IInv, RecordType, Lawful, UpdatesAreSerial
  <1> QED BY <1>1, <1>2, <1>3, <1>4, <1>5, <1>6, <1>8, <1>9, <1>10 DEF RecordStep, ReadRecord

LEMMA Starting ==
  ASSUME IInv, UNCHANGED <<record, lock, robbed, dead>>, NEW a \in Updaters,
         NEW kind \in Kinds, NEW base \in Names, StartUpdate(a, kind, base)
  PROVE  IInv' /\ UpdatesAreSerial
  <1> DEFINE u == [NoUpdate EXCEPT !.at = "reading", !.kind = kind, !.base = base, !.attempt = 1]
  <1>1. u \in Updates /\ u.at \notin Computed
    BY MissingIsRecord DEF Updates, NoUpdate, Computed, Places
  <1>2. update' = [update EXCEPT ![a] = u]  BY DEF StartUpdate
  <1> QED BY <1>1, <1>2, IdleStep

LEMMA FlowStarting ==
  ASSUME IInv, NEW f \in Updaters, FlowStart(f)
  PROVE  IInv' /\ UpdatesAreSerial
  <1> DEFINE u == [update[f] EXCEPT !.at = "installing", !.base = record.blender]
  <1>1. update \in [Updaters -> Updates] /\ record \in Records  BY DEF IInv, RecordType
  <1>4. record.blender \in Names  BY <1>1 DEF Records
  <1>2. u \in Updates /\ u.at \notin Computed
    BY <1>1, <1>4 DEF Updates, Computed, Places
  <1>3. update' = [update EXCEPT ![f] = u] /\ UNCHANGED <<record, lock, robbed, dead>>
    BY <1>1 DEF FlowStart, Works, processVars, Updates
  <1> QED BY <1>2, <1>3, IdleStep

-----------------------------------------------------------------------------
LEMMA ChoosingStep ==
  ASSUME IInv, NEW w \in Wizards, Choose(w) \/ SaveConfig(w) \/ Callback(w) \/ Exchange(w) \/ BrowserLeaves(w)
  PROVE  IInv' /\ UpdatesAreSerial
  <1>1. w \in Updaters /\ NoOne \in Names  BY WizardsAssumption DEF Names
  <1>2. CASE OfferBlender(w)
    <2>1. CASE \E kind \in {"installed", "declined", "unavailable"} : StartUpdate(w, kind, NoOne)
      <3>1. PICK kind \in Kinds : StartUpdate(w, kind, NoOne)  BY <2>1 DEF Kinds
      <3>2. UNCHANGED <<record, lock, robbed, dead>>  BY <1>2 DEF OfferBlender, Works, processVars
      <3> QED BY <1>1, <3>1, <3>2, Starting
    <2>2. CASE UNCHANGED update
      BY <1>2, <2>2, OthersStep DEF OfferBlender, Works, processVars, recordVars
    <2> QED BY <1>2, <2>1, <2>2 DEF OfferBlender
  <1>3. CASE ~OfferBlender(w)
    <2>1. UNCHANGED recordVars /\ dead' = dead
      BY <1>3 DEF Choose, OpenSetup, Cancel, Skip, Keep, EnterKey, StartLogin, SaveConfig, Callback, Exchange,
             BrowserLeaves, Quiet, Works, Fails, processVars
    <2> QED BY <2>1, OthersStep
  <1> QED BY <1>2, <1>3

LEMMA AdvanceStep ==
  ASSUME IInv, NEW w \in Wizards, Advance(w)
  PROVE  IInv' /\ UpdatesAreSerial
  <1>1. w \in Updaters /\ NoOne \in Names  BY WizardsAssumption DEF Names
  <1>2. CASE SaveCatalogs(w)
    <2>1. CASE Works /\ StartUpdate(w, "core", NoOne)
      <3>1. UNCHANGED <<record, lock, robbed, dead>>  BY <1>2, <2>1 DEF SaveCatalogs, Works, processVars
      <3>2. PICK kind \in Kinds : StartUpdate(w, kind, NoOne)  BY <2>1, Zenon DEF Kinds
      <3> QED BY <1>1, <3>1, <3>2, Starting
    <2>2. CASE Fails /\ UNCHANGED update
      BY <1>2, <2>2, OthersStep DEF SaveCatalogs, Fails, recordVars
    <2> QED BY <1>2, <2>1, <2>2 DEF SaveCatalogs
  <1>3. CASE ~SaveCatalogs(w)
    <2>1. UNCHANGED recordVars /\ dead' = dead
      BY <1>3 DEF Advance, TakeSnapshot, KeyStored, KeyNotStored, LoginStored, LoginTimesOut, LoginReturns,
             Recorded, NotRecorded, Merged, UndoRead, UndoStored, UndoEnds, UndoNext,
             Quiet, Works, Fails, processVars
    <2> QED BY <2>1, OthersStep
  <1> QED BY <1>2, <1>3

LEMMA FileStep ==
  ASSUME IInv, \/ (\E p \in Processes : VaultStep(p)) /\ UNCHANGED recordVars
               \/ (CallStep \/ ServerStep \/ (\E c \in Calls : Begin(c)) \/ Expire) /\ UNCHANGED recordVars
               \/ \E p \in Processes : Crash(p)
  PROVE  IInv' /\ UpdatesAreSerial
  <1>1. UNCHANGED recordVars /\ dead \subseteq dead'
    BY DEF VaultStep, ReadVault, ReplaceVault, WriteFails, CallStep, ReadAuth, Authorize, Respond, RenewalStored,
           ServerStep, Renew, RenewalFails, Begin, Expire, Crash, Works, Fails, processVars
  <1> QED BY <1>1, OthersStep

LEMMA StepIsSerial == IInv /\ [Next]_vars => IInv' /\ [UpdatesAreSerial]_vars
  <1> SUFFICES ASSUME IInv, [Next]_vars PROVE IInv' /\ UpdatesAreSerial
    OBVIOUS
  <1>1. CASE UNCHANGED vars
    BY <1>1, OthersStep DEF vars, recordVars, processVars
  <1>2. CASE Progress
    <2>1. CASE \E a \in Updaters : RecordStep(a)  BY <2>1, UpdateStep
    <2>2. CASE \E w \in Wizards : Advance(w)      BY <2>2, AdvanceStep
    <2>3. CASE ((\E p \in Processes : VaultStep(p)) \/ CallStep) /\ UNCHANGED recordVars
      BY <2>3, FileStep
    <2> QED BY <1>2, <2>1, <2>2, <2>3 DEF Progress
  <1>3. CASE Environment
    <2>1. CASE \E w \in Wizards : Choose(w) \/ SaveConfig(w) \/ Callback(w) \/ Exchange(w) \/ BrowserLeaves(w)
      BY <2>1, ChoosingStep
    <2>2. CASE \E f \in Flows : FlowStart(f)  BY <2>2, FlowStarting, WizardsAssumption
    <2>3. CASE \E f \in Flows : FlowUpdate(f)
      <3>1. PICK f \in Flows : FlowUpdate(f)  BY <2>3
      <3>2. f \in Updaters  BY WizardsAssumption
      <3>3. update[f].base \in Names  BY <3>2 DEF IInv, RecordType, Updates
      <3>4. PICK kind \in Kinds : StartUpdate(f, kind, update[f].base)  BY <3>1 DEF FlowUpdate, Kinds
      <3>5. UNCHANGED <<record, lock, robbed, dead>>  BY <3>1 DEF FlowUpdate, Works, processVars
      <3> QED BY <3>2, <3>3, <3>4, <3>5, Starting
    <2>4. CASE \/ (ServerStep \/ (\E c \in Calls : Begin(c)) \/ Expire) /\ UNCHANGED recordVars
               \/ \E p \in Processes : Crash(p)
      BY <2>4, FileStep
    <2> QED BY <1>3, <2>1, <2>2, <2>3, <2>4 DEF Environment
  <1> QED BY <1>1, <1>2, <1>3 DEF Next

LEMMA InitIsLawful == Init => IInv
  <1> SUFFICES ASSUME Init PROVE IInv  OBVIOUS
  <1>1. RecordType  BY MissingIsRecord DEF Init, RecordInit, RecordType, Names
  <1>2. \A a \in Updaters : update[a].at = "none"  BY DEF Init, RecordInit, NoUpdate
  <1> QED BY <1>1, <1>2, MissingIsRecord DEF Init, RecordInit, IInv, Candidates, Holders, Fresh, Computed

\* The inductive invariant of the updates of setup.json.
THEOREM RecordInvariant == Spec => []IInv
  <1> QED BY InitIsLawful, StepIsSerial, PTL DEF Spec

\* The effect of any updates is that of one after the other.
THEOREM UpdatesDoNotMix == Spec => RecordIsSerial
  <1> QED BY InitIsLawful, StepIsSerial, PTL DEF Spec, RecordIsSerial

-----------------------------------------------------------------------------
(* The writes of auth.json: the invariant *)

VaultJobs == [writer : Writers, provider : Providers, cred : Nat, read : BOOLEAN, seen : Entries]

Answers == {"none", "waiting", "stored", "failed"}

VaultType ==
  /\ vault \in Entries /\ issued \in Nat
  /\ by \in [Providers -> Writers \cup {NoOne, Lost}]
  /\ chain \in [Processes -> Seq(VaultJobs)]
  /\ told \in [Writers -> Answers]

\* A write is in the queue of its process, and its writer waits for it and for
\* no other; only the first of a queue has read the file.
LineFits(p) ==
  \A i \in DOMAIN chain[p] :
    /\ ProcessOf[chain[p][i].writer] = p /\ told[chain[p][i].writer] = "waiting"
    /\ chain[p][i].read => i = 1
    /\ \A j \in DOMAIN chain[p] : chain[p][j].writer = chain[p][i].writer => i = j

\* What it read is still so, but for what another process wrote.
SeenFits(p) ==
  \A i \in DOMAIN chain[p] : chain[p][i].read =>
    \A q \in Providers :
      \/ chain[p][i].seen[q] = vault[q]
      \/ by[q] = Lost
      \/ by[q] \in Writers /\ ProcessOf[by[q]] # p

VaultInv == VaultType /\ \A p \in Processes : LineFits(p) /\ SeenFits(p)

\* The write of c for q, by a, waits for its turn.
Awaits(a, q, c) ==
  \E p \in Processes : \E i \in DOMAIN chain[p] :
    chain[p][i].writer = a /\ chain[p][i].provider = q /\ chain[p][i].cred = c

-----------------------------------------------------------------------------
(* What a step does to the writes *)

Resting == UNCHANGED <<vault, by, chain, told>>

Enqueues(a, q, c) == told[a] = "none" /\ Enqueue(a, q, c)

Hears(a) ==
  /\ told[a] \in {"stored", "failed"} /\ told' = [told EXCEPT ![a] = "none"]
  /\ UNCHANGED <<vault, by, chain>>

Dies(p) == chain' = [chain EXCEPT ![p] = <<>>] /\ UNCHANGED <<vault, by, told>>

LEMMA OwnersFacts ==
  /\ Lost \notin Writers /\ NoOne \notin Writers /\ Lost # NoOne
  /\ ProcessOf \in [Actors -> Processes] /\ Writers \subseteq Actors
  /\ \A a \in Writers : ProcessOf[a] \in Processes
  BY ActorsAssumption, WritersAssumption

\* The write that has its turn is the first of its queue, and leaves it.
LEMMA TurnFacts ==
  ASSUME NEW S, NEW s \in Seq(S), NEW i \in DOMAIN s \cap {1}
  PROVE  /\ i = 1 /\ Len(s) \in Nat /\ Len(s) >= 1 /\ s[1] \in S
         /\ RemoveAt(s, i) \in Seq(S) /\ Len(RemoveAt(s, i)) = Len(s) - 1
         /\ \A k \in 1 .. Len(s) - 1 : RemoveAt(s, i)[k] = s[k + 1]
         /\ RemoveAt(s, i) # s
  <1>1. i = 1 /\ Len(s) \in Nat /\ Len(s) >= 1 /\ s[1] \in S  OBVIOUS
  <1>2. SubSeq(s, 1, 0) = <<>>  BY <1>1
  <1>3. RemoveAt(s, i) = <<>> \o SubSeq(s, 2, Len(s))  BY <1>1, <1>2 DEF RemoveAt
  <1>4. SubSeq(s, 2, Len(s)) \in Seq(S) /\ Len(SubSeq(s, 2, Len(s))) = Len(s) - 1
        /\ \A k \in 1 .. Len(s) - 1 : SubSeq(s, 2, Len(s))[k] = s[k + 1]
    <2>1. SubSeq(s, 2, Len(s)) \in Seq(S)  BY <1>1, SubSeqProperties
    <2>2. Len(SubSeq(s, 2, Len(s))) = IF 2 <= Len(s) THEN Len(s) - 2 + 1 ELSE 0
      BY <1>1, SubSeqProperties
    <2>3. \A k \in 1 .. Len(s) - 2 + 1 : SubSeq(s, 2, Len(s))[k] = s[2 + k - 1]
      BY <1>1, SubSeqProperties
    <2> DEFINE n == Len(s)
               u == SubSeq(s, 2, Len(s))
    <2> HIDE DEF n, u
    <2>4. n \in Nat /\ n >= 1  BY <1>1 DEF n
    <2>7. Len(u) = IF 2 <= n THEN n - 2 + 1 ELSE 0  BY <2>2 DEF n, u
    <2>5. Len(u) = n - 1  BY <2>4, <2>7
    <2>6. \A k \in 1 .. n - 1 : u[k] = s[k + 1]
      <3>1. \A k \in 1 .. n - 2 + 1 : u[k] = s[2 + k - 1]  BY <2>3 DEF n, u
      <3>2. \A k \in 1 .. n - 1 : 2 + k - 1 = k + 1 /\ k \in 1 .. n - 2 + 1  BY <2>4
      <3> QED BY <3>1, <3>2
    <2> QED BY <2>1, <2>5, <2>6 DEF n, u
  <1> DEFINE t == SubSeq(s, 2, Len(s))
  <1> HIDE DEF t
  <1>5. t \in Seq(S) => <<>> \o t = t  OBVIOUS
  <1>6. RemoveAt(s, i) = t  BY <1>3, <1>4, <1>5 DEF t
  <1>7. Len(t) # Len(s)  BY <1>1, <1>4 DEF t
  <1> QED BY <1>1, <1>4, <1>6, <1>7 DEF t

-----------------------------------------------------------------------------
(* The wizards: types *)

WizardPlaces == {"idle", "ready", "starting", "choosing", "refused", "storing", "logging", "catalogs",
                 "recording", "offering", "merging", "undoing", "restoring", "ended"}

WizardRecords ==
  [at : WizardPlaces, first : BOOLEAN, read : BOOLEAN, snapshot : Entries, left : SUBSET Providers,
   draft : SUBSET Providers, pending : [provider : Providers, cred : Nat],
   staged : SUBSET Providers, undo : SUBSET Providers, undone : BOOLEAN]

Logins == [method : {"none", "browser", "device"}, handler : {"idle", "exchanging", "storing", "over"},
           settled : {"no", "ok", "error"}, here : BOOLEAN]

Configs == [enabled : SUBSET Providers, default : Providers \cup {NoOne}, by : Wizards \cup {NoOne}]

CallRecords ==
  [at : {"idle", "reading", "read", "refreshing", "sent", "answered", "failed"}, token : Nat, retried : BOOLEAN]

Renewals == [stage : {"none", "asking", "storing"}, from : Nat, token : Nat]

SetupTypes ==
  /\ scenario \in Scenarios
  /\ config \in Configs /\ wizard \in [Wizards -> WizardRecords] /\ login \in [Wizards -> Logins]
  /\ call \in [Calls -> CallRecords] /\ refresh \in [Instances -> Renewals]

-----------------------------------------------------------------------------
(* The wizards: the invariant *)

\* Who waits for a write is at the place that started it.
Rests(w) ==
  /\ wizard[w].at \notin {"storing", "restoring"} => told[w] = "none"
  /\ login[w].handler # "storing" => told[Login(w)] = "none"

WaitsFit ==
  /\ \A i \in Instances : refresh[i].stage # "storing" => told[i] = "none"
  /\ \A w \in Wizards : Rests(w)

\* What a wizard writes is what it was told to, or what it found.
PendingFits(w) ==
  /\ \A q \in Providers, c \in Nat : Awaits(w, q, c) =>
       \/ wizard[w].at = "storing" /\ wizard[w].pending = [provider |-> q, cred |-> c]
       \/ wizard[w].at = "restoring" /\ c = wizard[w].snapshot[q]
  /\ \A q \in Providers, c \in Nat : Awaits(Login(w), q, c) => q = Chatgpt /\ c # 0

\* A callback outlives the login it belongs to only if its browser left.
HandlerFits(w) ==
  login[w].handler \in {"exchanging", "storing"} => wizard[w].at = "logging" \/ ~login[w].here

Early == {"idle", "ready", "starting", "choosing", "refused", "storing", "logging", "catalogs"}

\* The update of setup.json is where the wizard takes it to be.
UpdateFits(w) ==
  /\ wizard[w].at \in Early => update[w].at = "none"
  /\ wizard[w].at \in Undoing => update[w].at \in {"none", "unreleased", "failed"}
  /\ wizard[w].at = "offering" => update[w].at = "done"
  /\ wizard[w].at = "ended" => update[w].at \in {"none", "done", "unreleased", "failed"}

\* Nothing was rolled back, nor will be by what has happened so far.
Stands(w) == wizard[w].at \notin Undoing /\ (wizard[w].at = "ended" => update[w].at = "done")

Saved(w) == Stands(w) /\ wizard[w].at \in {"catalogs", "recording", "offering", "merging", "ended"}

ConfigFits(w) ==
  Saved(w) => config.by # NoOne /\ (config.by = w => config.enabled = wizard[w].draft)

Backed(w, q) == vault[q] # 0 \/ by[q] \notin Own(w) \cup {NoOne}

Stores(w) == wizard[w].at = "storing" /\ wizard[w].pending.cred # 0

Removes(w, q) == wizard[w].at = "storing" /\ wizard[w].pending = [provider |-> q, cred |-> 0]

\* A staged credential is there, unless the wizard is removing it.
StagedFits(w) ==
  /\ Stands(w) => \A q \in wizard[w].staged : Backed(w, q) \/ Removes(w, q)
  /\ Stores(w) /\ told[w] = "stored" => Backed(w, wizard[w].pending.provider)

Traceless(w, q) ==
  \/ vault[q] = wizard[w].snapshot[q]
  \/ by[q] \notin Own(w)
  \/ by[q] = Login(w) /\ ~login[w].here

\* What is not put back yet will be: it is in the queue, or still to come.
TraceFits(w) ==
  /\ At(w, "restoring") /\ wizard[w].read /\ told[w] # "failed" =>
       \A q \in Providers :
         Traceless(w, q) \/ q \in wizard[w].undo \/ \E c \in Nat : Awaits(w, q, c)
  /\ At(w, "ended") /\ wizard[w].read /\ wizard[w].undone => \A q \in Providers : Traceless(w, q)
  /\ wizard[w].undone => wizard[w].at = "ended"

\* Between the start of its last update and its end, a wizard completes setup.
Late == {"recording", "offering", "merging", "ended"} \cup Undoing

Named(a) == a = NoOne \/ (a \in Wizards /\ wizard[a].at \in Late)

\* Only wizards that came that far are named by setup.json.
NamesFit ==
  /\ Named(record.core)
  /\ \A a \in Updaters :
       /\ update[a].kind = "core" => Named(a)
       /\ Named(update[a].source.core) /\ Named(update[a].content.core)

WizardFits(w) ==
  /\ PendingFits(w) /\ HandlerFits(w) /\ UpdateFits(w) /\ ConfigFits(w)
  /\ StagedFits(w) /\ TraceFits(w)

SetupInv ==
  /\ IInv /\ VaultInv /\ SetupTypes /\ WaitsFit /\ NamesFit
  /\ \A w \in Wizards : WizardFits(w)

-----------------------------------------------------------------------------
(* The writes of auth.json: each step keeps their invariant *)

\* One write of a is answered; no other is, and what it read of them stays.
Served(a, q, c) ==
  /\ a \in Writers /\ q \in Providers /\ c \in Nat
  /\ Awaits(a, q, c) /\ told[a] = "waiting"
  /\ \A b \in Writers, x \in Providers, d \in Nat :
       Awaits(b, x, d)' <=> (Awaits(b, x, d) /\ b # a)
  /\ \/ told' = [told EXCEPT ![a] = "failed"] /\ UNCHANGED <<vault, by>>
     \/ /\ told' = [told EXCEPT ![a] = "stored"]
        /\ vault'[q] = c /\ by'[q] = a
        /\ \A x \in Providers \ {q} : (vault'[x] = vault[x] /\ by'[x] = by[x]) \/ by'[x] = Lost

LEMMA JobsFit ==
  ASSUME VaultType, NEW p \in Processes, NEW i \in DOMAIN chain[p]
  PROVE  /\ chain[p][i] \in VaultJobs
         /\ chain[p][i].writer \in Writers /\ chain[p][i].provider \in Providers
         /\ chain[p][i].cred \in Nat /\ chain[p][i].seen \in Entries
  <1>1. chain[p] \in Seq(VaultJobs)  BY DEF VaultType
  <1>2. chain[p][i] \in VaultJobs  BY <1>1
  <1> QED BY <1>2 DEF VaultJobs

LEMMA RestingKeeps ==
  ASSUME VaultInv, Resting, issued' \in Nat
  PROVE  VaultInv'
  BY DEF VaultInv, VaultType, LineFits, SeenFits, Resting

LEMMA HearingKeeps ==
  ASSUME VaultInv, NEW a \in Writers, Hears(a), issued' = issued
  PROVE  VaultInv'
  <1>1. VaultType'  BY DEF VaultInv, VaultType, Hears, Answers
  <1>2. \A b \in Writers : told[b] = "waiting" => told'[b] = "waiting"
    BY DEF VaultInv, VaultType, Hears
  <1>3. ASSUME NEW p \in Processes PROVE LineFits(p)' /\ SeenFits(p)'
    <2>1. \A i \in DOMAIN chain[p] : chain[p][i].writer \in Writers  BY JobsFit DEF VaultInv
    <2> QED BY <1>2, <2>1 DEF VaultInv, LineFits, SeenFits, Hears
  <1> QED BY <1>1, <1>3 DEF VaultInv

LEMMA DyingKeeps ==
  ASSUME VaultInv, NEW p \in Processes, Dies(p), issued' = issued
  PROVE  /\ VaultInv'
         /\ \A b \in Writers, x \in Providers, d \in Nat :
              /\ Awaits(b, x, d)' => Awaits(b, x, d)
              /\ ProcessOf[b] # p /\ Awaits(b, x, d) => Awaits(b, x, d)'
  <1>1. /\ chain' \in [Processes -> Seq(VaultJobs)] /\ chain'[p] = <<>>
        /\ \A r \in Processes \ {p} : chain'[r] = chain[r]
    BY DEF VaultInv, VaultType, Dies
  <1>2. VaultType'  BY <1>1 DEF VaultInv, VaultType, Dies
  <1>3. ASSUME NEW r \in Processes PROVE LineFits(r)' /\ SeenFits(r)'
    <2>1. CASE r = p  BY <1>1, <2>1 DEF LineFits, SeenFits
    <2>2. CASE r # p  BY <1>1, <2>2 DEF VaultInv, LineFits, SeenFits, Dies
    <2> QED BY <2>1, <2>2
  <1>4. ASSUME NEW b \in Writers, NEW x \in Providers, NEW d \in Nat, Awaits(b, x, d)'
        PROVE  Awaits(b, x, d)
    <2>1. PICK r \in Processes : \E i \in DOMAIN chain'[r] :
             chain'[r][i].writer = b /\ chain'[r][i].provider = x /\ chain'[r][i].cred = d
      BY <1>4 DEF Awaits
    <2>2. r # p  BY <1>1, <2>1
    <2> QED BY <1>1, <2>1, <2>2 DEF Awaits
  <1>5. ASSUME NEW b \in Writers, NEW x \in Providers, NEW d \in Nat, Awaits(b, x, d), ProcessOf[b] # p
        PROVE  Awaits(b, x, d)'
    <2>1. PICK r \in Processes : \E i \in DOMAIN chain[r] :
             chain[r][i].writer = b /\ chain[r][i].provider = x /\ chain[r][i].cred = d
      BY <1>5 DEF Awaits
    <2>2. ProcessOf[b] = r  BY <2>1 DEF VaultInv, LineFits
    <2>3. chain'[r] = chain[r]  BY <1>1, <1>5, <2>2
    <2> QED BY <2>1, <2>3 DEF Awaits
  <1> QED BY <1>2, <1>3, <1>4, <1>5 DEF VaultInv

\* Only who has a write in a queue waits for one.
LEMMA AwaitingWaits ==
  ASSUME VaultInv, NEW a \in Writers, NEW q \in Providers, NEW c \in Nat, Awaits(a, q, c)
  PROVE  told[a] = "waiting"
  BY DEF VaultInv, LineFits, Awaits

LEMMA EnqueueKeeps ==
  ASSUME VaultInv, NEW a \in Writers, NEW q \in Providers, NEW c \in Nat, Enqueues(a, q, c), issued' \in Nat
  PROVE  /\ VaultInv'
         /\ \A b \in Writers, x \in Providers, d \in Nat :
              Awaits(b, x, d)' <=> (Awaits(b, x, d) \/ (b = a /\ x = q /\ d = c))
  <1> DEFINE p == ProcessOf[a]
             job == Job(a, q, c)
             n == Len(chain[p])
  <1>1. p \in Processes  BY OwnersFacts
  <1>2. job \in VaultJobs /\ job.writer = a /\ job.provider = q /\ job.cred = c /\ job.read = FALSE
    <2>1. [x \in Providers |-> 0] \in Entries  BY DEF Entries
    <2> QED BY <2>1 DEF Job, VaultJobs
  <1>3. chain \in [Processes -> Seq(VaultJobs)] /\ told \in [Writers -> Answers]
    BY DEF VaultInv, VaultType
  <1>4. /\ chain' = [chain EXCEPT ![p] = Append(@, job)] /\ told' = [told EXCEPT ![a] = "waiting"]
        /\ UNCHANGED <<vault, by>> /\ told[a] = "none"
    BY DEF Enqueues, Enqueue
  <1> HIDE DEF job, p
  <1>5. /\ chain[p] \in Seq(VaultJobs) /\ n \in Nat
        /\ chain'[p] \in Seq(VaultJobs) /\ Len(chain'[p]) = n + 1
        /\ chain'[p][n + 1] = job /\ \A i \in 1 .. n : chain'[p][i] = chain[p][i]
        /\ \A r \in Processes \ {p} : chain'[r] = chain[r]
        /\ chain' \in [Processes -> Seq(VaultJobs)]
    <2>1. chain[p] \in Seq(VaultJobs) /\ n \in Nat  BY <1>1, <1>3
    <2>2. chain'[p] = Append(chain[p], job) /\ \A r \in Processes \ {p} : chain'[r] = chain[r]
      BY <1>1, <1>3, <1>4
    <2>3. Append(chain[p], job) \in Seq(VaultJobs)  BY <1>2, <2>1
    <2>4. chain' \in [Processes -> Seq(VaultJobs)]  BY <1>3, <1>4, <2>3
    <2> QED BY <1>2, <2>1, <2>2, <2>3, <2>4
  <1> HIDE DEF n
  <1>6. VaultType'  BY <1>3, <1>4, <1>5 DEF VaultInv, VaultType, Answers
  <1>7. \A b \in Writers : told[b] = "waiting" => told'[b] = "waiting"  BY <1>3, <1>4
  <1>8. told'[a] = "waiting"  BY <1>3, <1>4
  <1>9. \A r \in Processes : \A i \in DOMAIN chain[r] :
          chain[r][i].writer # a /\ chain[r][i].writer \in Writers
    BY <1>3, <1>4, JobsFit DEF VaultInv, LineFits
  <1>10. ASSUME NEW r \in Processes PROVE LineFits(r)' /\ SeenFits(r)'
    <2>1. CASE r # p
      <3>1. chain'[r] = chain[r]  BY <1>5, <2>1
      <3>2. LineFits(r) /\ SeenFits(r)  BY DEF VaultInv
      <3>3. LineFits(r)'  BY <1>7, <1>9, <3>1, <3>2 DEF LineFits
      <3>5. UNCHANGED <<vault, by>>  BY <1>4
      <3>4. SeenFits(r)'  BY <3>1, <3>2, <3>5 DEF SeenFits
      <3> QED BY <3>3, <3>4
    <2>2. CASE r = p
      <3>1. DOMAIN chain'[p] = 1 .. (n + 1) /\ DOMAIN chain[p] = 1 .. n  BY <1>5 DEF n
      <3>2. \A i \in 1 .. (n + 1) : i = n + 1 \/ i \in 1 .. n  BY <1>5
      <3>3. LineFits(p) /\ SeenFits(p)  BY <1>1 DEF VaultInv
      <3>4. SeenFits(p)'
        BY <1>2, <1>4, <1>5, <3>1, <3>2, <3>3 DEF SeenFits
      <3>5. ASSUME NEW i \in DOMAIN chain'[p]
            PROVE  /\ ProcessOf[chain'[p][i].writer] = p /\ told'[chain'[p][i].writer] = "waiting"
                   /\ chain'[p][i].read => i = 1
                   /\ \A j \in DOMAIN chain'[p] : chain'[p][j].writer = chain'[p][i].writer => i = j
        <4>1. CASE i = n + 1
          <5>1. ProcessOf[a] = p  BY DEF p
          <5>2. chain'[p][i] = job  BY <1>5, <4>1
          <5>3. \A j \in 1 .. n : chain'[p][j] = chain[p][j] /\ chain[p][j].writer # a
            BY <1>1, <1>5, <1>9, <3>1
          <5>4. chain'[p][i].read => i = 1  BY <1>2, <1>8, <4>1, <5>2
          <5>5. ProcessOf[chain'[p][i].writer] = p /\ told'[chain'[p][i].writer] = "waiting"
            BY <1>2, <1>8, <5>1, <5>2
          <5>6. chain'[p][i].writer = a  BY <1>2, <5>2
          <5> QED BY <3>1, <3>2, <4>1, <5>3, <5>4, <5>5, <5>6
        <4>2. CASE i \in 1 .. n
          <5>1. chain'[p][i] = chain[p][i] /\ i \in DOMAIN chain[p]  BY <1>5, <3>1, <4>2
          <5>2. chain[p][i].writer # a /\ chain[p][i].writer \in Writers  BY <1>1, <1>9, <5>1
          <5>3. /\ ProcessOf[chain[p][i].writer] = p /\ told[chain[p][i].writer] = "waiting"
                /\ chain[p][i].read => i = 1
                /\ \A j \in 1 .. n : chain[p][j].writer = chain[p][i].writer => i = j
            BY <3>1, <3>3, <5>1 DEF LineFits
          <5>4. told'[chain'[p][i].writer] = "waiting"  BY <1>7, <5>1, <5>2, <5>3
          <5>5. ASSUME NEW j \in 1 .. (n + 1), chain'[p][j].writer = chain'[p][i].writer  PROVE i = j
            <6>1. j # n + 1  BY <1>2, <1>5, <5>1, <5>2, <5>5
            <6>2. j \in 1 .. n /\ chain'[p][j] = chain[p][j]  BY <1>5, <3>2, <6>1
            <6> QED BY <5>1, <5>3, <5>5, <6>2
          <5> QED BY <3>1, <5>1, <5>3, <5>4, <5>5
        <4> QED BY <3>1, <3>2, <4>1, <4>2
      <3>6. LineFits(p)'  BY <3>5 DEF LineFits
      <3> QED BY <2>2, <3>4, <3>6
    <2> QED BY <2>1, <2>2
  <1>11. ASSUME NEW b \in Writers, NEW x \in Providers, NEW d \in Nat, Awaits(b, x, d)'
         PROVE  Awaits(b, x, d) \/ (b = a /\ x = q /\ d = c)
    <2>0. PICK r \in Processes : \E i \in DOMAIN chain'[r] :
             chain'[r][i].writer = b /\ chain'[r][i].provider = x /\ chain'[r][i].cred = d
      BY <1>11 DEF Awaits
    <2>1. PICK i \in DOMAIN chain'[r] :
             chain'[r][i].writer = b /\ chain'[r][i].provider = x /\ chain'[r][i].cred = d
      BY <2>0
    <2>2. CASE r # p  BY <1>5, <2>1, <2>2 DEF Awaits
    <2>3. CASE r = p /\ i = n + 1  BY <1>2, <1>5, <2>1, <2>3
    <2>4. CASE r = p /\ i # n + 1
      <3>1. DOMAIN chain'[p] = 1 .. (n + 1) /\ DOMAIN chain[p] = 1 .. n  BY <1>5 DEF n
      <3>2. i \in 1 .. n  BY <1>5, <2>4, <3>1
      <3> QED BY <1>1, <1>5, <2>1, <2>4, <3>1, <3>2 DEF Awaits
    <2> QED BY <2>2, <2>3, <2>4
  <1>12. ASSUME NEW b \in Writers, NEW x \in Providers, NEW d \in Nat, Awaits(b, x, d)
         PROVE  Awaits(b, x, d)'
    <2>0. PICK r \in Processes : \E i \in DOMAIN chain[r] :
             chain[r][i].writer = b /\ chain[r][i].provider = x /\ chain[r][i].cred = d
      BY <1>12 DEF Awaits
    <2>1. PICK i \in DOMAIN chain[r] :
             chain[r][i].writer = b /\ chain[r][i].provider = x /\ chain[r][i].cred = d
      BY <2>0
    <2>2. i \in DOMAIN chain'[r] /\ chain'[r][i] = chain[r][i]
      <3>1. CASE r # p  BY <1>5, <3>1
      <3>2. CASE r = p
        <4>1. DOMAIN chain'[p] = 1 .. (n + 1) /\ DOMAIN chain[p] = 1 .. n  BY <1>5 DEF n
        <4> QED BY <1>5, <3>2, <4>1
      <3> QED BY <3>1, <3>2
    <2> QED BY <2>1, <2>2 DEF Awaits
  <1>13. Awaits(a, q, c)'
    <2>1. n + 1 \in DOMAIN chain'[p]  BY <1>5
    <2> QED BY <1>1, <1>2, <1>5, <2>1 DEF Awaits
  <1> QED BY <1>6, <1>10, <1>11, <1>12, <1>13 DEF VaultInv

LEMMA ReadingKeeps ==
  ASSUME VaultInv, NEW p \in Processes, NEW i \in MayRun(p), ReadVault(p, i)
  PROVE  /\ VaultInv' /\ UNCHANGED <<vault, issued, by, told>>
         /\ \A b \in Writers, x \in Providers, d \in Nat : Awaits(b, x, d)' <=> Awaits(b, x, d)
  <1> DEFINE n == Len(chain[p])
             job == chain[p][1]
             done == [job EXCEPT !.read = TRUE, !.seen = vault]
  <1>1. /\ chain \in [Processes -> Seq(VaultJobs)] /\ vault \in Entries
        /\ chain[p] \in Seq(VaultJobs) /\ i = 1 /\ n \in Nat /\ n >= 1 /\ job \in VaultJobs
        /\ DOMAIN chain[p] = 1 .. n
    <2>1. chain \in [Processes -> Seq(VaultJobs)] /\ vault \in Entries  BY DEF VaultInv, VaultType
    <2> QED BY <2>1, TurnFacts DEF MayRun
  <1>2. UNCHANGED <<vault, issued, by, told>>  BY DEF ReadVault
  <1>3. /\ done \in VaultJobs /\ done.writer = job.writer /\ done.provider = job.provider
        /\ done.cred = job.cred /\ done.seen = vault
    BY <1>1 DEF VaultJobs
  <1>4. chain' = [chain EXCEPT ![p] = [@ EXCEPT ![1] = done]]
    BY <1>1 DEF ReadVault, VaultJobs
  <1> HIDE DEF n, job, done
  <1>5. /\ chain'[p] \in Seq(VaultJobs) /\ DOMAIN chain'[p] = 1 .. n
        /\ chain'[p][1] = done /\ \A k \in 1 .. n : k # 1 => chain'[p][k] = chain[p][k]
        /\ \A r \in Processes \ {p} : chain'[r] = chain[r]
        /\ chain' \in [Processes -> Seq(VaultJobs)]
    <2>1. chain'[p] = [chain[p] EXCEPT ![1] = done] /\ \A r \in Processes \ {p} : chain'[r] = chain[r]
      BY <1>1, <1>4
    <2>2. [chain[p] EXCEPT ![1] = done] \in Seq(VaultJobs)  BY <1>1, <1>3
    <2>3. chain' \in [Processes -> Seq(VaultJobs)]  BY <1>1, <1>4, <2>2
    <2> QED BY <1>1, <2>1, <2>2, <2>3
  <1>6. chain[p][1] = job /\ \A k \in 1 .. n : k = 1 \/ k # 1  BY DEF job
  <1>7. \A r \in Processes :
          /\ DOMAIN chain'[r] = DOMAIN chain[r]
          /\ \A k \in DOMAIN chain[r] :
               /\ chain'[r][k].writer = chain[r][k].writer /\ chain'[r][k].provider = chain[r][k].provider
               /\ chain'[r][k].cred = chain[r][k].cred
               /\ \/ r = p /\ k = 1 /\ chain'[r][k].seen = vault
                  \/ chain'[r][k] = chain[r][k]
    <2> SUFFICES ASSUME NEW r \in Processes
                 PROVE  /\ DOMAIN chain'[r] = DOMAIN chain[r]
                        /\ \A k \in DOMAIN chain[r] :
                             /\ chain'[r][k].writer = chain[r][k].writer
                             /\ chain'[r][k].provider = chain[r][k].provider
                             /\ chain'[r][k].cred = chain[r][k].cred
                             /\ \/ r = p /\ k = 1 /\ chain'[r][k].seen = vault
                                \/ chain'[r][k] = chain[r][k]
      OBVIOUS
    <2>1. CASE r = p  BY <1>1, <1>3, <1>5, <1>6, <2>1
    <2>2. CASE r # p  BY <1>5, <2>2
    <2> QED BY <2>1, <2>2
  <1>8. VaultType'  BY <1>2, <1>5 DEF VaultInv, VaultType
  <1>9. ASSUME NEW r \in Processes PROVE LineFits(r)' /\ SeenFits(r)'
    <2>1. LineFits(r) /\ SeenFits(r)  BY DEF VaultInv
    <2>2. LineFits(r)'  BY <1>2, <1>7, <2>1 DEF LineFits
    <2>3. SeenFits(r)'  BY <1>2, <1>7, <2>1 DEF SeenFits
    <2> QED BY <2>2, <2>3
  <1>10. \A b \in Writers, x \in Providers, d \in Nat : Awaits(b, x, d)' <=> Awaits(b, x, d)
    BY <1>7 DEF Awaits
  <1> QED BY <1>2, <1>8, <1>9, <1>10 DEF VaultInv

LEMMA ServingKeeps ==
  ASSUME VaultInv, NEW p \in Processes, NEW i \in MayRun(p), ReplaceVault(p, i) \/ WriteFails(p, i)
  PROVE  /\ VaultInv' /\ issued' = issued
         /\ \E a \in Writers, q \in Providers, c \in Nat : Served(a, q, c)
         /\ \A q \in Providers : WritesAreKept(q)
  <1> DEFINE n == Len(chain[p])
             s == chain[p]
             t == RemoveAt(chain[p], i)
             a == chain[p][1].writer
             q == chain[p][1].provider
             c == chain[p][1].cred
  <1>1. chain \in [Processes -> Seq(VaultJobs)] /\ told \in [Writers -> Answers] /\ issued \in Nat
        /\ vault \in Entries /\ by \in [Providers -> Writers \cup {NoOne, Lost}] /\ VaultType
        /\ LineFits(p) /\ SeenFits(p)
    BY DEF VaultInv, VaultType
  <1>2. /\ i = 1 /\ n \in Nat /\ n >= 1 /\ DOMAIN s = 1 .. n
        /\ t \in Seq(VaultJobs) /\ Len(t) = n - 1 /\ \A k \in 1 .. n - 1 : t[k] = s[k + 1]
        /\ t # s
    <2>1. s \in Seq(VaultJobs)  BY <1>1
    <2>2. i \in DOMAIN s \cap {1}  BY DEF MayRun
    <2> QED BY <2>1, <2>2, TurnFacts
  <1>3. DOMAIN t = 1 .. n - 1 /\ 1 \in DOMAIN s  BY <1>2
  <1>4. a \in Writers /\ q \in Providers /\ c \in Nat /\ s[1].seen \in Entries
    BY <1>1, <1>3, JobsFit
  <1>5. ProcessOf[a] = p /\ told[a] = "waiting" /\ a # Lost
        /\ \A k \in DOMAIN s : (s[k].writer = a \/ s[k].read) => k = 1
    <2>1. ProcessOf[a] = p /\ told[a] = "waiting"  BY <1>1, <1>3 DEF LineFits
    <2>2. \A k \in DOMAIN s : s[k].writer = a => k = 1  BY <1>1, <1>3 DEF LineFits
    <2>3. \A k \in DOMAIN s : s[k].read => k = 1  BY <1>1 DEF LineFits
    <2> QED BY <1>4, <2>1, <2>2, <2>3, OwnersFacts
  <1>6. /\ chain' = [chain EXCEPT ![p] = t] /\ issued' = issued
        /\ \/ told' = [told EXCEPT ![a] = "failed"] /\ UNCHANGED <<vault, by>>
           \/ /\ told' = [told EXCEPT ![a] = "stored"] /\ s[1].read
              /\ vault' = [s[1].seen EXCEPT ![q] = c]
              /\ by' = [x \in Providers |-> IF x = q THEN a
                          ELSE IF [s[1].seen EXCEPT ![q] = c][x] # vault[x] THEN Lost ELSE by[x]]
    BY <1>2 DEF ReplaceVault, WriteFails, Settle
  <1> HIDE DEF n, s, t, a, q, c
  <1>7. /\ chain'[p] = t /\ \A r \in Processes \ {p} : chain'[r] = chain[r]
        /\ chain' \in [Processes -> Seq(VaultJobs)]
    BY <1>1, <1>2, <1>6
  <1>8. \A b \in Writers \ {a} : told'[b] = told[b]  BY <1>1, <1>6
  <1>9. \/ UNCHANGED <<vault, by>>
        \/ /\ vault' \in Entries /\ by' \in [Providers -> Writers \cup {NoOne, Lost}]
           /\ vault'[q] = c /\ by'[q] = a /\ s[1].read
           /\ \A x \in Providers \ {q} :
                /\ vault'[x] = s[1].seen[x]
                /\ \/ vault'[x] = vault[x] /\ by'[x] = by[x]
                   \/ vault'[x] # vault[x] /\ by'[x] = Lost
    <2>1. ASSUME vault' = [s[1].seen EXCEPT ![q] = c]
          PROVE  vault' \in Entries /\ vault'[q] = c /\ \A x \in Providers \ {q} : vault'[x] = s[1].seen[x]
      BY <1>4, <2>1 DEF Entries
    <2> QED BY <1>1, <1>4, <1>6, <2>1
  <1>10. VaultType'
    <2>1. told' \in [Writers -> Answers]  BY <1>1, <1>6 DEF Answers
    <2>2. vault' \in Entries /\ by' \in [Providers -> Writers \cup {NoOne, Lost}]  BY <1>1, <1>9
    <2> QED BY <1>1, <1>6, <1>7, <2>1, <2>2 DEF VaultType
  <1>11. \A k \in DOMAIN t : k + 1 \in DOMAIN s /\ k + 1 # 1 /\ t[k] = s[k + 1] /\ t[k].writer # a /\ ~t[k].read
    <2>1. \A k \in DOMAIN t : k + 1 \in DOMAIN s /\ k + 1 # 1 /\ t[k] = s[k + 1]  BY <1>2, <1>3
    <2> QED BY <1>5, <2>1
  <1>12. \A k \in DOMAIN s : k # 1 => \E m \in DOMAIN t : k = m + 1
    <2>1. \A k \in 1 .. n : k # 1 => k - 1 \in 1 .. n - 1 /\ k = (k - 1) + 1  BY <1>2
    <2> QED BY <1>2, <1>3, <2>1
  <1>13. ASSUME NEW r \in Processes PROVE LineFits(r)' /\ SeenFits(r)'
    <2>0. LineFits(r) /\ SeenFits(r)  BY DEF VaultInv
    <2>1. CASE r = p
      <3>1. SeenFits(p)'  BY <1>7, <1>11 DEF SeenFits
      <3>2. ASSUME NEW k \in DOMAIN t
            PROVE  /\ ProcessOf[t[k].writer] = p /\ told'[t[k].writer] = "waiting"
                   /\ \A j \in DOMAIN t : t[j].writer = t[k].writer => k = j
        <4>1. s[k + 1].writer \in Writers /\ k \in Int
          <5>1. \A m \in DOMAIN s : s[m].writer \in Writers  BY <1>1, JobsFit DEF s
          <5> QED BY <1>3, <1>11, <5>1
        <4>2. ProcessOf[t[k].writer] = p /\ told[t[k].writer] = "waiting"
          BY <1>1, <1>11 DEF LineFits, s
        <4>3. told'[t[k].writer] = "waiting"  BY <1>8, <1>11, <4>1, <4>2
        <4>4. ASSUME NEW j \in DOMAIN t, t[j].writer = t[k].writer PROVE k = j
          <5>1. k + 1 = j + 1  BY <1>1, <1>11, <4>4 DEF LineFits, s
          <5>2. j \in Int  BY <1>3
          <5> QED BY <4>1, <5>1, <5>2
        <4> QED BY <4>2, <4>3, <4>4
      <3>3. LineFits(p)'  BY <1>7, <1>11, <3>2 DEF LineFits
      <3> QED BY <2>1, <3>1, <3>3
    <2>2. CASE r # p
      <3>1. chain'[r] = chain[r]  BY <1>7, <2>2
      <3>2. \A k \in DOMAIN chain[r] : chain[r][k].writer \in Writers /\ chain[r][k].writer # a
        BY <1>1, <1>5, <2>0, <2>2, JobsFit DEF LineFits
      <3>3. LineFits(r)'  BY <1>8, <2>0, <3>1, <3>2 DEF LineFits
      <3>4. \A x \in Providers : \/ vault'[x] = vault[x] /\ by'[x] = by[x]
                                 \/ by'[x] = Lost \/ by'[x] = a
        BY <1>4, <1>9
      <3>5. SeenFits(r)'  BY <1>4, <1>5, <2>0, <2>2, <3>1, <3>4 DEF SeenFits
      <3> QED BY <3>3, <3>5
    <2> QED BY <2>1, <2>2
  <1>14. Awaits(a, q, c)  BY <1>3 DEF Awaits, a, q, c, s
  <1>15. ASSUME NEW b \in Writers, NEW x \in Providers, NEW d \in Nat
         PROVE  Awaits(b, x, d)' <=> (Awaits(b, x, d) /\ b # a)
    <2>1. ASSUME Awaits(b, x, d)' PROVE Awaits(b, x, d) /\ b # a
      <3>0. PICK r \in Processes : \E k \in DOMAIN chain'[r] :
               chain'[r][k].writer = b /\ chain'[r][k].provider = x /\ chain'[r][k].cred = d
        BY <2>1 DEF Awaits
      <3>1. PICK k \in DOMAIN chain'[r] :
               chain'[r][k].writer = b /\ chain'[r][k].provider = x /\ chain'[r][k].cred = d
        BY <3>0
      <3>2. CASE r = p  BY <1>7, <1>11, <3>1, <3>2 DEF Awaits, s
      <3>3. CASE r # p
        <4>1. chain'[r] = chain[r]  BY <1>7, <3>3
        <4>2. ProcessOf[b] = r  BY <3>1, <4>1 DEF VaultInv, LineFits
        <4> QED BY <1>5, <3>1, <3>3, <4>1, <4>2 DEF Awaits
      <3> QED BY <3>2, <3>3
    <2>2. ASSUME Awaits(b, x, d), b # a PROVE Awaits(b, x, d)'
      <3>0. PICK r \in Processes : \E k \in DOMAIN chain[r] :
               chain[r][k].writer = b /\ chain[r][k].provider = x /\ chain[r][k].cred = d
        BY <2>2 DEF Awaits
      <3>1. PICK k \in DOMAIN chain[r] :
               chain[r][k].writer = b /\ chain[r][k].provider = x /\ chain[r][k].cred = d
        BY <3>0
      <3>2. CASE r = p
        <4>1. k # 1 /\ k \in DOMAIN s  BY <2>2, <3>1, <3>2 DEF a, s
        <4>2. PICK m \in DOMAIN t : k = m + 1  BY <1>12, <4>1
        <4>3. t[m] = chain[p][k]  BY <1>11, <4>2 DEF s
        <4> QED BY <1>7, <3>1, <3>2, <4>3 DEF Awaits
      <3>3. CASE r # p
        <4>1. chain'[r] = chain[r]  BY <1>7, <3>3
        <4> QED BY <3>1, <4>1 DEF Awaits
      <3> QED BY <3>2, <3>3
    <2> QED BY <2>1, <2>2
  <1>16. Served(a, q, c)
    <2>1. \/ told' = [told EXCEPT ![a] = "failed"] /\ UNCHANGED <<vault, by>>
          \/ /\ told' = [told EXCEPT ![a] = "stored"]
             /\ vault'[q] = c /\ by'[q] = a
             /\ \A x \in Providers \ {q} : (vault'[x] = vault[x] /\ by'[x] = by[x]) \/ by'[x] = Lost
      <3>1. CASE told' = [told EXCEPT ![a] = "failed"] /\ UNCHANGED <<vault, by>>
        BY <3>1
      <3>2. CASE vault' = [s[1].seen EXCEPT ![q] = c] /\ told' = [told EXCEPT ![a] = "stored"]
                 /\ by' = [x \in Providers |-> IF x = q THEN a
                             ELSE IF [s[1].seen EXCEPT ![q] = c][x] # vault[x] THEN Lost ELSE by[x]]
        BY <1>4, <3>2 DEF Entries
      <3> QED BY <1>6, <3>1, <3>2
    <2> QED BY <1>4, <1>5, <1>14, <1>15, <2>1 DEF Served
  <1>17. ASSUME NEW x \in Providers, vault'[x] # vault[x] PROVE WritesAreKept(x)
    <2>1. chain'[p] # chain[p]  BY <1>2, <1>7 DEF s
    <2>2. CASE x = q
      <3>1. chain[p][1].provider = x /\ chain[p][1].cred = vault'[x] /\ 1 \in DOMAIN chain[p]
        BY <1>3, <1>9, <1>17, <2>2 DEF q, c, s
      <3> QED BY <2>1, <3>1 DEF WritesAreKept
    <2>3. CASE x # q
      <3>1. s[1].read /\ s[1].seen[x] # vault[x]  BY <1>9, <1>17, <2>3
      <3>2. by[x] = Lost \/ ProcessOf[by[x]] # p  BY <1>1, <1>3, <3>1 DEF SeenFits, s
      <3> QED BY <2>1, <3>2 DEF WritesAreKept
    <2> QED BY <2>2, <2>3
  <1>18. \A x \in Providers : WritesAreKept(x)  BY <1>17 DEF WritesAreKept
  <1> QED BY <1>4, <1>6, <1>10, <1>13, <1>16, <1>18 DEF VaultInv

-----------------------------------------------------------------------------
(* What the steps of others leave a wizard *)

LEMMA OwnFacts ==
  \A w \in Wizards :
    /\ w \in Writers /\ Login(w) \in Writers /\ w # Login(w)
    /\ w \notin Instances /\ Login(w) \notin Instances
    /\ w \in Updaters /\ w \in Actors /\ w # NoOne /\ Login(w) # NoOne /\ w # Lost /\ Login(w) # Lost
    /\ \A v \in Wizards : v # w => v # Login(w) /\ w # Login(v) /\ Login(v) # Login(w)
  <1> SUFFICES ASSUME NEW w \in Wizards
               PROVE  /\ w \in Writers /\ Login(w) \in Writers /\ w # Login(w)
                      /\ w \notin Instances /\ Login(w) \notin Instances
                      /\ w \in Updaters /\ w \in Actors /\ w # NoOne /\ Login(w) # NoOne
                      /\ w # Lost /\ Login(w) # Lost
                      /\ \A v \in Wizards : v # w => v # Login(w) /\ w # Login(v) /\ Login(v) # Login(w)
    OBVIOUS
  <1>1. w \in Own(w) /\ Login(w) \in Own(w)  BY DEF Own
  <1>2. w \in Writers /\ Login(w) \in Writers  BY <1>1, WizardsAssumption
  <1>3. \A v \in Wizards : w # Login(v) /\ v # Login(w)  BY WizardsAssumption
  <1>4. \A v \in Wizards : v # w => Login(v) # Login(w)  BY DEF Login
  <1>5. w \notin Instances /\ Login(w) \notin Instances  BY <1>1, WizardsAssumption
  <1> QED BY <1>2, <1>3, <1>4, <1>5, OwnersFacts, WizardsAssumption

\* Nothing of what wizard v relies on changes, but for entries of auth.json that
\* others write, its own update on its way, and its death.
Frame(v) ==
  /\ wizard'[v] = wizard[v] /\ login'[v] = login[v]
  /\ told'[v] = told[v] /\ told'[Login(v)] = told[Login(v)]
  /\ \A q \in Providers, c \in Nat :
       /\ Awaits(v, q, c)' => Awaits(v, q, c)
       /\ Awaits(Login(v), q, c)' => Awaits(Login(v), q, c)
       /\ Alive(v)' /\ Awaits(v, q, c) => Awaits(v, q, c)'
  /\ Alive(v)' => Alive(v)
  /\ \A q \in Providers : \/ vault'[q] = vault[q] /\ by'[q] = by[q]
                          \/ by'[q] \notin Own(v) \cup {NoOne}
  /\ config' = config \/ (config'.by # v /\ config'.by # NoOne)
  /\ update'[v].at = update[v].at \/ wizard[v].at \in {"recording", "merging"}

LEMMA FrameFits ==
  ASSUME SetupInv, NEW v \in Wizards, Frame(v)
  PROVE  WizardFits(v)'
  <1>1. PendingFits(v) /\ HandlerFits(v) /\ UpdateFits(v) /\ ConfigFits(v) /\ StagedFits(v) /\ TraceFits(v)
    BY DEF SetupInv, WizardFits
  <1>2. wizard[v].staged \subseteq Providers /\ wizard[v].pending.provider \in Providers
    BY DEF SetupInv, SetupTypes, WizardRecords
  <1>3. PendingFits(v)'  BY <1>1 DEF Frame, PendingFits
  <1>4. HandlerFits(v)'  BY <1>1 DEF Frame, HandlerFits
  <1>5. UpdateFits(v)'   BY <1>1 DEF Frame, UpdateFits, Early, Undoing
  <1>6. Stands(v)' <=> Stands(v)  BY DEF Frame, Stands
  <1>7. ConfigFits(v)'  BY <1>1, <1>6 DEF Frame, ConfigFits, Saved
  <1>8. \A q \in Providers : Backed(v, q) => Backed(v, q)'  BY DEF Frame, Backed
  <1>9. StagedFits(v)'
    BY <1>1, <1>2, <1>6, <1>8 DEF Frame, StagedFits, Removes, Stores
  <1>10. \A q \in Providers : Traceless(v, q) => Traceless(v, q)'  BY DEF Frame, Traceless
  <1>11. TraceFits(v)'
    <2>1. At(v, "restoring")' => At(v, "restoring")  BY DEF Frame, At
    <2>2. At(v, "ended")' => At(v, "ended")  BY DEF Frame, At
    <2>3. At(v, "restoring")' => Alive(v)'  BY DEF At
    <2>4. /\ wizard'[v].read = wizard[v].read /\ wizard'[v].undone = wizard[v].undone
          /\ wizard'[v].undo = wizard[v].undo /\ wizard'[v].at = wizard[v].at /\ told'[v] = told[v]
      BY DEF Frame
    <2>5. \A q \in Providers, c \in Nat : Alive(v)' /\ Awaits(v, q, c) => Awaits(v, q, c)'
      BY DEF Frame
    <2> QED BY <1>1, <1>10, <2>1, <2>2, <2>3, <2>4, <2>5 DEF TraceFits
  <1> QED BY <1>3, <1>4, <1>5, <1>7, <1>9, <1>11 DEF WizardFits

\* Where nothing but updates of setup.json changes, names stay.
LEMMA NamesStay ==
  ASSUME NEW a, Named(a), \A v \in Wizards : wizard[v].at \in Late => wizard'[v].at \in Late
  PROVE  Named(a)'
  BY DEF Named

LEMMA NamesKept ==
  ASSUME NamesFit, UNCHANGED <<record, update>>,
         \A v \in Wizards : wizard[v].at \in Late => wizard'[v].at \in Late
  PROVE  NamesFit'
  BY NamesStay DEF NamesFit

-----------------------------------------------------------------------------
(* Steps of the vault *)

ServedCase(v, a, q, c) ==
  /\ SetupInv /\ VaultInv' /\ Served(a, q, c)
  /\ UNCHANGED <<scenario, dead, callVars, recordVars, wizardVars>>
  /\ v \in Wizards

\* The write of another.
LEMMA ServedOther ==
  ASSUME NEW v, NEW a, NEW q, NEW c, ServedCase(v, a, q, c), a # v, a # Login(v)
  PROVE  WizardFits(v)'
  <1>1. told \in [Writers -> Answers] /\ a \in Writers /\ a # NoOne /\ Lost # NoOne
    BY OwnersFacts DEF ServedCase, Served, SetupInv, VaultInv, VaultType
  <1>2. v \in Writers /\ Login(v) \in Writers /\ v # Lost /\ Login(v) # Lost
    BY OwnFacts DEF ServedCase
  <1>3. wizard' = wizard /\ login' = login /\ config' = config /\ update' = update /\ dead' = dead
    BY DEF ServedCase, wizardVars, recordVars
  <1>4. told'[v] = told[v] /\ told'[Login(v)] = told[Login(v)]
    BY <1>1, <1>2 DEF ServedCase, Served
  <1>5. \A x \in Providers, d \in Nat :
          /\ Awaits(v, x, d)' <=> Awaits(v, x, d)
          /\ Awaits(Login(v), x, d)' <=> Awaits(Login(v), x, d)
    BY <1>2 DEF ServedCase, Served
  <1>6. \A x \in Providers : \/ vault'[x] = vault[x] /\ by'[x] = by[x]
                             \/ by'[x] \notin Own(v) \cup {NoOne}
    BY <1>1, <1>2 DEF ServedCase, Served, Own
  <1>7. Frame(v)  BY <1>3, <1>4, <1>5, <1>6 DEF Frame, Alive
  <1> QED BY <1>7, FrameFits DEF ServedCase

\* The wizard's own write, or its login's.
LEMMA ServedOwn ==
  ASSUME NEW v, NEW a, NEW q, NEW c, ServedCase(v, a, q, c), a \in Own(v)
  PROVE  WizardFits(v)'
  <1>0. v \in Wizards /\ a \in Writers /\ q \in Providers /\ c \in Nat
        /\ SetupInv /\ WizardFits(v) /\ Awaits(a, q, c) /\ told[a] = "waiting"
        /\ \A b \in Writers, x \in Providers, d \in Nat : Awaits(b, x, d)' <=> (Awaits(b, x, d) /\ b # a)
    BY DEF ServedCase, Served, SetupInv
  <1>1. told \in [Writers -> Answers] /\ a # Lost /\ Lost # NoOne /\ a # NoOne
    BY <1>0, OwnersFacts DEF SetupInv, VaultInv, VaultType
  <1>2. v \in Writers /\ Login(v) \in Writers /\ v # Login(v) /\ v # Lost /\ Login(v) # Lost
        /\ v # NoOne /\ Login(v) # NoOne
    BY <1>0, OwnFacts
  <1>3. wizard' = wizard /\ login' = login /\ config' = config /\ update' = update /\ dead' = dead
    BY DEF ServedCase, wizardVars, recordVars
  <1>4. wizard[v].staged \subseteq Providers /\ wizard[v].pending \in [provider : Providers, cred : Nat]
        /\ wizard[v].snapshot \in Entries /\ vault \in Entries
    BY <1>0 DEF SetupInv, SetupTypes, WizardRecords, VaultInv, VaultType
  <1>5. \/ told'[a] = "failed" /\ UNCHANGED <<vault, by>>
        \/ /\ told'[a] = "stored" /\ vault'[q] = c /\ by'[q] = a
           /\ \A x \in Providers \ {q} : (vault'[x] = vault[x] /\ by'[x] = by[x]) \/ by'[x] = Lost
    BY <1>0, <1>1 DEF ServedCase, Served
  <1>6. \A b \in Writers : b # a => told'[b] = told[b]
    BY <1>0, <1>1 DEF ServedCase, Served
  <1>7. PendingFits(v)'  BY <1>0, <1>2, <1>3 DEF WizardFits, PendingFits
  <1>8. HandlerFits(v)' /\ UpdateFits(v)' /\ ConfigFits(v)'
    BY <1>0, <1>3 DEF WizardFits, HandlerFits, UpdateFits, ConfigFits, Saved, Stands
  <1>9. \A x \in Providers : x # q => (Backed(v, x) => Backed(v, x)') /\ (Traceless(v, x) => Traceless(v, x)')
    <2>1. \A x \in Providers : x # q => (vault'[x] = vault[x] /\ by'[x] = by[x]) \/ by'[x] = Lost
      BY <1>5
    <2>2. wizard'[v].snapshot = wizard[v].snapshot /\ login'[v] = login[v]  BY <1>3
    <2>3. Lost \notin Own(v) \cup {NoOne}  BY <1>1, <1>2 DEF Own
    <2>4. ASSUME NEW x \in Providers, x # q
          PROVE  (Backed(v, x) => Backed(v, x)') /\ (Traceless(v, x) => Traceless(v, x)')
      <3>1. CASE vault'[x] = vault[x] /\ by'[x] = by[x]  BY <2>2, <3>1 DEF Backed, Traceless
      <3>2. CASE by'[x] = Lost  BY <2>3, <3>2 DEF Backed, Traceless
      <3> QED BY <2>1, <2>4, <3>1, <3>2
    <2> QED BY <2>4
  <1>10. UNCHANGED <<vault, by>> =>
           \A x \in Providers : (Backed(v, x) <=> Backed(v, x)') /\ (Traceless(v, x) <=> Traceless(v, x)')
    BY <1>3 DEF Backed, Traceless
  <1>11. /\ Stands(v)' <=> Stands(v)
         /\ Stores(v)' <=> Stores(v)
         /\ \A x \in Providers : Removes(v, x)' <=> Removes(v, x)
         /\ \A place \in WizardPlaces : At(v, place)' <=> At(v, place)
    BY <1>3 DEF Stands, Stores, Removes, At, Alive
  <1>12. CASE a = v
    <2>1. \/ wizard[v].at = "storing" /\ wizard[v].pending = [provider |-> q, cred |-> c]
          \/ wizard[v].at = "restoring" /\ c = wizard[v].snapshot[q]
      BY <1>0, <1>12 DEF WizardFits, PendingFits
    <2>2. told'[v] = "failed" \/ vault'[q] = c  BY <1>5, <1>12
    <2>3. StagedFits(v)'
      <3>1. CASE wizard[v].at = "restoring"
        BY <1>3, <3>1 DEF StagedFits, Stands, Stores, Undoing
      <3>2. CASE wizard[v].at = "storing" /\ wizard[v].pending = [provider |-> q, cred |-> c] /\ c # 0
        <4>1. Stores(v) /\ \A x \in Providers : ~Removes(v, x)  BY <3>2 DEF Stores, Removes
        <4>2. told'[v] = "stored" => Backed(v, q)'  BY <2>2, <3>2 DEF Backed
        <4>3. told'[v] # "stored" => UNCHANGED <<vault, by>>  BY <1>5, <1>12
        <4>4. wizard'[v].pending.provider = q  BY <1>3, <3>2
        <4>5. ASSUME Stands(v)', NEW x \in wizard'[v].staged PROVE Backed(v, x)'
          <5>1. x \in Providers /\ Backed(v, x)
            BY <1>0, <1>3, <1>4, <1>11, <4>1, <4>5 DEF WizardFits, StagedFits
          <5> QED BY <1>9, <1>10, <4>2, <4>3, <5>1
        <4> QED BY <4>2, <4>4, <4>5 DEF StagedFits
      <3>3. CASE wizard[v].at = "storing" /\ wizard[v].pending = [provider |-> q, cred |-> c] /\ c = 0
        <4>1. Removes(v, q)' /\ ~Stores(v)'  BY <1>3, <3>3 DEF Stores, Removes
        <4>2. \A x \in Providers : Removes(v, x) => x = q  BY <3>3 DEF Removes
        <4>3. ASSUME Stands(v)', NEW x \in wizard'[v].staged PROVE Backed(v, x)' \/ Removes(v, x)'
          <5>1. x \in Providers /\ (Backed(v, x) \/ x = q)
            BY <1>0, <1>3, <1>4, <1>11, <4>2, <4>3 DEF WizardFits, StagedFits
          <5> QED BY <1>9, <4>1, <5>1
        <4> QED BY <4>1, <4>3 DEF StagedFits
      <3> QED BY <2>1, <3>1, <3>2, <3>3
    <2>4. TraceFits(v)'
      <3>1. wizard[v].at # "ended"  BY <2>1
      <3>2. wizard'[v].at # "ended" /\ ~wizard'[v].undone /\ ~At(v, "ended")'
        BY <1>0, <1>3, <3>1 DEF WizardFits, TraceFits, At
      <3>3. ASSUME At(v, "restoring")', wizard'[v].read, told'[v] # "failed", NEW x \in Providers
            PROVE  Traceless(v, x)' \/ x \in wizard'[v].undo \/ \E d \in Nat : Awaits(v, x, d)'
        <4>1. vault'[q] = c /\ c = wizard[v].snapshot[q]
          BY <1>3, <2>1, <2>2, <3>3 DEF At
        <4>2. CASE x = q  BY <1>3, <4>1, <4>2 DEF Traceless
        <4>3. CASE x # q
          <5>1. ASSUME NEW d \in Nat, Awaits(v, x, d) PROVE FALSE
            <6>1. PICK p \in Processes : \E i \in DOMAIN chain[p] :
                    chain[p][i].writer = v /\ chain[p][i].provider = x /\ chain[p][i].cred = d
              BY <5>1 DEF Awaits
            <6>2. PICK r \in Processes : \E i \in DOMAIN chain[r] :
                    chain[r][i].writer = v /\ chain[r][i].provider = q /\ chain[r][i].cred = c
              BY <1>0, <1>12 DEF Awaits
            <6>3. \A z \in Processes : LineFits(z)  BY <1>0 DEF SetupInv, VaultInv
            <6>4. p = r  BY <6>1, <6>2, <6>3 DEF LineFits
            <6>5. LineFits(p)  BY <6>3
            <6> QED BY <4>3, <6>1, <6>2, <6>4, <6>5 DEF LineFits
          <5>2. At(v, "restoring") /\ told[v] # "failed" /\ wizard[v].read
            BY <1>0, <1>3, <1>12, <3>3 DEF At, Alive
          <5>3. Traceless(v, x) \/ x \in wizard[v].undo
            BY <1>0, <5>1, <5>2 DEF WizardFits, TraceFits
          <5> QED BY <1>3, <1>9, <4>3, <5>3
        <4> QED BY <4>2, <4>3
      <3> QED BY <3>2, <3>3 DEF TraceFits
    <2> QED BY <1>7, <1>8, <2>3, <2>4 DEF WizardFits
  <1>13. CASE a = Login(v)
    <2>1. q = Chatgpt /\ c # 0  BY <1>0, <1>13 DEF WizardFits, PendingFits
    <2>2. told'[v] = told[v] /\ \A x \in Providers, d \in Nat : Awaits(v, x, d)' <=> Awaits(v, x, d)
      BY <1>0, <1>2, <1>6, <1>13
    <2>3. \A x \in Providers : Backed(v, x) => Backed(v, x)'
      <3>1. Backed(v, q)' \/ UNCHANGED <<vault, by>>  BY <1>5, <2>1 DEF Backed
      <3> QED BY <1>9, <1>10, <3>1
    <2>4. StagedFits(v)'
      BY <1>0, <1>3, <1>4, <1>11, <2>2, <2>3 DEF WizardFits, StagedFits
    <2>5. ASSUME wizard[v].at # "logging", NEW x \in Providers, Traceless(v, x) PROVE Traceless(v, x)'
      <3>1. login[v].handler = "storing"
        BY <1>0, <1>13 DEF SetupInv, WaitsFit, Rests
      <3>2. ~login[v].here  BY <1>0, <2>5, <3>1 DEF WizardFits, HandlerFits
      <3>3. Traceless(v, q)' \/ UNCHANGED <<vault, by>>  BY <1>3, <1>5, <1>13, <3>2 DEF Traceless
      <3> QED BY <1>9, <1>10, <2>5, <3>3
    <2>6. TraceFits(v)'
      <3>1. At(v, "restoring")' => At(v, "restoring") /\ wizard[v].at # "logging"
        BY <1>3 DEF At, Alive
      <3>2. At(v, "ended")' => At(v, "ended") /\ wizard[v].at # "logging"
        BY <1>3 DEF At, Alive
      <3> QED BY <1>0, <1>3, <2>2, <2>5, <3>1, <3>2 DEF WizardFits, TraceFits
    <2> QED BY <1>7, <1>8, <2>4, <2>6 DEF WizardFits
  <1> QED BY <1>12, <1>13 DEF ServedCase, Own

LEMMA VaultStepFits ==
  ASSUME SetupInv, NEW p \in Processes, VaultStep(p), UNCHANGED <<callVars, recordVars, wizardVars>>
  PROVE  SetupInv' /\ \A q \in Providers : WritesAreKept(q)
  <1>1. IInv'  BY FileStep DEF SetupInv, recordVars
  <1>2. scenario' = scenario /\ dead' = dead /\ wizard' = wizard /\ login' = login /\ config' = config
        /\ refresh' = refresh /\ call' = call
    BY DEF VaultStep, ReadVault, ReplaceVault, WriteFails, Works, Fails, processVars, wizardVars, callVars
  <1>3. SetupTypes'  BY <1>2 DEF SetupInv, SetupTypes
  <1>4. NamesFit'
    BY <1>2, NamesKept DEF SetupInv, recordVars
  <1>5. VaultInv  BY DEF SetupInv
  <1>6. PICK i \in MayRun(p) : ReadVault(p, i) \/ ReplaceVault(p, i) \/ WriteFails(p, i)
    BY DEF VaultStep
  <1>7. CASE ReadVault(p, i)
    <2>1. /\ VaultInv' /\ UNCHANGED <<vault, issued, by, told>>
          /\ \A b \in Writers, x \in Providers, d \in Nat : Awaits(b, x, d)' <=> Awaits(b, x, d)
      BY <1>5, <1>7, ReadingKeeps
    <2>2. ASSUME NEW v \in Wizards PROVE WizardFits(v)'
      <3>1. v \in Writers /\ Login(v) \in Writers  BY OwnFacts
      <3>2. Frame(v)  BY <1>2, <2>1, <3>1 DEF Frame, Alive, recordVars
      <3> QED BY <3>2, FrameFits
    <2>3. WaitsFit'  BY <1>2, <2>1 DEF SetupInv, WaitsFit, Rests
    <2> QED BY <1>1, <1>3, <1>4, <2>1, <2>2, <2>3 DEF SetupInv, WritesAreKept
  <1>8. CASE ReplaceVault(p, i) \/ WriteFails(p, i)
    <2>1. /\ VaultInv' /\ \A q \in Providers : WritesAreKept(q)
          /\ \E a \in Writers, q \in Providers, c \in Nat : Served(a, q, c)
      BY <1>5, <1>8, ServingKeeps
    <2>2. PICK a \in Writers, q \in Providers, c \in Nat : Served(a, q, c)  BY <2>1
    <2>3. ASSUME NEW v \in Wizards PROVE WizardFits(v)'
      <3>1. ServedCase(v, a, q, c)  BY <1>2, <2>1, <2>2 DEF ServedCase
      <3>2. CASE a \in Own(v)  BY <3>1, <3>2, ServedOwn
      <3>3. CASE a \notin Own(v)  BY <3>1, <3>3, ServedOther DEF Own
      <3> QED BY <3>2, <3>3
    <2>4. WaitsFit'
      <3>1. \A b \in Writers : told[b] = "none" => told'[b] = "none"
        BY <2>2, <1>5 DEF Served, VaultInv, VaultType
      <3> QED BY <1>2, <3>1, OwnFacts, CallsAssumption DEF SetupInv, WaitsFit, Rests
    <2> QED BY <1>1, <1>3, <1>4, <2>1, <2>3, <2>4 DEF SetupInv
  <1> QED BY <1>6, <1>7, <1>8

-----------------------------------------------------------------------------
(* Calls, and the renewal of tokens *)

CallMove == CallStep \/ ServerStep \/ (\E c \in Calls : Begin(c)) \/ Expire

\* A call renews, learns that its renewal is stored, or changes nothing others see.
CallForm ==
  \/ Resting /\ issued' = issued /\ \A i \in Instances : refresh'[i].stage # "storing" => refresh[i].stage # "storing"
  \/ \E i \in Instances :
       /\ Enqueues(i, Chatgpt, issued + 1) /\ issued' = issued + 1 /\ refresh'[i].stage = "storing"
       /\ \A j \in Instances : j # i => refresh'[j] = refresh[j]
  \/ \E i \in Instances :
       /\ Hears(i) /\ issued' = issued /\ \A j \in Instances : j # i => refresh'[j] = refresh[j]

LEMMA CallShapes ==
  ASSUME SetupInv, CallMove
  PROVE  /\ call' \in [Calls -> CallRecords] /\ refresh' \in [Instances -> Renewals]
         /\ scenario' = scenario /\ dead' = dead /\ CallForm
  <1>1. /\ call \in [Calls -> CallRecords] /\ refresh \in [Instances -> Renewals]
        /\ vault \in Entries /\ issued \in Nat
    BY DEF SetupInv, SetupTypes, VaultInv, VaultType
  <1>2. Chatgpt \in Providers /\ InstanceOf \in [Calls -> Instances] /\ vault[Chatgpt] \in Nat
    BY <1>1, CallsAssumption DEF Entries
  <1>3. ASSUME NEW c \in Calls, NEW place \in {"idle", "reading", "read", "refreshing", "sent", "answered", "failed"},
               Goes(c, place)
        PROVE  call' \in [Calls -> CallRecords]
    BY <1>1, <1>3 DEF Goes, CallRecords
  <1>4. ASSUME NEW i \in Instances, NEW place \in {"sent", "failed"}, NEW token \in Nat, Release(i, place, token)
        PROVE  call' \in [Calls -> CallRecords]
    <2>1. \A c \in Calls : [call[c] EXCEPT !.at = place, !.token = token] \in CallRecords
      BY <1>1 DEF CallRecords
    <2> QED BY <1>1, <1>4, <2>1 DEF Release
  <1>5. NoRefresh \in Renewals /\ NoRefresh.stage = "none"  BY DEF NoRefresh, Renewals
  <1>6. CASE \E c \in Calls : Begin(c)
    <2>1. PICK c \in Calls : Begin(c)  BY <1>6
    <2>2. Goes(c, "reading") /\ UNCHANGED <<refresh, vaultVars, processVars>>  BY <2>1 DEF Begin, Works
    <2>3. call' \in [Calls -> CallRecords]  BY <1>3, <2>2
    <2> QED BY <1>1, <2>2, <2>3 DEF CallForm, Resting, vaultVars, processVars
  <1>7. CASE Expire
    BY <1>1, <1>7 DEF Expire, Works, CallForm, Resting, vaultVars, processVars
  <1>8. CASE \E c \in Calls : ReadAuth(c)
    <2>1. PICK c \in Calls : ReadAuth(c)  BY <1>8
    <2>2. UNCHANGED <<refresh, vaultVars, scenario, dead>>  BY <2>1 DEF ReadAuth, Works, Fails, processVars
    <2>3. call' \in [Calls -> CallRecords]
      <3>1. CASE Goes(c, "failed")  BY <1>3, <3>1
      <3>2. CASE call' = [call EXCEPT ![c].at = "read", ![c].token = vault[Chatgpt]]
        BY <1>1, <1>2, <3>2 DEF CallRecords
      <3> QED BY <2>1, <3>1, <3>2 DEF ReadAuth
    <2> QED BY <1>1, <2>2, <2>3 DEF CallForm, Resting, vaultVars
  <1>9. CASE \E c \in Calls : Authorize(c)
    <2>1. PICK c \in Calls : Authorize(c)  BY <1>9
    <2>2. UNCHANGED <<vaultVars, scenario, dead>>  BY <2>1 DEF Authorize, Works, processVars
    <2>3. PICK place \in {"failed", "sent", "refreshing"} : Goes(c, place)  BY <2>1 DEF Authorize
    <2>4. call' \in [Calls -> CallRecords]  BY <1>3, <2>3
    <2>5. InstanceOf[c] \in Instances /\ call[c].token \in Nat  BY <1>1, <1>2 DEF CallRecords
    <2>6. \/ refresh' = refresh
          \/ /\ refresh[InstanceOf[c]].stage = "none"
             /\ refresh' = [refresh EXCEPT ![InstanceOf[c]] = [stage |-> "asking", from |-> call[c].token, token |-> 0]]
      BY <2>1 DEF Authorize
    <2>7. [stage |-> "asking", from |-> call[c].token, token |-> 0] \in Renewals  BY <2>5 DEF Renewals
    <2>8. refresh' \in [Instances -> Renewals]
          /\ \A i \in Instances : refresh'[i].stage # "storing" => refresh[i].stage # "storing"
      BY <1>1, <2>5, <2>6, <2>7
    <2> QED BY <2>2, <2>4, <2>8 DEF CallForm, Resting, vaultVars
  <1>10. CASE \E c \in Calls : Respond(c)
    <2>1. PICK c \in Calls : Respond(c)  BY <1>10
    <2>2. UNCHANGED <<refresh, vaultVars, scenario, dead>>  BY <2>1 DEF Respond, Works, processVars
    <2>3. call' \in [Calls -> CallRecords]
      <3>1. CASE \E end \in {"answered", "failed"} : Goes(c, end)  BY <1>3, <3>1
      <3>2. CASE call' = [call EXCEPT ![c].at = "reading", ![c].retried = TRUE]
        BY <1>1, <3>2 DEF CallRecords
      <3> QED BY <2>1, <3>1, <3>2 DEF Respond
    <2> QED BY <1>1, <2>2, <2>3 DEF CallForm, Resting, vaultVars
  <1>11. CASE \E i \in Instances : RenewalStored(i)
    <2>1. PICK i \in Instances : RenewalStored(i)  BY <1>11
    <2>2. refresh' = [refresh EXCEPT ![i] = NoRefresh] /\ Hears(i) /\ UNCHANGED <<issued, scenario, dead>>
      BY <2>1 DEF RenewalStored, Works, processVars, Hears
    <2>3. refresh[i].token \in Nat  BY <1>1 DEF Renewals
    <2>4. call' \in [Calls -> CallRecords]  BY <1>4, <2>1, <2>3 DEF RenewalStored
    <2>5. refresh' \in [Instances -> Renewals] /\ \A j \in Instances : j # i => refresh'[j] = refresh[j]
      BY <1>1, <1>5, <2>2
    <2> QED BY <2>2, <2>4, <2>5 DEF CallForm
  <1>12. CASE \E i \in Instances : Renew(i)
    <2>1. PICK i \in Instances : Renew(i)  BY <1>12
    <2>2. told[i] = "none"  BY <2>1 DEF SetupInv, WaitsFit, Rests, Renew
    <2>3. /\ Enqueues(i, Chatgpt, issued + 1) /\ issued' = issued + 1 /\ call' = call
          /\ refresh' = [refresh EXCEPT ![i].stage = "storing", ![i].token = issued + 1]
          /\ UNCHANGED <<scenario, dead>>
      BY <2>1, <2>2 DEF Renew, Works, processVars, Enqueues
    <2> DEFINE u == [refresh[i] EXCEPT !.stage = "storing", !.token = issued + 1]
    <2>7. refresh[i] \in Renewals /\ issued + 1 \in Nat  BY <1>1
    <2>5. u \in Renewals /\ u.stage = "storing"  BY <2>7 DEF Renewals
    <2>6. refresh' = [refresh EXCEPT ![i] = u]  BY <1>1, <2>3 DEF Renewals
    <2> HIDE DEF u
    <2>4. /\ refresh' \in [Instances -> Renewals] /\ refresh'[i].stage = "storing"
          /\ \A j \in Instances : j # i => refresh'[j] = refresh[j]
      BY <1>1, <2>5, <2>6
    <2> QED BY <1>1, <2>3, <2>4 DEF CallForm
  <1>13. CASE \E i \in Instances : RenewalFails(i)
    <2>1. PICK i \in Instances : RenewalFails(i)  BY <1>13
    <2>2. /\ refresh[i].stage = "asking" /\ refresh' = [refresh EXCEPT ![i] = NoRefresh]
          /\ UNCHANGED <<vaultVars, scenario, dead>>
      BY <2>1 DEF RenewalFails, Works, processVars
    <2>3. call' \in [Calls -> CallRecords]  BY <1>4, <2>1 DEF RenewalFails
    <2>4. refresh' \in [Instances -> Renewals]
          /\ \A j \in Instances : refresh'[j].stage # "storing" => refresh[j].stage # "storing"
      BY <1>1, <1>5, <2>2
    <2> QED BY <2>2, <2>3, <2>4 DEF CallForm, Resting, vaultVars
  <1> QED BY <1>6, <1>7, <1>8, <1>9, <1>10, <1>11, <1>12, <1>13 DEF CallMove, CallStep, ServerStep

LEMMA CallMoveFits ==
  ASSUME SetupInv, CallMove, UNCHANGED <<recordVars, wizardVars>>
  PROVE  SetupInv' /\ \A q \in Providers : WritesAreKept(q)
  <1>1. IInv'  BY FileStep DEF SetupInv, CallMove
  <1>2. /\ call' \in [Calls -> CallRecords] /\ refresh' \in [Instances -> Renewals]
        /\ scenario' = scenario /\ dead' = dead /\ CallForm
    BY CallShapes
  <1>3. wizard' = wizard /\ login' = login /\ config' = config /\ update' = update /\ record' = record
    BY DEF wizardVars, recordVars
  <1>4. SetupTypes'  BY <1>2, <1>3 DEF SetupInv, SetupTypes
  <1>5. NamesFit'  BY <1>3, NamesKept DEF SetupInv
  <1>6. VaultInv /\ WaitsFit /\ issued \in Nat /\ told \in [Writers -> Answers] /\ Chatgpt \in Providers
    BY CallsAssumption DEF SetupInv, VaultInv, VaultType
  <1>7. \A q \in Providers : WritesAreKept(q)
    <2>1. vault' = vault  BY <1>2 DEF CallForm, Resting, Enqueues, Enqueue, Hears
    <2> QED BY <2>1 DEF WritesAreKept
  <1> DEFINE Kept ==
        /\ VaultInv' /\ WaitsFit'
        /\ vault' = vault /\ by' = by
        /\ \A b \in Writers : b \notin Instances =>
             /\ told'[b] = told[b]
             /\ \A x \in Providers, d \in Nat : Awaits(b, x, d)' <=> Awaits(b, x, d)
  <1>8. Kept
    <2>1. CASE Resting /\ issued' = issued
               /\ \A i \in Instances : refresh'[i].stage # "storing" => refresh[i].stage # "storing"
      <3>1. VaultInv'  BY <1>6, <2>1, RestingKeeps
      <3>2. WaitsFit'  BY <1>3, <1>6, <2>1 DEF WaitsFit, Rests, Resting
      <3> QED BY <2>1, <3>1, <3>2 DEF Resting, Awaits
    <2>2. ASSUME NEW i \in Instances, Enqueues(i, Chatgpt, issued + 1), issued' = issued + 1,
                 refresh'[i].stage = "storing", \A j \in Instances : j # i => refresh'[j] = refresh[j]
          PROVE  Kept
      <3>1. i \in Writers /\ issued + 1 \in Nat  BY <1>6, CallsAssumption
      <3>2. /\ VaultInv'
            /\ \A b \in Writers, x \in Providers, d \in Nat :
                 Awaits(b, x, d)' <=> (Awaits(b, x, d) \/ (b = i /\ x = Chatgpt /\ d = issued + 1))
        BY <1>6, <2>2, <3>1, EnqueueKeeps
      <3>3. vault' = vault /\ by' = by /\ \A b \in Writers : b # i => told'[b] = told[b]
        BY <1>6, <2>2 DEF Enqueues, Enqueue
      <3>4. WaitsFit'
        BY <1>3, <1>6, <2>2, <3>3, OwnFacts, CallsAssumption DEF WaitsFit, Rests
      <3> QED BY <3>2, <3>3, <3>4
    <2>3. ASSUME NEW i \in Instances, Hears(i), issued' = issued,
                 \A j \in Instances : j # i => refresh'[j] = refresh[j]
          PROVE  Kept
      <3>1. i \in Writers  BY CallsAssumption
      <3>2. VaultInv'  BY <1>6, <2>3, <3>1, HearingKeeps
      <3>3. /\ vault' = vault /\ by' = by /\ chain' = chain /\ told'[i] = "none"
            /\ \A b \in Writers : b # i => told'[b] = told[b]
        BY <1>6, <2>3, <3>1 DEF Hears
      <3>4. WaitsFit'
        BY <1>3, <1>6, <2>3, <3>3, OwnFacts, CallsAssumption DEF WaitsFit, Rests
      <3> QED BY <3>2, <3>3, <3>4 DEF Awaits
    <2> QED BY <1>2, <2>1, <2>2, <2>3 DEF CallForm
  <1>9. ASSUME NEW v \in Wizards PROVE WizardFits(v)'
    <2>1. v \in Writers /\ Login(v) \in Writers /\ v \notin Instances /\ Login(v) \notin Instances
      BY OwnFacts
    <2>2. Frame(v)  BY <1>2, <1>3, <1>8, <2>1 DEF Frame, Alive
    <2> QED BY <2>2, FrameFits
  <1> QED BY <1>1, <1>4, <1>5, <1>7, <1>8, <1>9 DEF SetupInv

-----------------------------------------------------------------------------
(* Deaths, updates of setup.json, and setups of Blender *)

LEMMA CrashFits ==
  ASSUME SetupInv, NEW p \in Processes, Crash(p)
  PROVE  SetupInv' /\ \A q \in Providers : WritesAreKept(q)
  <1>1. IInv'  BY FileStep DEF SetupInv
  <1>2. /\ Dies(p) /\ dead' = dead \cup {p} /\ scenario' = scenario /\ issued' = issued
        /\ UNCHANGED <<vault, by, told, call, refresh, record, update, config, wizard, login>>
    BY DEF Crash, Dies, callVars, recordVars, wizardVars
  <1>3. SetupTypes' /\ WaitsFit'  BY <1>2 DEF SetupInv, SetupTypes, WaitsFit, Rests
  <1>4. NamesFit'  BY <1>2, NamesKept DEF SetupInv
  <1>5. /\ VaultInv'
        /\ \A b \in Writers, x \in Providers, d \in Nat :
             /\ Awaits(b, x, d)' => Awaits(b, x, d)
             /\ ProcessOf[b] # p /\ Awaits(b, x, d) => Awaits(b, x, d)'
    BY <1>2, DyingKeeps DEF SetupInv
  <1>6. ASSUME NEW v \in Wizards PROVE WizardFits(v)'
    <2>1. v \in Writers /\ Login(v) \in Writers  BY OwnFacts
    <2>2. Frame(v)  BY <1>2, <1>5, <2>1 DEF Frame, Alive
    <2> QED BY <2>2, FrameFits
  <1> QED BY <1>1, <1>2, <1>3, <1>4, <1>5, <1>6 DEF SetupInv, WritesAreKept

\* A step that changes nothing but setup.json and its updates.
Elsewhere ==
  /\ UNCHANGED <<vault, issued, by, chain, told, call, refresh, config, wizard, login>>
  /\ scenario' = scenario /\ dead' = dead

LEMMA ElsewhereFits ==
  ASSUME SetupInv, Elsewhere, IInv', NamesFit',
         \A v \in Wizards : update'[v].at = update[v].at \/ wizard[v].at \in {"recording", "merging"}
  PROVE  SetupInv' /\ \A q \in Providers : WritesAreKept(q)
  <1>1. SetupTypes' /\ WaitsFit'  BY DEF SetupInv, SetupTypes, WaitsFit, Rests, Elsewhere
  <1>2. VaultInv'  BY RestingKeeps DEF SetupInv, VaultInv, VaultType, Elsewhere, Resting
  <1>3. ASSUME NEW v \in Wizards PROVE WizardFits(v)'
    <2>1. Frame(v)  BY DEF Elsewhere, Frame, Alive, Awaits
    <2> QED BY <2>1, FrameFits
  <1> QED BY <1>1, <1>2, <1>3 DEF SetupInv, WritesAreKept, Elsewhere

\* What a step of an update makes of the names that setup.json has.
LEMMA RecordNames ==
  ASSUME IInv, NamesFit, NEW a \in Updaters, RecordStep(a), wizard' = wizard
  PROVE  NamesFit'
  <1>1. update \in [Updaters -> Updates] /\ update[a] \in Updates
    BY DEF IInv, RecordType
  <1>2. \A x : Named(x)' <=> Named(x)  BY DEF Named
  <1>3. update[a].kind = "core" => Named(a)  BY DEF NamesFit
  <1>4. Named(Patched(a, record).core)  BY <1>3 DEF NamesFit, Patched
  <1>5. /\ record' = record \/ record' = update[a].content
        /\ \A b \in Updaters : b # a => update'[b] = update[b]
        /\ update'[a].kind = update[a].kind
        /\ \/ update'[a].source = update[a].source /\ update'[a].content = update[a].content
           \/ update'[a].source = record /\ update'[a].content = Patched(a, record)
    <2>1. CASE \E place \in Places : Ends(a, place) /\ (record' = record \/ record' = update[a].content)
      BY <1>1, <2>1 DEF Ends, Updates
    <2>2. CASE ReadRecord(a)
      <3>1. CASE Ends(a, "failed")  BY <1>1, <2>2, <3>1 DEF Ends, Updates, ReadRecord
      <3>2. CASE update' = [update EXCEPT ![a].at = "locking", ![a].source = record,
                                          ![a].content = Patched(a, record)]
        <4> DEFINE f == Patched(a, record)
        <4> HIDE DEF f
        <4>1. update' = [update EXCEPT ![a].at = "locking", ![a].source = record, ![a].content = f]
          BY <3>2 DEF f
        <4>2. /\ \A b \in Updaters : b # a => update'[b] = update[b]
              /\ update'[a].kind = update[a].kind /\ update'[a].source = record /\ update'[a].content = f
          BY <1>1, <4>1 DEF Updates
        <4> QED BY <2>2, <4>2 DEF f, ReadRecord
      <3> QED BY <2>2, <3>1, <3>2 DEF ReadRecord
    <2>3. CASE Stale(a)
      BY <1>1, <2>3 DEF Stale, Updates
    <2>4. CASE TakeLock(a)    BY <1>1, <2>4 DEF TakeLock, Ends, Updates
    <2>5. CASE LookAtLock(a)  BY <1>1, <2>5 DEF LookAtLock, Ends, Updates
    <2>6. CASE ReclaimLock(a) BY <1>1, <2>6 DEF ReclaimLock, Ends, Updates
    <2>7. CASE Compare(a)     BY <1>1, <2>7 DEF Compare, Ends, Updates
    <2>8. CASE Publish(a)     BY <1>1, <2>8 DEF Publish, Ends, Updates
    <2>9. CASE UpdateFails(a) BY <1>1, <2>9 DEF UpdateFails, Ends, Updates
    <2> QED BY <2>2, <2>3, <2>4, <2>5, <2>6, <2>7, <2>8, <2>9 DEF RecordStep
  <1>6. Named(record'.core)  BY <1>5 DEF NamesFit
  <1>7. ASSUME NEW b \in Updaters
        PROVE  /\ update'[b].kind = "core" => Named(b)
               /\ Named(update'[b].source.core) /\ Named(update'[b].content.core)
    <2>1. CASE b = a  BY <1>4, <1>5, <2>1 DEF NamesFit
    <2>2. CASE b # a  BY <1>5, <2>2 DEF NamesFit
    <2> QED BY <2>1, <2>2
  <1> QED BY <1>2, <1>6, <1>7 DEF NamesFit

LEMMA RecordStepFits ==
  ASSUME SetupInv, NEW a \in Updaters, RecordStep(a), UNCHANGED <<vaultVars, callVars, wizardVars>>
  PROVE  SetupInv' /\ \A q \in Providers : WritesAreKept(q)
  <1>1. IInv'  BY UpdateStep DEF SetupInv
  <1>2. scenario' = scenario /\ dead' = dead
    BY DEF RecordStep, ReadRecord, TakeLock, LookAtLock, ReclaimLock, Compare, Stale, Publish, UpdateFails,
           Works, Fails, processVars
  <1>3. Elsewhere  BY <1>2 DEF Elsewhere, vaultVars, callVars, wizardVars
  <1>4. NamesFit'  BY <1>3, RecordNames DEF SetupInv, Elsewhere
  <1>5. update \in [Updaters -> Updates]  BY DEF SetupInv, IInv, RecordType
  <1>6. /\ update[a].at \in {"reading", "locking", "reclaiming", "locked", "compared"}
        /\ \A b \in Updaters : b # a => update'[b] = update[b]
    BY <1>5 DEF RecordStep, ReadRecord, TakeLock, LookAtLock, ReclaimLock, Compare, Stale, Publish, UpdateFails, Ends
  <1>7. ASSUME NEW v \in Wizards PROVE update'[v].at = update[v].at \/ wizard[v].at \in {"recording", "merging"}
    <2>1. v \in Updaters  BY OwnFacts
    <2>2. CASE v # a  BY <1>6, <2>1, <2>2
    <2>3. CASE v = a
      <3>1. wizard[v].at \in WizardPlaces  BY DEF SetupInv, SetupTypes, WizardRecords
      <3>2. UpdateFits(v)  BY DEF SetupInv, WizardFits
      <3> QED BY <1>6, <2>3, <3>1, <3>2 DEF UpdateFits, WizardPlaces, Early, Undoing
    <2> QED BY <2>2, <2>3
  <1> QED BY <1>1, <1>3, <1>4, <1>7, ElsewhereFits

LEMMA FlowFits ==
  ASSUME SetupInv, NEW f \in Flows, FlowStart(f) \/ FlowUpdate(f)
  PROVE  SetupInv' /\ \A q \in Providers : WritesAreKept(q)
  <1>1. IInv'
    <2>1. [Next]_vars  BY DEF Next, Environment
    <2> QED BY <2>1, StepIsSerial DEF SetupInv
  <1>2. Elsewhere /\ record' = record
    BY DEF FlowStart, FlowUpdate, Elsewhere, Works, processVars, vaultVars, callVars, wizardVars
  <1>3. update \in [Updaters -> Updates] /\ f \in Updaters  BY WizardsAssumption DEF SetupInv, IInv, RecordType
  <1>4. \A b \in Updaters : b # f => update'[b] = update[b]
    BY <1>3 DEF FlowStart, FlowUpdate, StartUpdate
  <1>5. \/ /\ update'[f].kind = update[f].kind /\ update'[f].source = update[f].source
           /\ update'[f].content = update[f].content
        \/ update'[f].kind # "core" /\ update'[f].source = Missing /\ update'[f].content = Missing
    <2>1. CASE FlowStart(f)  BY <1>3, <2>1 DEF FlowStart, Updates
    <2>2. CASE FlowUpdate(f)
      <3>1. PICK kind \in {"installed", "declined", "unavailable"} : StartUpdate(f, kind, update[f].base)
        BY <2>2 DEF FlowUpdate
      <3>2. kind # "core"  BY <3>1
      <3> QED BY <1>3, <3>1, <3>2 DEF StartUpdate, NoUpdate
    <2> QED BY <2>1, <2>2
  <1>6. \A x : Named(x)' <=> Named(x)  BY <1>2 DEF Named, Elsewhere
  <1>7. Named(Missing.core)  BY DEF Named, Missing
  <1>8. NamesFit  BY DEF SetupInv
  <1>9. NamesFit'
    <2>1. ASSUME NEW b \in Updaters
          PROVE  /\ update'[b].kind = "core" => Named(b)
                 /\ Named(update'[b].source.core) /\ Named(update'[b].content.core)
      BY <1>4, <1>5, <1>7, <1>8 DEF NamesFit
    <2> QED BY <1>2, <1>6, <1>8, <2>1 DEF NamesFit
  <1>10. ASSUME NEW v \in Wizards PROVE update'[v].at = update[v].at
    <2>1. v # f /\ v \in Updaters  BY WizardsAssumption
    <2> QED BY <1>4, <2>1
  <1> QED BY <1>1, <1>2, <1>9, <1>10, ElsewhereFits

-----------------------------------------------------------------------------
(* The steps of a wizard *)

\* What wizard w may change.
OwnStep(w) ==
  /\ UNCHANGED <<scenario, dead, call, refresh, record>>
  /\ wizard' \in [Wizards -> WizardRecords] /\ login' \in [Wizards -> Logins] /\ config' \in Configs
  /\ \A v \in Wizards : v # w => wizard'[v] = wizard[v] /\ login'[v] = login[v] /\ update'[v] = update[v]
  /\ config' = config \/ config'.by = w
  /\ \/ Resting /\ issued' = issued
     \/ \E a \in Own(w), q \in Providers, c \in Nat : Enqueues(a, q, c) /\ issued' \in Nat
     \/ \E a \in Own(w) : Hears(a) /\ issued' = issued

LEMMA OwnStepFits ==
  ASSUME SetupInv, NEW w \in Wizards, OwnStep(w), IInv', NamesFit', Rests(w)', WizardFits(w)'
  PROVE  SetupInv' /\ \A q \in Providers : WritesAreKept(q)
  <1>1. VaultInv /\ WaitsFit /\ issued \in Nat /\ told \in [Writers -> Answers]
    BY DEF SetupInv, VaultInv, VaultType
  <1>2. w \in Writers /\ Login(w) \in Writers /\ Own(w) \subseteq Writers  BY OwnFacts DEF Own
  <1> DEFINE Kept ==
        /\ VaultInv' /\ vault' = vault /\ by' = by
        /\ \A b \in Writers : b \notin Own(w) =>
             /\ told'[b] = told[b]
             /\ \A x \in Providers, d \in Nat : Awaits(b, x, d)' <=> Awaits(b, x, d)
  <1>3. Kept
    <2>1. CASE Resting /\ issued' = issued
      BY <1>1, <2>1, RestingKeeps DEF Resting, Awaits
    <2>2. ASSUME NEW a \in Own(w), NEW q \in Providers, NEW c \in Nat, Enqueues(a, q, c), issued' \in Nat
          PROVE  Kept
      <3>1. a \in Writers  BY <1>2
      <3>2. /\ VaultInv'
            /\ \A b \in Writers, x \in Providers, d \in Nat :
                 Awaits(b, x, d)' <=> (Awaits(b, x, d) \/ (b = a /\ x = q /\ d = c))
        BY <1>1, <2>2, <3>1, EnqueueKeeps
      <3>3. vault' = vault /\ by' = by /\ \A b \in Writers : b # a => told'[b] = told[b]
        BY <1>1, <2>2 DEF Enqueues, Enqueue
      <3> QED BY <3>2, <3>3
    <2>3. ASSUME NEW a \in Own(w), Hears(a), issued' = issued PROVE Kept
      <3>1. a \in Writers  BY <1>2
      <3>2. VaultInv'  BY <1>1, <2>3, <3>1, HearingKeeps
      <3>3. vault' = vault /\ by' = by /\ chain' = chain /\ \A b \in Writers : b # a => told'[b] = told[b]
        BY <1>1, <2>3 DEF Hears
      <3> QED BY <3>2, <3>3 DEF Awaits
    <2> QED BY <2>1, <2>2, <2>3 DEF OwnStep
  <1>4. ASSUME NEW v \in Wizards, v # w PROVE WizardFits(v)' /\ Rests(v)'
    <2>1. /\ v \in Writers /\ Login(v) \in Writers /\ v \notin Own(w) /\ Login(v) \notin Own(w)
      BY <1>4, OwnFacts DEF Own
    <2>2. told'[v] = told[v] /\ told'[Login(v)] = told[Login(v)] /\ wizard'[v] = wizard[v]
          /\ login'[v] = login[v] /\ update'[v] = update[v]
      BY <1>3, <1>4, <2>1 DEF OwnStep
    <2>3. config' = config \/ (config'.by # v /\ config'.by # NoOne)
      BY <1>4, OwnFacts DEF OwnStep
    <2>4. Frame(v)  BY <1>3, <2>1, <2>2, <2>3 DEF Frame, OwnStep, Alive
    <2>5. Rests(v)'  BY <1>1, <2>2 DEF WaitsFit, Rests
    <2> QED BY <2>4, <2>5, FrameFits
  <1>5. WaitsFit'
    <2>1. \A i \in Instances : told'[i] = told[i]
      BY <1>3, OwnFacts, CallsAssumption DEF Own
    <2> QED BY <1>1, <1>4, <2>1 DEF WaitsFit, OwnStep
  <1>6. SetupTypes'  BY DEF OwnStep, SetupInv, SetupTypes
  <1>7. \A v \in Wizards : WizardFits(v)'  BY <1>4
  <1> QED BY <1>3, <1>5, <1>6, <1>7 DEF SetupInv, WritesAreKept

\* A step before the configuration is saved that writes nothing.
Browses(w) ==
  /\ wizard[w].at \in {"idle", "starting", "choosing", "refused", "logging"}
  /\ wizard'[w].at \in {"ready", "starting", "choosing", "refused", "logging", "undoing"}
  /\ wizard'[w].undone = wizard[w].undone
  /\ \A q \in wizard'[w].staged : q \in wizard[w].staged \/ vault[q] # 0
  /\ login'[w].handler \in {"exchanging", "storing"} => wizard'[w].at = "logging" \/ ~login'[w].here
  /\ login'[w].handler # "storing" => login[w].handler # "storing"
  /\ Resting /\ issued' = issued /\ UNCHANGED <<record, update, config>>

LEMMA BrowsingFits ==
  ASSUME SetupInv, NEW w \in Wizards, OwnStep(w), Browses(w)
  PROVE  NamesFit' /\ Rests(w)' /\ WizardFits(w)'
  <1>1. WizardFits(w) /\ Rests(w)  BY DEF SetupInv, WaitsFit
  <1>2. told' = told /\ vault' = vault /\ by' = by /\ chain' = chain /\ update' = update /\ config' = config
    BY DEF Browses, Resting
  <1>3. told[w] = "none" /\ told'[w] = "none"
    BY <1>1, <1>2 DEF Rests, Browses
  <1>4. Rests(w)'  BY <1>1, <1>2, <1>3 DEF Rests, Browses
  <1>5. NamesFit'
    <2>1. \A v \in Wizards : wizard[v].at \in Late => wizard'[v].at \in Late
      BY DEF OwnStep, Browses, Late, Undoing
    <2> QED BY <2>1, NamesKept DEF SetupInv, Browses
  <1>6. PendingFits(w)'
    <2>1. \A q \in Providers, c \in Nat : ~Awaits(w, q, c)
      <3>1. w \in Writers /\ VaultInv  BY OwnFacts DEF SetupInv
      <3> QED BY <1>3, <3>1, AwaitingWaits
    <2> QED BY <1>1, <1>2, <2>1 DEF WizardFits, PendingFits, Awaits
  <1>7. HandlerFits(w)'  BY DEF Browses, HandlerFits
  <1>8. update[w].at = "none"  BY <1>1 DEF WizardFits, UpdateFits, Early, Browses
  <1>9. UpdateFits(w)' /\ ConfigFits(w)'
    BY <1>2, <1>8 DEF UpdateFits, ConfigFits, Saved, Early, Undoing, Browses
  <1>10. StagedFits(w)'
    <2>1. Stands(w)  BY DEF Stands, Browses, Undoing
    <2>2. \A q \in wizard[w].staged : Backed(w, q)
      BY <1>1, <2>1 DEF WizardFits, StagedFits, Removes, Browses
    <2>3. \A q \in wizard'[w].staged : Backed(w, q)'  BY <1>2, <2>2 DEF Backed, Browses
    <2>4. ~Stores(w)'  BY DEF Stores, Browses
    <2> QED BY <2>3, <2>4 DEF StagedFits
  <1>11. TraceFits(w)'
    <2>1. ~wizard[w].undone  BY <1>1 DEF WizardFits, TraceFits, Browses
    <2> QED BY <2>1 DEF TraceFits, At, Browses
  <1> QED BY <1>4, <1>5, <1>6, <1>7, <1>9, <1>10, <1>11 DEF WizardFits

LEMMA WizardTurns ==
  ASSUME SetupInv, NEW w \in Wizards, NEW r \in WizardRecords, wizard' = [wizard EXCEPT ![w] = r]
  PROVE  /\ wizard' \in [Wizards -> WizardRecords] /\ wizard'[w] = r
         /\ \A v \in Wizards : v # w => wizard'[v] = wizard[v]
  BY DEF SetupInv, SetupTypes

LEMMA LoginTurns ==
  ASSUME SetupInv, NEW w \in Wizards, NEW l \in Logins, login' = [login EXCEPT ![w] = l]
  PROVE  /\ login' \in [Wizards -> Logins] /\ login'[w] = l
         /\ \A v \in Wizards : v # w => login'[v] = login[v]
  BY DEF SetupInv, SetupTypes

\* Neither the files nor the calls change.
Still ==
  UNCHANGED <<scenario, dead, vault, issued, by, chain, told, call, refresh, record, lock, robbed, update, config>>

LEMMA QuietIsStill == Quiet => Still
  BY DEF Quiet, Still, Works, processVars, vaultVars, callVars, recordVars

LEMMA WizardBrowses ==
  ASSUME SetupInv, NEW w \in Wizards, Still, login' = login, NEW r \in WizardRecords,
         wizard' = [wizard EXCEPT ![w] = r],
         wizard[w].at \in {"idle", "starting", "choosing", "refused", "logging"},
         r.at \in {"ready", "starting", "choosing", "refused", "undoing"},
         wizard[w].at = "logging" => Closed(w),
         r.undone = wizard[w].undone, \A q \in r.staged : q \in wizard[w].staged \/ vault[q] # 0
  PROVE  OwnStep(w) /\ Browses(w)
  <1>1. /\ wizard' \in [Wizards -> WizardRecords] /\ wizard'[w] = r
        /\ \A v \in Wizards : v # w => wizard'[v] = wizard[v]
    BY WizardTurns
  <1>2. HandlerFits(w)  BY DEF SetupInv, WizardFits
  <1>3. login[w].handler \in {"exchanging", "storing"} => ~login[w].here
    BY <1>2 DEF HandlerFits, Closed
  <1>4. Browses(w)  BY <1>1, <1>3 DEF Browses, Still, Resting
  <1>5. OwnStep(w)  BY <1>1 DEF OwnStep, Still, Resting, SetupInv, SetupTypes
  <1> QED BY <1>4, <1>5

LEMMA LoginBrowses ==
  ASSUME SetupInv, NEW w \in Wizards, Still, NEW l \in Logins, login' = [login EXCEPT ![w] = l],
         NEW r \in WizardRecords, wizard' = [wizard EXCEPT ![w] = r],
         wizard[w].at \in {"choosing", "logging"}, r.at = "logging",
         r.undone = wizard[w].undone, r.staged = wizard[w].staged,
         l.handler = "storing" \/ login[w].handler # "storing"
  PROVE  OwnStep(w) /\ Browses(w)
  <1>1. /\ wizard' \in [Wizards -> WizardRecords] /\ wizard'[w] = r
        /\ \A v \in Wizards : v # w => wizard'[v] = wizard[v]
    BY WizardTurns
  <1>2. /\ login' \in [Wizards -> Logins] /\ login'[w] = l
        /\ \A v \in Wizards : v # w => login'[v] = login[v]
    BY LoginTurns
  <1>3. Browses(w)  BY <1>1, <1>2 DEF Browses, Still, Resting
  <1>4. OwnStep(w)  BY <1>1, <1>2 DEF OwnStep, Still, Resting, SetupInv, SetupTypes
  <1> QED BY <1>3, <1>4

LEMMA BrowsingActions ==
  ASSUME SetupInv, NEW w \in Wizards,
         \/ OpenSetup(w) \/ TakeSnapshot(w) \/ Cancel(w)
         \/ \E q \in Providers : Skip(w, q) \/ Keep(w, q)
         \/ \E method \in {"browser", "device"} : StartLogin(w, method)
         \/ Callback(w) \/ LoginTimesOut(w) \/ BrowserLeaves(w) \/ LoginReturns(w)
         \/ SaveConfig(w) /\ Go(w, "undoing") /\ UNCHANGED config
  PROVE  OwnStep(w) /\ Browses(w)
  <1>0. /\ wizard \in [Wizards -> WizardRecords] /\ wizard[w] \in WizardRecords
        /\ login \in [Wizards -> Logins] /\ login[w] \in Logins
        /\ vault \in Entries /\ scenario \in Scenarios /\ config \in Configs
        /\ Chatgpt \in Providers
    BY CallsAssumption DEF SetupInv, SetupTypes, VaultInv, VaultType
  <1>1. ASSUME NEW place \in {"ready", "starting", "choosing", "refused", "undoing"}, Go(w, place), Still, login' = login,
               wizard[w].at \in {"idle", "starting", "choosing", "refused", "logging"},
               wizard[w].at = "logging" => Closed(w)
        PROVE  OwnStep(w) /\ Browses(w)
    <2> DEFINE r == [wizard[w] EXCEPT !.at = place]
    <2>1. r \in WizardRecords /\ r.at = place /\ r.undone = wizard[w].undone /\ r.staged = wizard[w].staged
      BY <1>0, <1>1 DEF WizardRecords, WizardPlaces
    <2>2. wizard' = [wizard EXCEPT ![w] = r]  BY <1>0, <1>1 DEF Go, WizardRecords
    <2> HIDE DEF r
    <2> QED BY <1>1, <2>1, <2>2, WizardBrowses
  <1>2. CASE OpenSetup(w)
    <2>1. Still /\ login' = login /\ wizard[w].at = "idle"
      BY <1>2, QuietIsStill DEF OpenSetup, At
    <2>2. CASE Go(w, "ready")  BY <1>1, <2>1, <2>2
    <2>3. CASE wizard' = [wizard EXCEPT ![w].at = "starting", ![w].first = (record.core = NoOne)]
      <3> DEFINE first == (record.core = NoOne)
                 r == [wizard[w] EXCEPT !.at = "starting", !.first = first]
      <3>1. first \in BOOLEAN  OBVIOUS
      <3> HIDE DEF first
      <3>2. /\ r \in WizardRecords /\ r.at = "starting" /\ r.undone = wizard[w].undone
            /\ r.staged = wizard[w].staged
        BY <1>0, <3>1 DEF WizardRecords, WizardPlaces
      <3>3. wizard' = [wizard EXCEPT ![w] = r]  BY <1>0, <2>3 DEF first, WizardRecords
      <3> HIDE DEF r
      <3> QED BY <2>1, <3>2, <3>3, WizardBrowses
    <2> QED BY <1>2, <2>2, <2>3 DEF OpenSetup
  <1>3. CASE TakeSnapshot(w)
    <2>1. Still /\ login' = login /\ wizard[w].at = "starting"
      BY <1>3 DEF TakeSnapshot, At, Still, Works, Fails, processVars, vaultVars, callVars, recordVars
    <2>2. CASE Go(w, "undoing")  BY <1>1, <2>1, <2>2
    <2>3. CASE wizard' = [wizard EXCEPT ![w].at = "undoing", ![w].read = TRUE, ![w].snapshot = vault]
      <3> DEFINE r == [wizard[w] EXCEPT !.at = "undoing", !.read = TRUE, !.snapshot = vault]
      <3>2. r \in WizardRecords /\ r.at = "undoing" /\ r.undone = wizard[w].undone /\ r.staged = wizard[w].staged
        BY <1>0 DEF WizardRecords, WizardPlaces
      <3>3. wizard' = [wizard EXCEPT ![w] = r]  BY <1>0, <2>3 DEF WizardRecords
      <3> HIDE DEF r
      <3> QED BY <2>1, <3>2, <3>3, WizardBrowses
    <2>4. ASSUME NEW selected \in scenario.menus,
                 wizard' = [wizard EXCEPT ![w].at = "choosing", ![w].read = TRUE,
                          ![w].snapshot = vault, ![w].left = selected,
                          ![w].draft = {q \in config.enabled : ItemOf(q) \in selected}]
          PROVE  OwnStep(w) /\ Browses(w)
      <3> DEFINE draft == {q \in config.enabled : ItemOf(q) \in selected}
                 r == [wizard[w] EXCEPT !.at = "choosing", !.read = TRUE, !.snapshot = vault,
                                        !.left = selected, !.draft = draft]
      <3>1. draft \subseteq Providers /\ selected \subseteq Providers
        BY <1>0, WizardsAssumption DEF Configs
      <3>4. wizard' = [wizard EXCEPT ![w] = r]  BY <1>0, <2>4 DEF WizardRecords
      <3> HIDE DEF draft
      <3>2. r \in WizardRecords /\ r.at = "choosing" /\ r.undone = wizard[w].undone /\ r.staged = wizard[w].staged
        BY <1>0, <3>1 DEF WizardRecords, WizardPlaces
      <3> HIDE DEF r
      <3> QED BY <2>1, <3>2, <3>4, WizardBrowses
    <2> QED BY <1>3, <2>2, <2>3, <2>4 DEF TakeSnapshot
  <1>4. CASE Cancel(w)
    <2>1. Still /\ login' = login /\ wizard[w].at \in {"choosing", "refused"} /\ Go(w, "undoing")
      BY <1>4 DEF Cancel, Asks, Still, Works, Fails, processVars, vaultVars, callVars, recordVars
    <2> QED BY <1>1, <2>1
  <1>5. CASE SaveConfig(w) /\ Go(w, "undoing") /\ UNCHANGED config
    <2>1. Still /\ login' = login /\ wizard[w].at = "choosing"
      BY <1>5 DEF SaveConfig, At, Still, Works, Fails, processVars, vaultVars, callVars, recordVars
    <2> QED BY <1>1, <1>5, <2>1
  <1>6. CASE \E q \in Providers : Skip(w, q)
    <2>1. PICK q \in Providers : Skip(w, q)  BY <1>6
    <2>2. Still /\ login' = login /\ wizard[w].at \in {"choosing", "refused"}
      BY <2>1, QuietIsStill DEF Skip, Asks
    <2> DEFINE left == wizard[w].left \ {ItemOf(q)}
               r == [wizard[w] EXCEPT !.at = "choosing", !.left = left]
    <2>3. left \subseteq Providers  BY <1>0 DEF WizardRecords
    <2>4. wizard' = [wizard EXCEPT ![w] = r]  BY <1>0, <2>1 DEF Skip, Chosen, WizardRecords
    <2> HIDE DEF left
    <2>5. r \in WizardRecords /\ r.at = "choosing" /\ r.undone = wizard[w].undone /\ r.staged = wizard[w].staged
      BY <1>0, <2>3 DEF WizardRecords, WizardPlaces
    <2> HIDE DEF r
    <2> QED BY <2>2, <2>4, <2>5, WizardBrowses
  <1>7. CASE \E q \in Providers : Keep(w, q)
    <2>1. PICK q \in Providers : Keep(w, q)  BY <1>7
    <2>2. Still /\ login' = login /\ wizard[w].at \in {"choosing", "refused"}
      BY <2>1, QuietIsStill DEF Keep, Asks
    <2> DEFINE left == wizard[w].left \ {ItemOf(q)}
               draft == Enabling(wizard[w].draft, q)
               r == [wizard[w] EXCEPT !.at = "choosing", !.left = left, !.draft = draft]
    <2>3. left \subseteq Providers /\ draft \subseteq Providers  BY <1>0 DEF WizardRecords, Enabling
    <2>4. wizard' = [wizard EXCEPT ![w] = r]  BY <1>0, <2>1 DEF Keep, WizardRecords
    <2> HIDE DEF left, draft
    <2>5. r \in WizardRecords /\ r.at = "choosing" /\ r.undone = wizard[w].undone /\ r.staged = wizard[w].staged
      BY <1>0, <2>3 DEF WizardRecords, WizardPlaces
    <2> HIDE DEF r
    <2> QED BY <2>2, <2>4, <2>5, WizardBrowses
  <1>8. CASE \E method \in {"browser", "device"} : StartLogin(w, method)
    <2>1. PICK method \in {"browser", "device"} : StartLogin(w, method)  BY <1>8
    <2>2. Still /\ wizard[w].at = "choosing"  BY <2>1, QuietIsStill DEF StartLogin, At
    <2> DEFINE left == wizard[w].left \ {ItemOf(Chatgpt)}
               r == [wizard[w] EXCEPT !.at = "logging", !.left = left]
               l == [login[w] EXCEPT !.method = method]
    <2>3. left \subseteq Providers  BY <1>0 DEF WizardRecords
    <2>4. wizard' = [wizard EXCEPT ![w] = r]  BY <1>0, <2>1 DEF StartLogin, Chosen, WizardRecords
    <2>5. login' = [login EXCEPT ![w] = l]  BY <1>0, <2>1 DEF StartLogin, Logins
    <2> HIDE DEF left
    <2>6. r \in WizardRecords /\ r.at = "logging" /\ r.undone = wizard[w].undone /\ r.staged = wizard[w].staged
      BY <1>0, <2>3 DEF WizardRecords, WizardPlaces
    <2>7. l \in Logins /\ l.handler = login[w].handler  BY <1>0 DEF Logins
    <2> HIDE DEF r, l
    <2> QED BY <2>2, <2>4, <2>5, <2>6, <2>7, LoginBrowses
  <1>9. ASSUME NEW l \in Logins, login' = [login EXCEPT ![w] = l], wizard' = wizard, Still,
               wizard[w].at = "logging", l.handler = "storing" \/ login[w].handler # "storing"
        PROVE  OwnStep(w) /\ Browses(w)
    <2> DEFINE r == wizard[w]
    <2>1. wizard' = [wizard EXCEPT ![w] = r]  BY <1>0, <1>9
    <2> HIDE DEF r
    <2>2. r \in WizardRecords /\ r.at = "logging" /\ r.undone = wizard[w].undone /\ r.staged = wizard[w].staged
      BY <1>0, <1>9 DEF r
    <2> QED BY <1>9, <2>1, <2>2, LoginBrowses
  <1>10. CASE Callback(w)
    <2>1. Still /\ wizard' = wizard /\ wizard[w].at = "logging" /\ login[w].handler = "idle"
      BY <1>10, QuietIsStill DEF Callback, LogsIn, At
    <2>2. CASE login' = [login EXCEPT ![w].handler = "exchanging"]
      <3> DEFINE l == [login[w] EXCEPT !.handler = "exchanging"]
      <3>1. l \in Logins /\ login' = [login EXCEPT ![w] = l]  BY <1>0, <2>2 DEF Logins
      <3> HIDE DEF l
      <3> QED BY <1>9, <2>1, <3>1
    <2>3. CASE login' = [login EXCEPT ![w].settled = "error"]
      <3> DEFINE l == [login[w] EXCEPT !.settled = "error"]
      <3>1. l \in Logins /\ login' = [login EXCEPT ![w] = l]  BY <1>0, <2>3 DEF Logins
      <3> HIDE DEF l
      <3> QED BY <1>9, <2>1, <3>1
    <2> QED BY <1>10, <2>2, <2>3 DEF Callback
  <1>11. CASE LoginTimesOut(w)
    <2>1. Still /\ wizard' = wizard /\ wizard[w].at = "logging"
      BY <1>11, QuietIsStill DEF LoginTimesOut, LogsIn, At
    <2> DEFINE l == [login[w] EXCEPT !.settled = "error"]
    <2>2. l \in Logins /\ login' = [login EXCEPT ![w] = l] /\ l.handler = login[w].handler
      BY <1>0, <1>11 DEF Logins, LoginTimesOut
    <2> HIDE DEF l
    <2> QED BY <1>9, <2>1, <2>2
  <1>12. CASE BrowserLeaves(w)
    <2>1. Still /\ wizard' = wizard /\ wizard[w].at = "logging"
      BY <1>12, QuietIsStill DEF BrowserLeaves, At
    <2> DEFINE l == [login[w] EXCEPT !.here = FALSE]
    <2>2. l \in Logins /\ login' = [login EXCEPT ![w] = l] /\ l.handler = login[w].handler
      BY <1>0, <1>12 DEF Logins, BrowserLeaves
    <2> HIDE DEF l
    <2> QED BY <1>9, <2>1, <2>2
  <1>13. CASE LoginReturns(w)
    <2>1. Still /\ login' = login /\ wizard[w].at = "logging" /\ Closed(w)
      BY <1>13, QuietIsStill DEF LoginReturns, At
    <2>2. CASE Go(w, "refused") \/ Go(w, "undoing")  BY <1>1, <2>1, <2>2
    <2>3. CASE vault[Chatgpt] # 0 /\ wizard' = [wizard EXCEPT ![w].at = "choosing", ![w].draft = Enabling(@, Chatgpt),
                                                              ![w].staged = @ \cup {Chatgpt}]
      <3> DEFINE draft == Enabling(wizard[w].draft, Chatgpt)
                 staged == wizard[w].staged \cup {Chatgpt}
                 r == [wizard[w] EXCEPT !.at = "choosing", !.draft = draft, !.staged = staged]
      <3>1. draft \subseteq Providers /\ staged \subseteq Providers  BY <1>0 DEF WizardRecords, Enabling
      <3>2. wizard' = [wizard EXCEPT ![w] = r]  BY <1>0, <2>3 DEF WizardRecords
      <3>3. \A q \in staged : q \in wizard[w].staged \/ vault[q] # 0  BY <2>3
      <3> HIDE DEF draft, staged
      <3>4. r \in WizardRecords /\ r.at = "choosing" /\ r.undone = wizard[w].undone /\ r.staged = staged
        BY <1>0, <3>1 DEF WizardRecords, WizardPlaces
      <3> HIDE DEF r
      <3> QED BY <2>1, <3>2, <3>3, <3>4, WizardBrowses
    <2> QED BY <1>13, <2>2, <2>3 DEF LoginReturns, Go
  <1> QED BY <1>2, <1>3, <1>4, <1>5, <1>6, <1>7, <1>8, <1>10, <1>11, <1>12, <1>13

\* The handler of a callback, wherever its wizard is.
Handles(w) ==
  /\ wizard' = wizard /\ update' = update /\ config' = config /\ record' = record /\ dead' = dead
  /\ vault' = vault /\ by' = by /\ told'[w] = told[w]
  /\ login'[w].here = login[w].here /\ login'[w].handler \in {"storing", "over"}
  /\ login[w].handler \in {"exchanging", "storing"}
  /\ login'[w].handler # "storing" => told'[Login(w)] = "none"
  /\ \A q \in Providers, c \in Nat :
       /\ Awaits(w, q, c)' <=> Awaits(w, q, c)
       /\ Awaits(Login(w), q, c)' => Awaits(Login(w), q, c) \/ (q = Chatgpt /\ c # 0)

LEMMA HandlingFits ==
  ASSUME SetupInv, NEW w \in Wizards, Handles(w)
  PROVE  NamesFit' /\ Rests(w)' /\ WizardFits(w)'
  <1>1. WizardFits(w) /\ Rests(w)  BY DEF SetupInv, WaitsFit
  <1>2. NamesFit'  BY NamesKept DEF SetupInv, Handles
  <1>3. Rests(w)'  BY <1>1 DEF Rests, Handles
  <1>4. PendingFits(w)'  BY <1>1 DEF WizardFits, PendingFits, Handles
  <1>5. HandlerFits(w)'  BY <1>1 DEF WizardFits, HandlerFits, Handles
  <1>6. UpdateFits(w)' /\ ConfigFits(w)'
    BY <1>1 DEF WizardFits, UpdateFits, ConfigFits, Saved, Stands, Handles
  <1>7. StagedFits(w)'
    BY <1>1 DEF WizardFits, StagedFits, Stands, Stores, Removes, Backed, Handles
  <1>8. \A q \in Providers : Traceless(w, q)' <=> Traceless(w, q)  BY DEF Traceless, Handles
  <1>9. /\ wizard' = wizard /\ told'[w] = told[w] /\ dead' = dead
        /\ \A q \in Providers, c \in Nat : Awaits(w, q, c)' <=> Awaits(w, q, c)
    BY DEF Handles
  <1>10. TraceFits(w)'  BY <1>1, <1>8, <1>9 DEF WizardFits, TraceFits, At, Alive
  <1> QED BY <1>2, <1>3, <1>4, <1>5, <1>6, <1>7, <1>10 DEF WizardFits

LEMMA HandlerActions ==
  ASSUME SetupInv, NEW w \in Wizards, Exchange(w) \/ LoginStored(w)
  PROVE  OwnStep(w) /\ Handles(w)
  <1>0. /\ wizard \in [Wizards -> WizardRecords] /\ login \in [Wizards -> Logins] /\ login[w] \in Logins
        /\ config \in Configs /\ issued \in Nat /\ told \in [Writers -> Answers] /\ VaultInv
        /\ Chatgpt \in Providers /\ Rests(w)
    BY CallsAssumption DEF SetupInv, SetupTypes, VaultInv, VaultType, WaitsFit
  <1>1. w \in Writers /\ Login(w) \in Writers /\ w # Login(w) /\ Login(w) \in Own(w)
    BY OwnFacts DEF Own
  <1>2. UNCHANGED <<scenario, dead, call, refresh, record, update, config, wizard, vault, by>>
    BY DEF Exchange, LoginStored, Works, processVars, callVars, recordVars, Enqueue, vaultVars
  <1>3. CASE LoginStored(w)
    <2> DEFINE settled == IF login[w].settled # "no" THEN login[w].settled
                          ELSE IF told[Login(w)] = "stored" THEN "ok" ELSE "error"
               l == [login[w] EXCEPT !.handler = "over", !.settled = settled]
    <2>1. settled \in {"no", "ok", "error"}  BY <1>0 DEF Logins
    <2>2. login' = [login EXCEPT ![w] = l]  BY <1>0, <1>3 DEF LoginStored, Logins
    <2> HIDE DEF settled
    <2>3. l \in Logins /\ l.handler = "over" /\ l.here = login[w].here  BY <1>0, <2>1 DEF Logins
    <2> HIDE DEF l
    <2>4. /\ login' \in [Wizards -> Logins] /\ login'[w] = l
          /\ \A v \in Wizards : v # w => login'[v] = login[v]
      BY <2>2, <2>3, LoginTurns
    <2>5. Hears(Login(w)) /\ issued' = issued /\ login[w].handler = "storing"
      BY <1>3 DEF LoginStored, Hears
    <2>6. told'[w] = told[w] /\ told'[Login(w)] = "none" /\ chain' = chain
      BY <1>0, <1>1, <2>5 DEF Hears
    <2>7. OwnStep(w)  BY <1>0, <1>1, <1>2, <2>4, <2>5 DEF OwnStep
    <2>8. Handles(w)  BY <1>2, <2>3, <2>4, <2>5, <2>6 DEF Handles, Awaits
    <2> QED BY <2>7, <2>8
  <1>4. CASE Exchange(w) /\ UNCHANGED vaultVars
             /\ login' = [login EXCEPT ![w].handler = "over",
                                       ![w].settled = IF @ = "no" THEN "error" ELSE @]
    <2> DEFINE settled == IF login[w].settled = "no" THEN "error" ELSE login[w].settled
               l == [login[w] EXCEPT !.handler = "over", !.settled = settled]
    <2>1. settled \in {"no", "ok", "error"}  BY <1>0 DEF Logins
    <2>2. login' = [login EXCEPT ![w] = l]  BY <1>0, <1>4 DEF Logins
    <2> HIDE DEF settled
    <2>3. l \in Logins /\ l.handler = "over" /\ l.here = login[w].here  BY <1>0, <2>1 DEF Logins
    <2> HIDE DEF l
    <2>4. /\ login' \in [Wizards -> Logins] /\ login'[w] = l
          /\ \A v \in Wizards : v # w => login'[v] = login[v]
      BY <2>2, <2>3, LoginTurns
    <2>5. login[w].handler = "exchanging"  BY <1>4 DEF Exchange
    <2>6. told[Login(w)] = "none"  BY <1>0, <2>5 DEF Rests
    <2>7. Resting /\ issued' = issued  BY <1>4 DEF vaultVars, Resting
    <2>8. OwnStep(w)  BY <1>0, <1>2, <2>4, <2>7 DEF OwnStep
    <2>9. Handles(w)  BY <1>2, <2>3, <2>4, <2>5, <2>6, <2>7 DEF Handles, Awaits, Resting
    <2> QED BY <2>8, <2>9
  <1>5. CASE /\ Exchange(w) /\ issued' = issued + 1 /\ Enqueue(Login(w), Chatgpt, issued + 1)
             /\ login' = [login EXCEPT ![w].handler = "storing"]
    <2> DEFINE l == [login[w] EXCEPT !.handler = "storing"]
    <2>1. login' = [login EXCEPT ![w] = l]  BY <1>0, <1>5 DEF Logins
    <2>2. l \in Logins /\ l.handler = "storing" /\ l.here = login[w].here  BY <1>0 DEF Logins
    <2> HIDE DEF l
    <2>3. /\ login' \in [Wizards -> Logins] /\ login'[w] = l
          /\ \A v \in Wizards : v # w => login'[v] = login[v]
      BY <2>1, <2>2, LoginTurns
    <2>4. login[w].handler = "exchanging"  BY <1>5 DEF Exchange
    <2>5. Enqueues(Login(w), Chatgpt, issued + 1)  BY <1>0, <1>5, <2>4 DEF Rests, Enqueues
    <2>6. issued + 1 \in Nat /\ issued + 1 # 0 /\ issued' \in Nat  BY <1>0, <1>5
    <2>7. \A b \in Writers, x \in Providers, d \in Nat :
            Awaits(b, x, d)' <=> (Awaits(b, x, d) \/ (b = Login(w) /\ x = Chatgpt /\ d = issued + 1))
      BY <1>0, <1>1, <2>5, <2>6, EnqueueKeeps
    <2>8. told'[w] = told[w]  BY <1>0, <1>1, <2>5 DEF Enqueues, Enqueue
    <2>9. OwnStep(w)  BY <1>0, <1>1, <1>2, <2>3, <2>5, <2>6 DEF OwnStep
    <2>10. Handles(w)  BY <1>1, <1>2, <2>2, <2>3, <2>4, <2>6, <2>7, <2>8 DEF Handles
    <2> QED BY <2>9, <2>10
  <1> QED BY <1>3, <1>4, <1>5 DEF Exchange

\* Before the configuration is saved nothing but the staged credentials matters.
LEMMA EarlyFits ==
  ASSUME SetupInv, NEW w \in Wizards, OwnStep(w), UNCHANGED <<record, update, config, login>>,
         wizard[w].at \in {"choosing", "refused", "storing"},
         wizard'[w].at \in {"choosing", "storing", "undoing"},
         wizard'[w].undone = wizard[w].undone
  PROVE  NamesFit' /\ HandlerFits(w)' /\ UpdateFits(w)' /\ ConfigFits(w)' /\ TraceFits(w)' /\ Stands(w)
  <1>1. WizardFits(w)  BY DEF SetupInv
  <1>2. \A v \in Wizards : wizard[v].at \in Late => wizard'[v].at \in Late
    BY DEF OwnStep, Late, Undoing
  <1>3. NamesFit'  BY <1>2, NamesKept DEF SetupInv
  <1>4. HandlerFits(w)'  BY <1>1 DEF WizardFits, HandlerFits
  <1>5. update[w].at = "none"  BY <1>1 DEF WizardFits, UpdateFits, Early
  <1>6. UpdateFits(w)' /\ ConfigFits(w)'  BY <1>5 DEF UpdateFits, ConfigFits, Saved, Early, Undoing
  <1>7. ~wizard[w].undone  BY <1>1 DEF WizardFits, TraceFits
  <1>8. TraceFits(w)'  BY <1>7 DEF TraceFits, At
  <1>9. Stands(w)  BY DEF Stands, Undoing
  <1> QED BY <1>3, <1>4, <1>6, <1>8, <1>9

LEMMA EnterKeyFits ==
  ASSUME SetupInv, NEW w \in Wizards, NEW q \in Providers, EnterKey(w, q)
  PROVE  OwnStep(w) /\ NamesFit' /\ Rests(w)' /\ WizardFits(w)'
  <1>0. /\ wizard \in [Wizards -> WizardRecords] /\ wizard[w] \in WizardRecords
        /\ login \in [Wizards -> Logins] /\ config \in Configs /\ issued \in Nat /\ told \in [Writers -> Answers]
        /\ VaultInv /\ Rests(w) /\ WizardFits(w)
    BY DEF SetupInv, SetupTypes, VaultInv, VaultType, WaitsFit
  <1>1. w \in Writers /\ Login(w) \in Writers /\ w # Login(w) /\ w \in Own(w)  BY OwnFacts DEF Own
  <1>2. PICK cred \in {issued + 1} \cup (IF vault[q] # 0 THEN {0} ELSE {}) :
          /\ wizard' = [wizard EXCEPT ![w].at = "storing", ![w].left = @ \ {ItemOf(q)},
                                      ![w].pending = [provider |-> q, cred |-> cred]]
          /\ issued' = issued + (IF cred = 0 THEN 0 ELSE 1)
          /\ Enqueue(w, q, cred)
    BY DEF EnterKey
  <1>3. cred \in Nat /\ issued' \in Nat  BY <1>0, <1>2
  <1>4. /\ UNCHANGED <<scenario, dead, call, refresh, record, update, config, login>>
        /\ wizard[w].at \in {"choosing", "refused"}
    BY DEF EnterKey, Asks, Works, processVars, callVars, recordVars
  <1> DEFINE left == wizard[w].left \ {ItemOf(q)}
             pending == [provider |-> q, cred |-> cred]
             r == [wizard[w] EXCEPT !.at = "storing", !.left = left, !.pending = pending]
  <1>5. left \subseteq Providers /\ pending \in [provider : Providers, cred : Nat]
    BY <1>0, <1>3 DEF WizardRecords
  <1>6. wizard' = [wizard EXCEPT ![w] = r]  BY <1>0, <1>2 DEF WizardRecords
  <1> HIDE DEF left, pending
  <1>7. /\ r \in WizardRecords /\ r.at = "storing" /\ r.undone = wizard[w].undone
        /\ r.staged = wizard[w].staged /\ r.pending = pending
    BY <1>0, <1>5 DEF WizardRecords, WizardPlaces
  <1> HIDE DEF r
  <1>8. /\ wizard' \in [Wizards -> WizardRecords] /\ wizard'[w] = r
        /\ \A v \in Wizards : v # w => wizard'[v] = wizard[v]
    BY <1>6, <1>7, WizardTurns
  <1>9. told[w] = "none"  BY <1>0, <1>4 DEF Rests
  <1>10. Enqueues(w, q, cred)  BY <1>2, <1>9 DEF Enqueues
  <1>11. OwnStep(w)  BY <1>0, <1>1, <1>3, <1>4, <1>8, <1>10 DEF OwnStep
  <1>12. NamesFit' /\ HandlerFits(w)' /\ UpdateFits(w)' /\ ConfigFits(w)' /\ TraceFits(w)' /\ Stands(w)
    BY <1>4, <1>7, <1>8, <1>11, EarlyFits
  <1>13. \A b \in Writers, x \in Providers, d \in Nat :
           Awaits(b, x, d)' <=> (Awaits(b, x, d) \/ (b = w /\ x = q /\ d = cred))
    BY <1>0, <1>1, <1>3, <1>10, EnqueueKeeps
  <1>14. told'[w] = "waiting" /\ told'[Login(w)] = told[Login(w)] /\ vault' = vault /\ by' = by
    BY <1>0, <1>1, <1>10 DEF Enqueues, Enqueue
  <1>15. Rests(w)'  BY <1>0, <1>4, <1>7, <1>8, <1>14 DEF Rests
  <1>16. PendingFits(w)'
    <2>1. \A x \in Providers, d \in Nat : ~Awaits(w, x, d)  BY <1>0, <1>1, <1>9, AwaitingWaits
    <2>2. \A x \in Providers, d \in Nat : Awaits(w, x, d)' => x = q /\ d = cred  BY <1>1, <1>13, <2>1
    <2>3. \A x \in Providers, d \in Nat : Awaits(Login(w), x, d)' => Awaits(Login(w), x, d)  BY <1>1, <1>13
    <2>4. wizard'[w].at = "storing" /\ wizard'[w].pending = [provider |-> q, cred |-> cred]
      BY <1>7, <1>8 DEF pending
    <2> QED BY <1>0, <2>2, <2>3, <2>4 DEF WizardFits, PendingFits
  <1>17. StagedFits(w)'
    <2>1. \A x \in wizard[w].staged : Backed(w, x)
      BY <1>0, <1>4, <1>12 DEF WizardFits, StagedFits, Removes
    <2> QED BY <1>7, <1>8, <1>14, <2>1 DEF StagedFits, Backed
  <1> QED BY <1>11, <1>12, <1>15, <1>16, <1>17 DEF WizardFits

LEMMA KeyAnswerFits ==
  ASSUME SetupInv, NEW w \in Wizards, KeyStored(w) \/ KeyNotStored(w)
  PROVE  OwnStep(w) /\ NamesFit' /\ Rests(w)' /\ WizardFits(w)'
  <1>0. /\ wizard \in [Wizards -> WizardRecords] /\ wizard[w] \in WizardRecords
        /\ login \in [Wizards -> Logins] /\ config \in Configs /\ told \in [Writers -> Answers]
        /\ VaultInv /\ Rests(w) /\ WizardFits(w)
    BY DEF SetupInv, SetupTypes, VaultInv, VaultType, WaitsFit
  <1>1. w \in Writers /\ Login(w) \in Writers /\ w # Login(w) /\ w \in Own(w)  BY OwnFacts DEF Own
  <1>2. /\ UNCHANGED <<scenario, dead, vault, issued, by, chain, call, refresh, record, update, config, login>>
        /\ wizard[w].at = "storing"
    BY DEF KeyStored, KeyNotStored, At, Works, processVars, callVars, recordVars
  <1>3. told[w] \in {"stored", "failed"} /\ told' = [told EXCEPT ![w] = "none"]
    BY DEF KeyStored, KeyNotStored, Answered
  <1>4. Hears(w) /\ told'[w] = "none" /\ told'[Login(w)] = told[Login(w)]
    BY <1>0, <1>1, <1>2, <1>3 DEF Hears
  <1>6. \A x \in Providers, d \in Nat : ~Awaits(w, x, d)  BY <1>0, <1>1, <1>3, AwaitingWaits
  <1> DEFINE q == wizard[w].pending.provider
             cred == wizard[w].pending.cred
  <1>7. PICK r \in WizardRecords :
          /\ wizard' = [wizard EXCEPT ![w] = r] /\ r.undone = wizard[w].undone
          /\ \/ r.at = "undoing"
             \/ r.at = "choosing" /\ told[w] = "stored"
                /\ r.staged = IF cred = 0 THEN wizard[w].staged \ {q} ELSE wizard[w].staged \cup {q}
    <2>1. CASE KeyNotStored(w)
      <3> DEFINE r == [wizard[w] EXCEPT !.at = "undoing"]
      <3>1. r \in WizardRecords /\ r.at = "undoing" /\ r.undone = wizard[w].undone
        BY <1>0 DEF WizardRecords, WizardPlaces
      <3>2. wizard' = [wizard EXCEPT ![w] = r]  BY <1>0, <2>1 DEF KeyNotStored, Go, WizardRecords
      <3> HIDE DEF r
      <3> QED BY <3>1, <3>2
    <2>2. CASE KeyStored(w)
      <3> DEFINE draft == IF cred = 0 THEN wizard[w].draft ELSE Enabling(wizard[w].draft, q)
                 staged == IF cred = 0 THEN wizard[w].staged \ {q} ELSE wizard[w].staged \cup {q}
                 r == [wizard[w] EXCEPT !.at = "choosing", !.draft = draft, !.staged = staged]
      <3>1. draft \subseteq Providers /\ staged \subseteq Providers  BY <1>0 DEF WizardRecords, Enabling
      <3>2. wizard' = [wizard EXCEPT ![w] = r]  BY <1>0, <2>2 DEF KeyStored, WizardRecords
      <3>3. told[w] = "stored"  BY <2>2 DEF KeyStored, Answered
      <3> HIDE DEF draft, staged
      <3>4. r \in WizardRecords /\ r.at = "choosing" /\ r.undone = wizard[w].undone /\ r.staged = staged
        BY <1>0, <3>1 DEF WizardRecords, WizardPlaces
      <3> HIDE DEF r
      <3> QED BY <3>2, <3>3, <3>4 DEF staged
    <2> QED BY <2>1, <2>2
  <1>8. /\ wizard' \in [Wizards -> WizardRecords] /\ wizard'[w] = r
        /\ \A v \in Wizards : v # w => wizard'[v] = wizard[v]
    BY <1>7, WizardTurns
  <1>9. OwnStep(w)  BY <1>0, <1>1, <1>2, <1>4, <1>8 DEF OwnStep
  <1>10. NamesFit' /\ HandlerFits(w)' /\ UpdateFits(w)' /\ ConfigFits(w)' /\ TraceFits(w)' /\ Stands(w)
    <2>1. wizard'[w].at \in {"choosing", "undoing"} /\ wizard'[w].undone = wizard[w].undone  BY <1>7, <1>8
    <2> QED BY <1>2, <1>9, <2>1, EarlyFits
  <1>11. Rests(w)'  BY <1>0, <1>2, <1>4 DEF Rests
  <1>12. PendingFits(w)'
    <2>1. \A b \in Writers, x \in Providers, d \in Nat : Awaits(b, x, d)' <=> Awaits(b, x, d)
      BY <1>2 DEF Awaits
    <2> QED BY <1>0, <1>1, <1>6, <2>1 DEF WizardFits, PendingFits
  <1>13. StagedFits(w)'
    <2>1. ~Stores(w)'  BY <1>7, <1>8 DEF Stores
    <2>2. CASE r.at = "undoing"  BY <1>8, <2>1, <2>2 DEF StagedFits, Stands, Undoing
    <2>3. CASE r.at = "choosing" /\ told[w] = "stored"
                /\ r.staged = IF cred = 0 THEN wizard[w].staged \ {q} ELSE wizard[w].staged \cup {q}
      <3>1. \A x \in wizard[w].staged : Backed(w, x) \/ (x = q /\ cred = 0)
        <4>1. StagedFits(w) /\ Stands(w)  BY <1>0, <1>10 DEF WizardFits
        <4>2. \A x : Removes(w, x) => x = q /\ cred = 0  BY DEF Removes
        <4> QED BY <4>1, <4>2 DEF StagedFits
      <3>2. cred # 0 => Backed(w, q)  BY <1>0, <1>2, <2>3 DEF WizardFits, StagedFits, Stores
      <3>3. \A x \in r.staged : Backed(w, x)  BY <2>3, <3>1, <3>2
      <3> QED BY <1>2, <1>8, <2>1, <3>3 DEF StagedFits, Backed
    <2> QED BY <1>7, <2>2, <2>3
  <1> QED BY <1>9, <1>10, <1>11, <1>12, <1>13 DEF WizardFits

-----------------------------------------------------------------------------
(* Completing setup *)

Completing == {"choosing", "catalogs", "recording", "offering", "merging"}

\* A wizard that goes on to complete setup, or gives up.
Completes(w, place) ==
  /\ wizard[w].at \in Completing /\ place \in {"catalogs", "recording", "offering", "merging", "undoing", "ended"}
  /\ Go(w, place) /\ login' = login /\ Resting /\ issued' = issued
  /\ UNCHANGED <<scenario, dead, call, refresh, record>>
  /\ config' \in Configs /\ (config' = config \/ config'.by = w)
  /\ \A v \in Wizards : v # w => update'[v] = update[v]

LEMMA CompletesFacts ==
  ASSUME SetupInv, NEW w \in Wizards, NEW place, Completes(w, place)
  PROVE  /\ OwnStep(w) /\ Rests(w)' /\ wizard[w] \in WizardRecords
         /\ wizard'[w] = [wizard[w] EXCEPT !.at = place] /\ wizard'[w].at = place
         /\ wizard'[w].draft = wizard[w].draft
         /\ UpdateFits(w)' /\ ConfigFits(w)' => WizardFits(w)'
  <1>0. /\ wizard \in [Wizards -> WizardRecords] /\ wizard[w] \in WizardRecords
        /\ login \in [Wizards -> Logins] /\ VaultInv /\ Rests(w) /\ WizardFits(w)
    BY DEF SetupInv, SetupTypes, WaitsFit
  <1>1. w \in Writers /\ Login(w) \in Writers /\ w \in Own(w)  BY OwnFacts DEF Own
  <1>2. told' = told /\ vault' = vault /\ by' = by /\ chain' = chain /\ login' = login /\ dead' = dead
    BY DEF Completes, Resting
  <1> DEFINE r == [wizard[w] EXCEPT !.at = place]
  <1>3. /\ r \in WizardRecords /\ r.at = place /\ r.undone = wizard[w].undone /\ r.staged = wizard[w].staged
        /\ r.draft = wizard[w].draft /\ r.pending = wizard[w].pending /\ r.snapshot = wizard[w].snapshot
    BY <1>0 DEF WizardRecords, WizardPlaces, Completes
  <1>4. wizard' = [wizard EXCEPT ![w] = r]  BY <1>0 DEF Completes, Go, WizardRecords
  <1>5. wizard'[w] = [wizard[w] EXCEPT !.at = place]  BY <1>0, <1>4
  <1> HIDE DEF r
  <1>6. /\ wizard' \in [Wizards -> WizardRecords] /\ wizard'[w] = r
        /\ \A v \in Wizards : v # w => wizard'[v] = wizard[v]
    BY <1>3, <1>4, WizardTurns
  <1>7. OwnStep(w)  BY <1>0, <1>6 DEF OwnStep, Completes
  <1>8. wizard[w].at \notin {"storing", "restoring", "logging", "ended"} /\ place \notin {"storing", "restoring", "logging"}
    BY DEF Completes, Completing
  <1>9. told[w] = "none"  BY <1>0, <1>8 DEF Rests
  <1>10. Rests(w)'  BY <1>0, <1>2, <1>9 DEF Rests
  <1>11. PendingFits(w)'
    <2>1. \A b \in Writers, x \in Providers, d \in Nat : Awaits(b, x, d)' <=> Awaits(b, x, d)
      BY <1>2 DEF Awaits
    <2>2. \A x \in Providers, d \in Nat : ~Awaits(w, x, d)  BY <1>0, <1>1, <1>9, AwaitingWaits
    <2> QED BY <1>0, <1>1, <2>1, <2>2 DEF WizardFits, PendingFits
  <1>12. HandlerFits(w)'  BY <1>0, <1>2, <1>8 DEF WizardFits, HandlerFits
  <1>13. StagedFits(w)'
    <2>1. ~Stores(w)'  BY <1>3, <1>6, <1>8 DEF Stores
    <2>2. Stands(w)  BY <1>8 DEF Stands, Completes, Completing, Undoing
    <2>3. \A x \in wizard[w].staged : Backed(w, x)
      BY <1>0, <1>8, <2>2 DEF WizardFits, StagedFits, Removes
    <2> QED BY <1>2, <1>3, <1>6, <2>1, <2>3 DEF StagedFits, Backed
  <1>14. TraceFits(w)'
    <2>1. ~wizard[w].undone  BY <1>0, <1>8 DEF WizardFits, TraceFits
    <2> QED BY <1>3, <1>6, <1>8, <2>1 DEF TraceFits, At
  <1> QED BY <1>0, <1>3, <1>5, <1>6, <1>7, <1>10, <1>11, <1>12, <1>13, <1>14 DEF WizardFits

\* An update that a wizard starts names nobody new.
LEMMA StartNames ==
  ASSUME SetupInv, NEW w \in Wizards, OwnStep(w), NEW kind, StartUpdate(w, kind, NoOne),
         wizard[w].at \in Completing, wizard'[w].at \in Late
  PROVE  NamesFit'
  <1>1. update \in [Updaters -> Updates] /\ w \in Updaters  BY OwnFacts DEF SetupInv, IInv, RecordType
  <1>2. /\ update'[w].source = Missing /\ update'[w].content = Missing
        /\ \A a \in Updaters : a # w => update'[a] = update[a]
    BY <1>1 DEF StartUpdate, NoUpdate
  <1> DEFINE reached == {NoOne} \cup {x \in Wizards : wizard'[x].at \in Late}
  <1>3. \A x : Named(x) => x \in reached  BY DEF Named, OwnStep
  <1>4. w \in reached /\ NoOne \in reached /\ Missing.core = NoOne  BY DEF Missing
  <1>5. NamesFit /\ record' = record  BY DEF SetupInv, OwnStep
  <1> HIDE DEF reached
  <1>6. ASSUME NEW a \in Updaters
        PROVE  /\ update'[a].kind = "core" => a \in reached
               /\ update'[a].source.core \in reached /\ update'[a].content.core \in reached
    <2>1. CASE a = w  BY <1>2, <1>4, <2>1
    <2>2. CASE a # w  BY <1>2, <1>3, <1>5, <2>2 DEF NamesFit
    <2> QED BY <2>1, <2>2
  <1>7. record'.core \in reached  BY <1>3, <1>5 DEF NamesFit
  <1> QED BY <1>6, <1>7 DEF NamesFit, Named, reached

LEMMA CompletingFits ==
  ASSUME SetupInv, NEW w \in Wizards, IInv',
         \/ SaveConfig(w) /\ Go(w, "catalogs") /\ config'.enabled = wizard[w].draft /\ config'.by = w
         \/ SaveCatalogs(w) \/ Recorded(w) \/ NotRecorded(w) \/ OfferBlender(w) \/ Merged(w)
  PROVE  OwnStep(w) /\ NamesFit' /\ Rests(w)' /\ WizardFits(w)'
  <1>0. /\ update \in [Updaters -> Updates] /\ w \in Updaters /\ w # NoOne
        /\ WizardFits(w) /\ UpdateFits(w) /\ ConfigFits(w) /\ NamesFit /\ config \in Configs
        /\ wizard[w] \in WizardRecords
    BY OwnFacts DEF SetupInv, SetupTypes, IInv, RecordType, WizardFits
  <1> DEFINE Goal == OwnStep(w) /\ NamesFit' /\ Rests(w)' /\ WizardFits(w)'
  \* The update is as it was.
  <1>1. ASSUME NEW place, Completes(w, place), update' = update, UpdateFits(w)', ConfigFits(w)',
               wizard[w].at \in {"choosing", "catalogs"} \/ place \in Late
        PROVE  Goal
    <2>1. /\ OwnStep(w) /\ Rests(w)' /\ WizardFits(w)' /\ wizard'[w].at = place
      BY <1>1, CompletesFacts
    <2>2. \A v \in Wizards : wizard[v].at \in Late => wizard'[v].at \in Late
      BY <1>1, <2>1 DEF OwnStep, Late, Undoing
    <2>3. NamesFit'  BY <1>0, <1>1, <2>2, NamesKept DEF Completes
    <2> QED BY <2>1, <2>3
  \* It starts.
  <1>2. ASSUME NEW kind, StartUpdate(w, kind, NoOne), NEW place \in {"recording", "merging"}, Completes(w, place),
               Saved(w), config' = config
        PROVE  Goal
    <2>1. /\ OwnStep(w) /\ Rests(w)' /\ (UpdateFits(w)' /\ ConfigFits(w)' => WizardFits(w)')
          /\ wizard'[w].at = place /\ wizard'[w].draft = wizard[w].draft
      BY <1>2, CompletesFacts
    <2>2. NamesFit'
      <3>1. wizard[w].at \in Completing /\ wizard'[w].at \in Late  BY <1>2, <2>1 DEF Completes, Late
      <3> QED BY <1>2, <2>1, <3>1, StartNames
    <2>3. UpdateFits(w)'  BY <2>1 DEF UpdateFits, Early, Undoing
    <2>4. ConfigFits(w)'  BY <1>0, <1>2, <2>1 DEF ConfigFits
    <2> QED BY <2>1, <2>2, <2>3, <2>4
  <1>3. CASE SaveConfig(w) /\ Go(w, "catalogs") /\ config'.enabled = wizard[w].draft /\ config'.by = w
    <2>1. /\ wizard[w].at = "choosing" /\ login' = login /\ Resting /\ issued' = issued /\ update' = update
          /\ UNCHANGED <<scenario, dead, call, refresh, record>>
      BY <1>3 DEF SaveConfig, At, Works, Fails, processVars, vaultVars, callVars, recordVars, Resting
    <2>2. config' \in Configs
      <3>1. CASE config' = config  BY <1>0, <3>1
      <3>2. CASE \E q \in (IF wizard[w].draft = {} THEN {NoOne} ELSE wizard[w].draft) :
                   config' = [enabled |-> wizard[w].draft, default |-> q, by |-> w]
        <4>1. wizard[w].draft \subseteq Providers  BY <1>0 DEF WizardRecords
        <4>2. PICK q \in (IF wizard[w].draft = {} THEN {NoOne} ELSE wizard[w].draft) :
                   config' = [enabled |-> wizard[w].draft, default |-> q, by |-> w]
          BY <3>2
        <4>3. q \in Providers \cup {NoOne}  BY <4>1, <4>2
        <4> QED BY <4>1, <4>2, <4>3 DEF Configs
      <3> QED BY <1>3, <3>1, <3>2 DEF SaveConfig
    <2>3. Completes(w, "catalogs")  BY <1>3, <2>1, <2>2 DEF Completes, Completing
    <2>4. wizard'[w].at = "catalogs" /\ wizard'[w].draft = wizard[w].draft  BY <2>3, CompletesFacts
    <2>5. UpdateFits(w)'  BY <1>0, <2>1, <2>4 DEF UpdateFits, Early, Undoing
    <2>6. ConfigFits(w)'  BY <1>0, <1>3, <2>4 DEF ConfigFits
    <2> QED BY <1>1, <2>1, <2>3, <2>5, <2>6
  <1>4. CASE SaveCatalogs(w)
    <2>1. /\ wizard[w].at = "catalogs" /\ login' = login /\ Resting /\ issued' = issued /\ config' = config
          /\ UNCHANGED <<scenario, dead, call, refresh, record>>
      BY <1>4 DEF SaveCatalogs, At, Works, Fails, processVars, vaultVars, callVars, Resting
    <2>2. CASE Go(w, "recording") /\ StartUpdate(w, "core", NoOne)
      <3>1. \A v \in Wizards : v # w => update'[v] = update[v]
        BY <1>0, <2>2, OwnFacts DEF StartUpdate
      <3>2. Completes(w, "recording")  BY <1>0, <2>1, <2>2, <3>1 DEF Completes, Completing
      <3>3. Saved(w)  BY <2>1 DEF Saved, Stands, Undoing
      <3> QED BY <1>2, <2>1, <2>2, <3>2, <3>3
    <2>3. CASE Go(w, "undoing") /\ UNCHANGED update
      <3>1. Completes(w, "undoing")  BY <1>0, <2>1, <2>3 DEF Completes, Completing
      <3>2. wizard'[w].at = "undoing"  BY <3>1, CompletesFacts
      <3>3. UpdateFits(w)' /\ ConfigFits(w)'
        BY <1>0, <2>1, <2>3, <3>2 DEF UpdateFits, ConfigFits, Saved, Stands, Early, Undoing
      <3> QED BY <1>1, <2>1, <2>3, <3>1, <3>3
    <2> QED BY <1>4, <2>2, <2>3 DEF SaveCatalogs
  <1>5. CASE Recorded(w) \/ NotRecorded(w) \/ Merged(w)
    <2>1. /\ wizard[w].at \in {"recording", "merging"} /\ login' = login /\ Resting /\ issued' = issued
          /\ config' = config /\ update' = update
          /\ UNCHANGED <<scenario, dead, call, refresh, record>>
      BY <1>5, QuietIsStill DEF Recorded, NotRecorded, Merged, At, Still, Resting
    <2>2. PICK place \in {"ended", "offering", "undoing"} :
            /\ Go(w, place)
            /\ place = "ended" => update[w].at \in {"done", "unreleased", "failed"}
            /\ place = "offering" => update[w].at = "done"
            /\ place = "undoing" => update[w].at \in {"unreleased", "failed"}
      BY <1>5 DEF Recorded, NotRecorded, Merged
    <2>3. Completes(w, place)  BY <1>0, <2>1, <2>2 DEF Completes, Completing
    <2>4. wizard'[w].at = place /\ wizard'[w].draft = wizard[w].draft  BY <2>3, CompletesFacts
    <2>5. UpdateFits(w)'  BY <2>1, <2>2, <2>4 DEF UpdateFits, Early, Undoing
    <2>6. ConfigFits(w)'
      <3>1. Saved(w)  BY <2>1 DEF Saved, Stands, Undoing
      <3> QED BY <1>0, <2>1, <2>4, <3>1 DEF ConfigFits
    <2> QED BY <1>1, <2>1, <2>2, <2>3, <2>5, <2>6 DEF Late, Undoing
  <1>6. CASE OfferBlender(w)
    <2>1. /\ wizard[w].at = "offering" /\ login' = login /\ Resting /\ issued' = issued /\ config' = config
          /\ UNCHANGED <<scenario, dead, call, refresh, record>>
      BY <1>6 DEF OfferBlender, At, Works, processVars, vaultVars, callVars, Resting
    <2>2. Saved(w) /\ update[w].at = "done"  BY <1>0, <2>1 DEF Saved, Stands, Undoing, UpdateFits
    <2>3. CASE (\E kind \in {"installed", "declined", "unavailable"} : StartUpdate(w, kind, NoOne)) /\ Go(w, "merging")
      <3>1. PICK kind : StartUpdate(w, kind, NoOne)  BY <2>3
      <3>2. \A v \in Wizards : v # w => update'[v] = update[v]
        BY <1>0, <3>1, OwnFacts DEF StartUpdate
      <3>3. Completes(w, "merging")  BY <1>0, <2>1, <2>3, <3>2 DEF Completes, Completing
      <3> QED BY <1>2, <2>1, <2>2, <3>1, <3>3
    <2>4. CASE Go(w, "ended") /\ UNCHANGED update
      <3>1. Completes(w, "ended")  BY <1>0, <2>1, <2>4 DEF Completes, Completing
      <3>2. wizard'[w].at = "ended" /\ wizard'[w].draft = wizard[w].draft  BY <3>1, CompletesFacts
      <3>3. UpdateFits(w)'  BY <2>2, <2>4, <3>2 DEF UpdateFits, Early, Undoing
      <3>4. ConfigFits(w)'  BY <1>0, <2>1, <2>2, <3>2 DEF ConfigFits
      <3> QED BY <1>1, <2>4, <3>1, <3>3, <3>4 DEF Late
    <2> QED BY <1>6, <2>3, <2>4 DEF OfferBlender
  <1> QED BY <1>3, <1>4, <1>5, <1>6

-----------------------------------------------------------------------------
(* Undoing it *)

\* A wizard that gave up names nobody new and has nothing to answer for.
LEMMA UndoingFits ==
  ASSUME SetupInv, NEW w \in Wizards, OwnStep(w), UNCHANGED <<record, update, config, login>>,
         wizard[w].at \in Undoing, wizard'[w].at \in {"restoring", "ended"}
  PROVE  NamesFit' /\ HandlerFits(w)' /\ UpdateFits(w)' /\ ConfigFits(w)' /\ StagedFits(w)'
  <1>1. WizardFits(w)  BY DEF SetupInv
  <1>2. \A v \in Wizards : wizard[v].at \in Late => wizard'[v].at \in Late
    BY DEF OwnStep, Late, Undoing
  <1>3. NamesFit'  BY <1>2, NamesKept DEF SetupInv
  <1>4. HandlerFits(w)'  BY <1>1 DEF WizardFits, HandlerFits, Undoing
  <1>5. update[w].at \in {"none", "unreleased", "failed"}  BY <1>1 DEF WizardFits, UpdateFits
  <1>6. ~Stands(w)'  BY <1>5 DEF Stands, Undoing
  <1>7. UpdateFits(w)'  BY <1>5 DEF UpdateFits, Early, Undoing
  <1>8. ConfigFits(w)' /\ StagedFits(w)'  BY <1>6 DEF ConfigFits, Saved, StagedFits, Stores
  <1> QED BY <1>3, <1>4, <1>7, <1>8

LEMMA UndoReadFits ==
  ASSUME SetupInv, NEW w \in Wizards, UndoRead(w) \/ UndoEnds(w) \/ UndoStored(w)
  PROVE  OwnStep(w) /\ NamesFit' /\ Rests(w)' /\ WizardFits(w)'
  <1>0. /\ wizard \in [Wizards -> WizardRecords] /\ wizard[w] \in WizardRecords
        /\ login \in [Wizards -> Logins] /\ config \in Configs /\ told \in [Writers -> Answers]
        /\ VaultInv /\ Rests(w) /\ WizardFits(w) /\ TraceFits(w)
    BY DEF SetupInv, SetupTypes, VaultInv, VaultType, WaitsFit, WizardFits
  <1>1. w \in Writers /\ Login(w) \in Writers /\ w # Login(w) /\ w \in Own(w)  BY OwnFacts DEF Own
  <1>2. /\ UNCHANGED <<scenario, dead, vault, issued, by, chain, call, refresh, record, update, config, login>>
        /\ Alive(w) /\ wizard[w].at \in Undoing
    BY DEF UndoRead, UndoEnds, UndoStored, At, Undoing, Quiet, Works, Fails, processVars, vaultVars, callVars, recordVars
  <1>3. \A x \in Providers, d \in Nat : Awaits(w, x, d) => told[w] = "waiting"  BY <1>0, <1>1, AwaitingWaits
  <1>4. \A b \in Writers, x \in Providers, d \in Nat : Awaits(b, x, d)' <=> Awaits(b, x, d)
    BY <1>2 DEF Awaits
  <1>5. PICK r \in WizardRecords :
          /\ wizard' = [wizard EXCEPT ![w] = r]
          /\ r.read = wizard[w].read /\ r.snapshot = wizard[w].snapshot
          /\ \/ /\ wizard[w].at = "undoing" /\ told' = told
                /\ r.undone = wizard[w].undone
                /\ r.at = "ended" \/ (r.at = "restoring" /\ r.undo = ToUndo(w))
             \/ /\ wizard[w].at = "restoring" /\ told' = told /\ told[w] = "none" /\ wizard[w].undo = {} /\ r.at = "ended"
             \/ /\ wizard[w].at = "restoring" /\ told[w] = "stored" /\ told' = [told EXCEPT ![w] = "none"]
                /\ r = wizard[w]
             \/ /\ wizard[w].at = "restoring" /\ told[w] = "failed" /\ told' = [told EXCEPT ![w] = "none"]
                /\ r.at = "ended" /\ r.undone = wizard[w].undone
    <2>1. CASE Go(w, "ended") /\ (UndoRead(w) \/ (UndoStored(w) /\ Answered(w, "failed")))
      <3> DEFINE r == [wizard[w] EXCEPT !.at = "ended"]
      <3>1. /\ r \in WizardRecords /\ r.at = "ended" /\ r.undone = wizard[w].undone
            /\ r.read = wizard[w].read /\ r.snapshot = wizard[w].snapshot
        BY <1>0 DEF WizardRecords, WizardPlaces
      <3>2. wizard' = [wizard EXCEPT ![w] = r]  BY <1>0, <2>1 DEF Go, WizardRecords
      <3>3. \/ wizard[w].at = "undoing" /\ told' = told
            \/ wizard[w].at = "restoring" /\ told[w] = "failed" /\ told' = [told EXCEPT ![w] = "none"]
        BY <2>1 DEF UndoRead, UndoStored, At, vaultVars, Answered
      <3> HIDE DEF r
      <3> QED BY <3>1, <3>2, <3>3
    <2>2. CASE UndoRead(w) /\ wizard' = [wizard EXCEPT ![w].at = "restoring", ![w].undo = ToUndo(w)]
      <3> DEFINE undo == ToUndo(w)
                 r == [wizard[w] EXCEPT !.at = "restoring", !.undo = undo]
      <3>1. undo \subseteq Providers  BY DEF ToUndo
      <3> HIDE DEF undo
      <3>2. /\ r \in WizardRecords /\ r.at = "restoring" /\ r.undone = wizard[w].undone /\ r.undo = undo
            /\ r.read = wizard[w].read /\ r.snapshot = wizard[w].snapshot
        BY <1>0, <3>1 DEF WizardRecords, WizardPlaces
      <3>3. wizard' = [wizard EXCEPT ![w] = r]  BY <1>0, <2>2 DEF undo, WizardRecords
      <3>4. wizard[w].at = "undoing" /\ told' = told  BY <2>2 DEF UndoRead, At, vaultVars
      <3> HIDE DEF r
      <3> QED BY <3>2, <3>3, <3>4 DEF undo
    <2>3. CASE UndoEnds(w)
      <3> DEFINE r == [wizard[w] EXCEPT !.at = "ended", !.undone = TRUE]
      <3>1. r \in WizardRecords /\ r.at = "ended" /\ r.read = wizard[w].read /\ r.snapshot = wizard[w].snapshot
        BY <1>0 DEF WizardRecords, WizardPlaces
      <3>2. wizard' = [wizard EXCEPT ![w] = r]  BY <1>0, <2>3 DEF UndoEnds, WizardRecords
      <3>3. wizard[w].at = "restoring" /\ told' = told /\ told[w] = "none" /\ wizard[w].undo = {}
        BY <2>3, QuietIsStill DEF UndoEnds, At, Still
      <3> HIDE DEF r
      <3> QED BY <3>1, <3>2, <3>3
    <2>4. CASE UndoStored(w) /\ Answered(w, "stored") /\ UNCHANGED wizard
      <3> DEFINE r == wizard[w]
      <3>1. wizard' = [wizard EXCEPT ![w] = r]  BY <1>0, <2>4
      <3>2. wizard[w].at = "restoring" /\ told[w] = "stored" /\ told' = [told EXCEPT ![w] = "none"]
        BY <2>4 DEF UndoStored, At, Answered
      <3> QED BY <1>0, <3>1, <3>2
    <2>5. CASE UndoRead(w)  BY <2>1, <2>2, <2>5 DEF UndoRead
    <2>6. CASE UndoStored(w)  BY <2>1, <2>4, <2>6 DEF UndoStored
    <2> QED BY <2>3, <2>5, <2>6
  <1>6. /\ wizard' \in [Wizards -> WizardRecords] /\ wizard'[w] = r
        /\ \A v \in Wizards : v # w => wizard'[v] = wizard[v]
    BY <1>5, WizardTurns
  <1>7. Resting \/ Hears(w)  BY <1>2, <1>5 DEF Resting, Hears
  <1>8. OwnStep(w)  BY <1>0, <1>1, <1>2, <1>6, <1>7 DEF OwnStep
  <1>9. wizard'[w].at \in {"restoring", "ended"}  BY <1>5, <1>6
  <1>10. NamesFit' /\ HandlerFits(w)' /\ UpdateFits(w)' /\ ConfigFits(w)' /\ StagedFits(w)'
    BY <1>2, <1>8, <1>9, UndoingFits
  <1>11. told'[Login(w)] = told[Login(w)] /\ (told'[w] = told[w] \/ told'[w] = "none")  BY <1>0, <1>1, <1>5
  <1>12. Rests(w)'
    <2>1. wizard'[w].at = "ended" => told'[w] = "none"
      <3>1. wizard[w].at = "undoing" => told[w] = "none"  BY <1>0 DEF Rests
      <3> QED BY <1>0, <1>1, <1>5, <1>6, <3>1
    <2> QED BY <1>0, <1>2, <1>9, <1>11, <2>1 DEF Rests
  <1>13. PendingFits(w)'
    <2>1. \A x \in Providers, d \in Nat : Awaits(w, x, d) => told[w] = "waiting" /\ r = wizard[w]
      <3>1. wizard[w].at = "undoing" => told[w] = "none"  BY <1>0 DEF Rests
      <3> QED BY <1>3, <1>5, <3>1
    <2> QED BY <1>0, <1>1, <1>4, <1>6, <2>1 DEF WizardFits, PendingFits
  <1>14. \A x \in Providers : Traceless(w, x)' <=> Traceless(w, x)
    BY <1>2, <1>5, <1>6 DEF Traceless
  <1>15. TraceFits(w)'
    <2>1. CASE wizard[w].at = "undoing"
      <3>1. ~r.undone  BY <1>0, <1>5, <2>1 DEF TraceFits
      <3>2. ASSUME r.at = "restoring", NEW x \in Providers PROVE Traceless(w, x) \/ x \in r.undo
        <4>1. r.undo = ToUndo(w)  BY <1>5, <2>1, <3>2
        <4>2. x \notin ToUndo(w) => vault[x] = wizard[w].snapshot[x]  BY DEF ToUndo
        <4> QED BY <4>1, <4>2 DEF Traceless
      <3>3. At(w, "restoring")' => r.at = "restoring"  BY <1>6 DEF At
      <3> QED BY <1>6, <1>14, <3>1, <3>2, <3>3 DEF TraceFits
    <2>2. CASE wizard[w].at = "restoring" /\ told[w] = "none" /\ wizard[w].undo = {} /\ r.at = "ended"
      <3>1. At(w, "restoring")  BY <1>2, <2>2 DEF At
      <3>2. wizard[w].read => \A x \in Providers : Traceless(w, x)
        BY <1>0, <1>3, <2>2, <3>1 DEF TraceFits
      <3>3. ~At(w, "restoring")'  BY <1>6, <2>2 DEF At
      <3> QED BY <1>5, <1>6, <1>14, <2>2, <3>2, <3>3 DEF TraceFits
    <2>3. CASE wizard[w].at = "restoring" /\ told[w] = "stored" /\ r = wizard[w]
      <3>1. At(w, "restoring")  BY <1>2, <2>3 DEF At
      <3>2. wizard[w].read => \A x \in Providers : Traceless(w, x) \/ x \in wizard[w].undo
        BY <1>0, <1>3, <2>3, <3>1 DEF TraceFits
      <3>3. ~wizard[w].undone  BY <1>0, <2>3 DEF TraceFits
      <3> QED BY <1>6, <1>14, <2>3, <3>2, <3>3 DEF TraceFits
    <2>4. CASE wizard[w].at = "restoring" /\ told[w] = "failed" /\ r.at = "ended" /\ r.undone = wizard[w].undone
      <3>1. ~r.undone  BY <1>0, <2>4 DEF TraceFits
      <3> QED BY <1>6, <2>4, <3>1 DEF TraceFits, At
    <2> QED BY <1>5, <2>1, <2>2, <2>3, <2>4
  <1> QED BY <1>8, <1>10, <1>12, <1>13, <1>15 DEF WizardFits

LEMMA UndoNextFits ==
  ASSUME SetupInv, NEW w \in Wizards, NEW q \in Providers, UndoNext(w, q)
  PROVE  OwnStep(w) /\ NamesFit' /\ Rests(w)' /\ WizardFits(w)'
  <1>0. /\ wizard \in [Wizards -> WizardRecords] /\ wizard[w] \in WizardRecords
        /\ login \in [Wizards -> Logins] /\ config \in Configs /\ told \in [Writers -> Answers] /\ issued \in Nat
        /\ VaultInv /\ Rests(w) /\ WizardFits(w) /\ TraceFits(w)
    BY DEF SetupInv, SetupTypes, VaultInv, VaultType, WaitsFit, WizardFits
  <1>1. w \in Writers /\ Login(w) \in Writers /\ w # Login(w) /\ w \in Own(w)  BY OwnFacts DEF Own
  <1>2. /\ UNCHANGED <<scenario, dead, issued, call, refresh, record, update, config, login>>
        /\ At(w, "restoring") /\ wizard[w].at = "restoring" /\ told[w] = "none"
        /\ Enqueue(w, q, wizard[w].snapshot[q])
    BY DEF UndoNext, At, Works, processVars, callVars, recordVars
  <1>6. PICK cred \in Nat : cred = wizard[w].snapshot[q]  BY <1>0 DEF WizardRecords, Entries
  <1> DEFINE undo == wizard[w].undo \ {q}
             r == [wizard[w] EXCEPT !.undo = undo]
  <1>3. cred \in Nat /\ undo \subseteq Providers  BY <1>0 DEF WizardRecords
  <1>4. wizard' = [wizard EXCEPT ![w] = r]  BY <1>0 DEF UndoNext, WizardRecords
  <1>5. Enqueues(w, q, cred)  BY <1>2, <1>6 DEF Enqueues
  <1> HIDE DEF undo
  <1>7. /\ r \in WizardRecords /\ r.at = "restoring" /\ r.undone = wizard[w].undone /\ r.undo = undo
        /\ r.read = wizard[w].read /\ r.snapshot = wizard[w].snapshot
    BY <1>0, <1>2, <1>3 DEF WizardRecords
  <1> HIDE DEF r
  <1>8. /\ wizard' \in [Wizards -> WizardRecords] /\ wizard'[w] = r
        /\ \A v \in Wizards : v # w => wizard'[v] = wizard[v]
    BY <1>4, <1>7, WizardTurns
  <1>9. OwnStep(w)
    <2>1. \E a \in Own(w), x \in Providers, c \in Nat : Enqueues(a, x, c) /\ issued' \in Nat
      BY <1>0, <1>1, <1>2, <1>3, <1>5
    <2> QED BY <1>0, <1>2, <1>8, <2>1 DEF OwnStep
  <1>10. NamesFit' /\ HandlerFits(w)' /\ UpdateFits(w)' /\ ConfigFits(w)' /\ StagedFits(w)'
    BY <1>2, <1>7, <1>8, <1>9, UndoingFits DEF Undoing
  <1>11. \A b \in Writers, x \in Providers, d \in Nat :
           Awaits(b, x, d)' <=> (Awaits(b, x, d) \/ (b = w /\ x = q /\ d = cred))
    BY <1>0, <1>1, <1>2, <1>3, <1>5, EnqueueKeeps
  <1>12. told'[w] = "waiting" /\ told'[Login(w)] = told[Login(w)] /\ vault' = vault /\ by' = by
    BY <1>0, <1>1, <1>5 DEF Enqueues, Enqueue
  <1>13. Rests(w)'  BY <1>0, <1>2, <1>7, <1>8, <1>12 DEF Rests
  <1>14. \A x \in Providers, d \in Nat : ~Awaits(w, x, d)  BY <1>0, <1>1, <1>2, AwaitingWaits
  <1>15. PendingFits(w)'
    <2>1. \A x \in Providers, d \in Nat : Awaits(w, x, d)' => x = q /\ d = cred  BY <1>1, <1>11, <1>14
    <2>2. \A x \in Providers, d \in Nat : Awaits(Login(w), x, d)' => Awaits(Login(w), x, d)  BY <1>1, <1>11
    <2> QED BY <1>0, <1>6, <1>7, <1>8, <2>1, <2>2 DEF WizardFits, PendingFits
  <1>16. TraceFits(w)'
    <2>1. ~r.undone /\ ~At(w, "ended")'  BY <1>0, <1>2, <1>7, <1>8 DEF TraceFits, At
    <2>2. \A x \in Providers : Traceless(w, x)' <=> Traceless(w, x)
      BY <1>2, <1>7, <1>8, <1>12 DEF Traceless
    <2>3. ASSUME r.read, NEW x \in Providers
          PROVE  Traceless(w, x) \/ x \in r.undo \/ \E d \in Nat : Awaits(w, x, d)'
      <3>1. Traceless(w, x) \/ x \in wizard[w].undo
        BY <1>0, <1>2, <1>7, <1>14, <2>3 DEF TraceFits
      <3>2. x = q \/ x \in r.undo \/ Traceless(w, x)  BY <1>7, <3>1 DEF undo
      <3>3. Awaits(w, q, cred)'  BY <1>1, <1>3, <1>11
      <3> QED BY <1>3, <3>2, <3>3
    <2> QED BY <1>8, <2>1, <2>2, <2>3 DEF TraceFits
  <1> QED BY <1>9, <1>10, <1>13, <1>15, <1>16 DEF WizardFits

-----------------------------------------------------------------------------
(* The theorems *)

LEMMA WizardStepFits ==
  ASSUME SetupInv, NEW w \in Wizards,
         Advance(w) \/ Choose(w) \/ SaveConfig(w) \/ Callback(w) \/ Exchange(w) \/ BrowserLeaves(w)
  PROVE  SetupInv' /\ \A q \in Providers : WritesAreKept(q)
  <1>1. IInv'  BY AdvanceStep, ChoosingStep DEF SetupInv
  <1>2. CASE \/ OpenSetup(w) \/ TakeSnapshot(w) \/ Cancel(w)
             \/ \E q \in Providers : Skip(w, q) \/ Keep(w, q)
             \/ \E method \in {"browser", "device"} : StartLogin(w, method)
             \/ Callback(w) \/ LoginTimesOut(w) \/ BrowserLeaves(w) \/ LoginReturns(w)
             \/ SaveConfig(w) /\ Go(w, "undoing") /\ UNCHANGED config
    <2>1. OwnStep(w) /\ Browses(w)  BY <1>2, BrowsingActions
    <2> QED BY <1>1, <2>1, BrowsingFits, OwnStepFits
  <1>3. CASE Exchange(w) \/ LoginStored(w)
    <2>1. OwnStep(w) /\ Handles(w)  BY <1>3, HandlerActions
    <2> QED BY <1>1, <2>1, HandlingFits, OwnStepFits
  <1>4. CASE \E q \in Providers : EnterKey(w, q)
    <2>1. OwnStep(w) /\ NamesFit' /\ Rests(w)' /\ WizardFits(w)'  BY <1>4, EnterKeyFits
    <2> QED BY <1>1, <2>1, OwnStepFits
  <1>5. CASE KeyStored(w) \/ KeyNotStored(w)
    <2>1. OwnStep(w) /\ NamesFit' /\ Rests(w)' /\ WizardFits(w)'  BY <1>5, KeyAnswerFits
    <2> QED BY <1>1, <2>1, OwnStepFits
  <1>6. CASE \/ SaveConfig(w) /\ Go(w, "catalogs") /\ config'.enabled = wizard[w].draft /\ config'.by = w
             \/ SaveCatalogs(w) \/ Recorded(w) \/ NotRecorded(w) \/ OfferBlender(w) \/ Merged(w)
    <2>1. OwnStep(w) /\ NamesFit' /\ Rests(w)' /\ WizardFits(w)'  BY <1>1, <1>6, CompletingFits
    <2> QED BY <1>1, <2>1, OwnStepFits
  <1>7. CASE UndoRead(w) \/ UndoEnds(w) \/ UndoStored(w)
    <2>1. OwnStep(w) /\ NamesFit' /\ Rests(w)' /\ WizardFits(w)'  BY <1>7, UndoReadFits
    <2> QED BY <1>1, <2>1, OwnStepFits
  <1>8. CASE \E q \in Providers : UndoNext(w, q)
    <2>1. OwnStep(w) /\ NamesFit' /\ Rests(w)' /\ WizardFits(w)'  BY <1>8, UndoNextFits
    <2> QED BY <1>1, <2>1, OwnStepFits
  <1>9. SaveConfig(w) => \/ Go(w, "undoing") /\ UNCHANGED config
                         \/ Go(w, "catalogs") /\ config'.enabled = wizard[w].draft /\ config'.by = w
    BY DEF SaveConfig
  <1>10. CASE Advance(w)  BY <1>2, <1>3, <1>5, <1>6, <1>7, <1>8, <1>10 DEF Advance
  <1>11. CASE Choose(w)   BY <1>2, <1>4, <1>6, <1>11 DEF Choose
  <1> QED BY <1>2, <1>3, <1>6, <1>9, <1>10, <1>11

LEMMA SetupStep == SetupInv /\ [Next]_vars => SetupInv' /\ \A q \in Providers : WritesAreKept(q)
  <1> SUFFICES ASSUME SetupInv, [Next]_vars
               PROVE  SetupInv' /\ \A q \in Providers : WritesAreKept(q)
    OBVIOUS
  <1>1. CASE UNCHANGED vars
    <2>1. Elsewhere /\ UNCHANGED <<record, update>>
      BY <1>1 DEF vars, processVars, vaultVars, callVars, recordVars, wizardVars, Elsewhere
    <2>2. IInv'  BY StepIsSerial DEF SetupInv
    <2>3. NamesFit'  BY <2>1, NamesKept DEF SetupInv, Elsewhere
    <2> QED BY <2>1, <2>2, <2>3, ElsewhereFits
  <1>2. CASE Progress
    <2>1. CASE (\E p \in Processes : VaultStep(p)) /\ UNCHANGED <<callVars, recordVars, wizardVars>>
      BY <2>1, VaultStepFits
    <2>2. CASE CallStep /\ UNCHANGED <<recordVars, wizardVars>>
      BY <2>2, CallMoveFits DEF CallMove
    <2>3. CASE (\E a \in Updaters : RecordStep(a)) /\ UNCHANGED <<vaultVars, callVars, wizardVars>>
      BY <2>3, RecordStepFits
    <2>4. CASE \E w \in Wizards : Advance(w)  BY <2>4, WizardStepFits
    <2> QED BY <1>2, <2>1, <2>2, <2>3, <2>4 DEF Progress
  <1>3. CASE Environment
    <2>1. CASE (ServerStep \/ (\E c \in Calls : Begin(c)) \/ Expire) /\ UNCHANGED <<recordVars, wizardVars>>
      BY <2>1, CallMoveFits DEF CallMove
    <2>2. CASE \E w \in Wizards : Choose(w) \/ SaveConfig(w) \/ Callback(w) \/ Exchange(w) \/ BrowserLeaves(w)
      BY <2>2, WizardStepFits
    <2>3. CASE \E f \in Flows : FlowStart(f) \/ FlowUpdate(f)  BY <2>3, FlowFits
    <2>4. CASE \E p \in Processes : Crash(p)  BY <2>4, CrashFits
    <2> QED BY <1>3, <2>1, <2>2, <2>3, <2>4 DEF Environment
  <1> QED BY <1>1, <1>2, <1>3 DEF Next

LEMMA InitFits == Init => SetupInv
  <1> SUFFICES ASSUME Init PROVE SetupInv  OBVIOUS
  <1>1. IInv  BY InitIsLawful
  <1>2. /\ scenario \in Scenarios /\ vault = scenario.vault /\ issued = Cardinality(Providers)
        /\ by = [q \in Providers |-> NoOne] /\ chain = [p \in Processes |-> <<>>]
        /\ told = [a \in Writers |-> "none"]
        /\ wizard = [w \in Wizards |-> NewWizard] /\ login = [w \in Wizards |-> NoLogin]
        /\ record = Missing /\ update = [a \in Updaters |-> NoUpdate]
        /\ refresh = [i \in Instances |-> NoRefresh]
        /\ call = [c \in Calls |-> [at |-> "idle", token |-> 0, retried |-> FALSE]]
    BY DEF Init, HomeInit, VaultInit, CallInit, RecordInit
  <1>3. vault \in Entries /\ issued \in Nat /\ Chatgpt \in Providers
    BY <1>2, WritersAssumption, CallsAssumption, FS_CardinalityType
  <1>4. VaultInv
    <2>1. VaultType  BY <1>2, <1>3 DEF VaultType, Answers
    <2>3. DOMAIN <<>> = {}  OBVIOUS
    <2>4. \A p \in Processes : chain[p] = <<>>  BY <1>2
    <2>2. \A p \in Processes : DOMAIN chain[p] = {}  BY <2>3, <2>4
    <2> QED BY <2>1, <2>2 DEF VaultInv, LineFits, SeenFits
  <1>5. \A a, q, c : ~Awaits(a, q, c)  BY <1>2 DEF Awaits
  <1>6. NewWizard \in WizardRecords /\ NoLogin \in Logins /\ NoRefresh \in Renewals
    <2>1. [q \in Providers |-> 0] \in Entries  BY DEF Entries
    <2>2. [provider |-> Chatgpt, cred |-> 0] \in [provider : Providers, cred : Nat]  BY <1>3
    <2>3. NewWizard \in WizardRecords  BY <2>1, <2>2 DEF NewWizard, WizardRecords, WizardPlaces
    <2> QED BY <2>3 DEF NoLogin, Logins, NoRefresh, Renewals
  <1>7. config \in Configs
    <2>1. config = [enabled |-> {q \in Providers : vault[q] # 0} \ (IF vault[Chatgpt] # 0 THEN {Openai} ELSE {}),
                    default |-> IF vault[Chatgpt] # 0 THEN Chatgpt ELSE NoOne, by |-> NoOne]
      BY DEF Init
    <2> QED BY <1>3, <2>1 DEF Configs
  <1>8. SetupTypes
    <2>1. [at |-> "idle", token |-> 0, retried |-> FALSE] \in CallRecords  BY DEF CallRecords
    <2> QED BY <1>2, <1>6, <1>7, <2>1 DEF SetupTypes
  <1>9. \A w \in Wizards :
          /\ wizard[w].at = "idle" /\ wizard[w].staged = {} /\ ~wizard[w].undone
          /\ login[w].handler = "idle" /\ told[w] = "none" /\ told[Login(w)] = "none" /\ update[w].at = "none"
    BY <1>2, OwnFacts DEF NewWizard, NoLogin, NoUpdate
  <1>10. WaitsFit
    <2>1. \A i \in Instances : told[i] = "none"  BY <1>2, CallsAssumption
    <2> QED BY <1>9, <2>1 DEF WaitsFit, Rests
  <1>11. NamesFit
    <2>1. \A a \in Updaters : update[a].kind = "none" /\ update[a].source = Missing /\ update[a].content = Missing
      BY <1>2 DEF NoUpdate
    <2>2. Missing.core = NoOne  BY DEF Missing
    <2> QED BY <1>2, <2>1, <2>2 DEF NamesFit, Named
  <1>12. ASSUME NEW w \in Wizards PROVE WizardFits(w)
    <2>1. PendingFits(w) /\ HandlerFits(w)  BY <1>5, <1>9 DEF PendingFits, HandlerFits
    <2>2. UpdateFits(w) /\ ConfigFits(w)  BY <1>9 DEF UpdateFits, ConfigFits, Saved, Undoing
    <2>3. StagedFits(w) /\ TraceFits(w)  BY <1>9 DEF StagedFits, Stores, TraceFits, At
    <2> QED BY <2>1, <2>2, <2>3 DEF WizardFits
  <1> QED BY <1>1, <1>4, <1>8, <1>10, <1>11, <1>12 DEF SetupInv

LEMMA NothingHalf == SetupInv => WizardIsAllOrNothing
  <1> SUFFICES ASSUME SetupInv PROVE WizardIsAllOrNothing  OBVIOUS
  <1>1. UndoneLeavesNoTrace
    BY DEF SetupInv, WizardFits, TraceFits, Traceless, UndoneLeavesNoTrace
  <1>2. CompletedIsBacked
    <2> SUFFICES ASSUME NEW w \in Wizards, record.core = w, wizard[w].at \notin Undoing,
                        wizard[w].at = "ended" => update[w].at = "done"
                 PROVE  /\ config.by # NoOne /\ (config.by = w => config.enabled = wizard[w].draft)
                        /\ \A q \in wizard[w].staged : vault[q] # 0 \/ by[q] \notin Own(w) \cup {NoOne}
      BY DEF CompletedIsBacked
    <2>1. WizardFits(w) /\ NamesFit /\ w # NoOne  BY OwnFacts DEF SetupInv
    <2>2. wizard[w].at \in Late  BY <2>1 DEF NamesFit, Named
    <2>3. Stands(w)  BY DEF Stands
    <2>4. Saved(w)  BY <2>2, <2>3 DEF Saved, Late
    <2>5. \A q : ~Removes(w, q)  BY <2>2 DEF Removes, Late, Undoing
    <2> QED BY <2>1, <2>3, <2>4, <2>5 DEF WizardFits, ConfigFits, StagedFits, Backed
  <1> QED BY <1>1, <1>2 DEF WizardIsAllOrNothing

\* The inductive invariant of the wizards and of auth.json.
THEOREM SetupInvariant == Spec => []SetupInv
  <1> QED BY InitFits, SetupStep, PTL DEF Spec

\* A wizard that completes setup leaves all it stands on in place, and one that
\* rolls back leaves auth.json as it found it, but for what others did to it and a
\* callback that came late.
THEOREM SetupIsAllOrNothing == Spec => []WizardIsAllOrNothing
  <1> QED BY SetupInvariant, NothingHalf, PTL

\* A rename of auth.json changes another entry than its own only by bringing back
\* what it read before another process wrote: enqueueWrite keeps the writes of one
\* process apart, however many wizards, logins and renewals it has.
THEOREM WritesStand == Spec => [][\A q \in Providers : WritesAreKept(q)]_vars
  <1>1. SetupInv /\ [Next]_vars => SetupInv' /\ [\A q \in Providers : WritesAreKept(q)]_vars
    BY SetupStep
  <1> QED BY <1>1, InitFits, PTL DEF Spec

=============================================================================

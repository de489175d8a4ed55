---------------------------- MODULE SetupWizard ----------------------------
(***************************************************************************)
(* `strongcode setup` (setup/wizard.ts) beside the calls of other          *)
(* StrongCode processes.  The wizard stores credentials as the user enters *)
(* them, then the configuration, then the record that says setup is        *)
(* complete; if it ends before that it puts auth.json back as it found it. *)
(***************************************************************************)
EXTENDS ChatGptCalls, SetupRecord

CONSTANTS
  Openai,       \* the provider whose key replaces a ChatGPT login
  Wizards,      \* runs of runSetup
  Flows         \* runs of runBlenderSetupFlow, `strongcode setup --blender`

Login(w) == <<w, "login">>   \* what stores the tokens of a ChatGPT login

Own(w) == {w, Login(w)}

ASSUME WizardsAssumption ==
  /\ Openai \in Providers \ {Chatgpt}
  /\ \A s \in Scenarios : s.menus \subseteq SUBSET (Providers \ {Openai})
  /\ Updaters = Wizards \cup Flows
  /\ Writers = Instances \cup UNION {Own(w) : w \in Wizards}
  /\ Wizards \cap Flows = {}
  /\ \A w \in Wizards : Own(w) \cap Instances = {} /\ \A x \in Wizards : w # Login(x)

VARIABLES
  config,    \* strongcode.config.yaml: providers enabled, the default one, who wrote it
  wizard,    \* each wizard: its place, snapshot of auth.json, draft of the configuration, ...
  login      \* the ChatGPT login it waits for

wizardVars == <<config, wizard, login>>
vars == <<processVars, vaultVars, callVars, recordVars, wizardVars>>

NoLogin == [method |-> "none", handler |-> "idle", settled |-> "no", here |-> TRUE]

NewWizard ==
  [at |-> "idle", first |-> TRUE, read |-> FALSE, snapshot |-> [q \in Providers |-> 0],
   left |-> {}, draft |-> {}, pending |-> [provider |-> Chatgpt, cred |-> 0],
   staged |-> {}, undo |-> {}, undone |-> FALSE]

Init ==
  /\ HomeInit /\ VaultInit /\ CallInit /\ RecordInit
  /\ config = [enabled |-> {q \in Providers : vault[q] # 0}
                             \ (IF vault[Chatgpt] # 0 THEN {Openai} ELSE {}),
               default |-> IF vault[Chatgpt] # 0 THEN Chatgpt ELSE NoOne, by |-> NoOne]
  /\ wizard = [w \in Wizards |-> NewWizard]
  /\ login = [w \in Wizards |-> NoLogin]

At(w, place) == Alive(w) /\ wizard[w].at = place

Go(w, place) == wizard' = [wizard EXCEPT ![w].at = place]

\* Steps of a wizard that write nothing.
Quiet == Works /\ UNCHANGED <<vaultVars, callVars, recordVars, config>>

-----------------------------------------------------------------------------
(* Choosing providers *)

\* setupRuntimeIsRunnable: the default model is the mock or has a credential.
Runnable == config.default # NoOne => vault[config.default] # 0

\* A completed setup that still works is left alone, unless --force is given.
OpenSetup(w) ==
  /\ TakesPart(w) /\ At(w, "idle")
  /\ \/ record.core # NoOne /\ Runnable /\ Go(w, "ready")
     \/ wizard' = [wizard EXCEPT ![w].at = "starting", ![w].first = (record.core = NoOne)]
  /\ Quiet /\ UNCHANGED login

\* One item of the menu stands for a ChatGPT login and an OpenAI key.
Items == Providers \ {Openai}

ItemOf(q) == IF q = Openai THEN Chatgpt ELSE q

\* The snapshot, the configuration, and the items the user selects: every other
\* provider is disabled.  The snapshot is empty when reading it failed.
TakeSnapshot(w) ==
  /\ At(w, "starting") /\ UNCHANGED <<vaultVars, callVars, recordVars, config, login>>
  /\ \/ /\ Works
        /\ \E selected \in scenario.menus :
             wizard' = [wizard EXCEPT ![w].at = "choosing", ![w].read = TRUE,
                          ![w].snapshot = vault, ![w].left = selected,
                          ![w].draft = {q \in config.enabled : ItemOf(q) \in selected}]
     \/ Fails /\ \/ Go(w, "undoing")
                 \/ wizard' = [wizard EXCEPT ![w].at = "undoing", ![w].read = TRUE, ![w].snapshot = vault]

\* mergeConfiguredProvider, and withProviderEnabled for the other of the pair.
Enabling(draft, q) ==
  (draft \cup {q}) \ (IF q = Openai THEN {Chatgpt} ELSE IF q = Chatgpt THEN {Openai} ELSE {})

\* Providers the user is asked about: of the items left, or instead of a login.
Offered(w) ==
  IF wizard[w].at = "refused" THEN {Openai} ELSE {q \in Providers : ItemOf(q) \in wizard[w].left}

Asks(w) == Alive(w) /\ wizard[w].at \in {"choosing", "refused"}

Chosen(w, q, place) ==
  wizard' = [wizard EXCEPT ![w].at = place, ![w].left = @ \ {ItemOf(q)}]

\* "Not now".
Skip(w, q) ==
  Asks(w) /\ q \in Offered(w) /\ Chosen(w, q, "choosing") /\ Quiet /\ UNCHANGED login

\* The saved key or login is taken as it is.
Keep(w, q) ==
  /\ Asks(w) /\ q \in Offered(w) /\ vault[q] # 0
  /\ wizard' = [wizard EXCEPT ![w].at = "choosing", ![w].left = @ \ {ItemOf(q)},
                              ![w].draft = Enabling(@, q)]
  /\ Quiet /\ UNCHANGED login

\* A key is entered, and stored once the provider's models were found; or the
\* saved key was refused and is removed, which changes no configuration.
EnterKey(w, q) ==
  /\ Asks(w) /\ q \in Offered(w) \ {Chatgpt}
  /\ \E cred \in {issued + 1} \cup (IF vault[q] # 0 THEN {0} ELSE {}) :
       /\ wizard' = [wizard EXCEPT ![w].at = "storing", ![w].left = @ \ {ItemOf(q)},
                                   ![w].pending = [provider |-> q, cred |-> cred]]
       /\ issued' = issued + (IF cred = 0 THEN 0 ELSE 1)
       /\ Enqueue(w, q, cred)
  /\ Works /\ UNCHANGED <<callVars, recordVars, config, login>>

\* What a wizard waits for from its own write of auth.json.
Answered(w, answer) == told[w] = answer /\ told' = [told EXCEPT ![w] = "none"]

\* Faulty variant: the answer of set() is not looked at.
KeyStoredAnyway(w) ==
  LET q == wizard[w].pending.provider
  IN /\ At(w, "storing") /\ (Answered(w, "stored") \/ Answered(w, "failed"))
     /\ wizard' = [wizard EXCEPT ![w].at = "choosing",
                     ![w].draft = IF wizard[w].pending.cred = 0 THEN @ ELSE Enabling(@, q),
                     ![w].staged = IF wizard[w].pending.cred = 0 THEN @ \ {q} ELSE @ \cup {q}]
     /\ Works /\ UNCHANGED <<vault, issued, by, chain, callVars, recordVars, config, login>>

KeyStored(w) ==
  LET q == wizard[w].pending.provider
  IN /\ At(w, "storing") /\ Answered(w, "stored")
     /\ wizard' = [wizard EXCEPT ![w].at = "choosing",
                     ![w].draft = IF wizard[w].pending.cred = 0 THEN @ ELSE Enabling(@, q),
                     ![w].staged = IF wizard[w].pending.cred = 0 THEN @ \ {q} ELSE @ \cup {q}]
     /\ Works /\ UNCHANGED <<vault, issued, by, chain, callVars, recordVars, config, login>>

KeyNotStored(w) ==
  /\ At(w, "storing") /\ Answered(w, "failed") /\ Go(w, "undoing")
  /\ Works /\ UNCHANGED <<vault, issued, by, chain, callVars, recordVars, config, login>>

-----------------------------------------------------------------------------
(* The ChatGPT login: a callback server and a browser, or polling *)

LogsIn(w) == At(w, "logging") /\ login[w].settled = "no"

StartLogin(w, method) ==
  /\ At(w, "choosing") /\ Chatgpt \in wizard[w].left
  /\ Chosen(w, Chatgpt, "logging")
  /\ login' = [login EXCEPT ![w].method = method]
  /\ Quiet

\* External: the user consents, and the code arrives; or the login is refused.
Callback(w) ==
  /\ LogsIn(w) /\ login[w].handler = "idle"
  /\ \/ login' = [login EXCEPT ![w].handler = "exchanging"]
     \/ login' = [login EXCEPT ![w].settled = "error"]
  /\ Quiet /\ UNCHANGED wizard

\* exchangeCode returns tokens, which set() stores, or throws.  The handler of a
\* callback goes on when the login has timed out, and when the wizard has gone on.
Exchange(w) ==
  /\ Alive(w) /\ login[w].handler = "exchanging"
  /\ \/ /\ issued' = issued + 1
        /\ Enqueue(Login(w), Chatgpt, issued + 1)
        /\ login' = [login EXCEPT ![w].handler = "storing"]
     \/ /\ login' = [login EXCEPT ![w].handler = "over",
                                  ![w].settled = IF @ = "no" THEN "error" ELSE @]
        /\ UNCHANGED vaultVars
  /\ Works /\ UNCHANGED <<callVars, recordVars, config, wizard>>

\* finish(): only the first outcome counts.
LoginStored(w) ==
  /\ Alive(w) /\ login[w].handler = "storing"
  /\ told[Login(w)] \in {"stored", "failed"}
  /\ login' = [login EXCEPT ![w].handler = "over",
                            ![w].settled = IF @ # "no" THEN @
                                           ELSE IF told[Login(w)] = "stored" THEN "ok" ELSE "error"]
  /\ told' = [told EXCEPT ![Login(w)] = "none"]
  /\ Works /\ UNCHANGED <<vault, issued, by, chain, callVars, recordVars, config, wizard>>

\* The timer of the browser login fires at any time; polling stops between polls.
LoginTimesOut(w) ==
  /\ LogsIn(w) /\ (login[w].method = "browser" \/ login[w].handler = "idle")
  /\ login' = [login EXCEPT ![w].settled = "error"]
  /\ Quiet /\ UNCHANGED wizard

\* External: the browser closes the connection its callback came on.
BrowserLeaves(w) ==
  /\ At(w, "logging") /\ login[w].method = "browser" /\ login[w].here
  /\ login[w].handler \in {"exchanging", "storing"}
  /\ login' = [login EXCEPT ![w].here = FALSE]
  /\ Quiet /\ UNCHANGED wizard

\* closeServer waits for the connections that are open.
Closed(w) == ~login[w].here \/ login[w].handler \notin {"exchanging", "storing"}

\* After a login the tokens are read again; after an error the user is asked.
LoginReturns(w) ==
  /\ At(w, "logging") /\ login[w].settled # "no" /\ Closed(w)
  /\ wizard' = IF login[w].settled = "error" THEN [wizard EXCEPT ![w].at = "refused"]
               ELSE IF vault[Chatgpt] = 0 THEN [wizard EXCEPT ![w].at = "undoing"]
               ELSE [wizard EXCEPT ![w].at = "choosing", ![w].draft = Enabling(@, Chatgpt),
                                   ![w].staged = @ \cup {Chatgpt}]
  /\ Quiet /\ UNCHANGED login

-----------------------------------------------------------------------------
(* Completing setup, and undoing it *)

\* Ctrl-C at a prompt, or reading auth.json throws.
Cancel(w) ==
  /\ Asks(w) /\ Go(w, "undoing")
  /\ Works \/ Fails
  /\ UNCHANGED <<vaultVars, callVars, recordVars, config, login>>

\* The default model is chosen among the enabled providers, or is the mock.
SaveConfig(w) ==
  /\ At(w, "choosing") /\ wizard[w].left = {}
  /\ \/ /\ Works /\ Go(w, "catalogs")
        /\ \E q \in (IF wizard[w].draft = {} THEN {NoOne} ELSE wizard[w].draft) :
             config' = [enabled |-> wizard[w].draft, default |-> q, by |-> w]
     \/ Fails /\ Go(w, "undoing") /\ UNCHANGED config
  /\ UNCHANGED <<vaultVars, callVars, recordVars, login>>

\* providers.json, agents.json and models.json; then the update of setup.json begins.
SaveCatalogs(w) ==
  /\ At(w, "catalogs")
  /\ \/ /\ Works /\ Go(w, "recording") /\ StartUpdate(w, "core", NoOne)
     \/ /\ Fails /\ Go(w, "undoing") /\ UNCHANGED update
  /\ UNCHANGED <<vaultVars, callVars, record, lock, robbed, config, login>>

\* The first completed setup may offer the Blender integration.
Recorded(w) ==
  /\ At(w, "recording") /\ update[w].at = "done"
  /\ \/ Go(w, "ended")
     \/ /\ wizard[w].first /\ update[w].content.blender = NoOne /\ update[w].content.offer = 0
        /\ Go(w, "offering")
  /\ Quiet /\ UNCHANGED login

NotRecorded(w) ==
  /\ At(w, "recording") /\ update[w].at \in {"unreleased", "failed"} /\ Go(w, "undoing")
  /\ Quiet /\ UNCHANGED login

\* External: the installer; its result is merged, its failure ends the wizard, and
\* either way nothing is undone.
OfferBlender(w) ==
  /\ At(w, "offering")
  /\ \/ /\ \E kind \in {"installed", "declined", "unavailable"} : StartUpdate(w, kind, NoOne)
        /\ Go(w, "merging")
     \/ Go(w, "ended") /\ UNCHANGED update
  /\ Works /\ UNCHANGED <<vaultVars, callVars, record, lock, robbed, config, login>>

Merged(w) ==
  /\ At(w, "merging") /\ update[w].at \in {"done", "unreleased", "failed"} /\ Go(w, "ended")
  /\ Quiet /\ UNCHANGED login

\* Faulty variant: what the wizard added is left.
ToUndoOld(w) == {q \in Providers : wizard[w].snapshot[q] # 0}

\* restoreAuthSnapshot: what is there now and was not goes, and then every entry
\* of the snapshot is written.
ToUndo(w) == {q \in Providers : vault[q] # 0 \/ wizard[w].snapshot[q] # 0}

UndoRead(w) ==
  /\ At(w, "undoing")
  /\ \/ Works /\ wizard' = [wizard EXCEPT ![w].at = "restoring", ![w].undo = ToUndo(w)]
     \/ Fails /\ Go(w, "ended")
  /\ UNCHANGED <<vaultVars, callVars, recordVars, config, login>>

UndoNext(w, q) ==
  /\ At(w, "restoring") /\ told[w] = "none" /\ q \in wizard[w].undo
  /\ wizard[w].snapshot[q] # 0 => \A x \in wizard[w].undo : wizard[w].snapshot[x] # 0
  /\ wizard' = [wizard EXCEPT ![w].undo = @ \ {q}]
  /\ Enqueue(w, q, wizard[w].snapshot[q])
  /\ Works /\ UNCHANGED <<issued, callVars, recordVars, config, login>>

UndoStored(w) ==
  /\ At(w, "restoring")
  /\ \/ Answered(w, "stored") /\ UNCHANGED wizard
     \/ Answered(w, "failed") /\ Go(w, "ended")
  /\ Works /\ UNCHANGED <<vault, issued, by, chain, callVars, recordVars, config, login>>

UndoEnds(w) ==
  /\ At(w, "restoring") /\ told[w] = "none" /\ wizard[w].undo = {}
  /\ wizard' = [wizard EXCEPT ![w].at = "ended", ![w].undone = TRUE]
  /\ Quiet /\ UNCHANGED login

-----------------------------------------------------------------------------
(* `strongcode setup --blender`, and the processes *)

\* runBlenderSetupFlow reads the record, installs, and merges what came of it.
FlowStart(f) ==
  /\ TakesPart(f) /\ update[f].at = "none"
  /\ update' = [update EXCEPT ![f].at = "installing", ![f].base = record.blender]
  /\ Works /\ UNCHANGED <<record, lock, robbed, vaultVars, callVars, wizardVars>>

FlowUpdate(f) ==
  /\ Alive(f) /\ update[f].at = "installing"
  /\ \E kind \in {"installed", "declined", "unavailable"} : StartUpdate(f, kind, update[f].base)
  /\ Works /\ UNCHANGED <<record, lock, robbed, vaultVars, callVars, wizardVars>>

\* A process ends: what it had queued is gone, its lock file stays.
Crash(p) ==
  /\ p \notin dead /\ Cardinality(dead) < scenario.deaths
  /\ dead' = dead \cup {p} /\ chain' = [chain EXCEPT ![p] = <<>>]
  /\ UNCHANGED <<scenario, faults, vault, issued, by, told, callVars, recordVars, wizardVars>>

Choose(w) ==
  \/ OpenSetup(w) \/ Cancel(w) \/ OfferBlender(w)
  \/ \E q \in Providers : Skip(w, q) \/ Keep(w, q) \/ EnterKey(w, q)
  \/ \E method \in {"browser", "device"} : StartLogin(w, method)

Advance(w) ==
  \/ TakeSnapshot(w) \/ KeyStored(w) \/ KeyNotStored(w)
  \/ LoginStored(w) \/ LoginTimesOut(w) \/ LoginReturns(w)
  \/ SaveCatalogs(w) \/ Recorded(w) \/ NotRecorded(w) \/ Merged(w)
  \/ UndoRead(w) \/ UndoStored(w) \/ UndoEnds(w) \/ (\E q \in Providers : UndoNext(w, q))

\* What the program does by itself.
Progress ==
  \/ (\E p \in Processes : VaultStep(p)) /\ UNCHANGED <<callVars, recordVars, wizardVars>>
  \/ CallStep /\ UNCHANGED <<recordVars, wizardVars>>
  \/ (\E a \in Updaters : RecordStep(a)) /\ UNCHANGED <<vaultVars, callVars, wizardVars>>
  \/ \E w \in Wizards : Advance(w)

\* Users, servers, browsers, clocks and deaths.
Environment ==
  \/ ServerStep /\ UNCHANGED <<recordVars, wizardVars>>
  \/ ((\E c \in Calls : Begin(c)) \/ Expire) /\ UNCHANGED <<recordVars, wizardVars>>
  \/ \E w \in Wizards : Choose(w) \/ SaveConfig(w) \/ Callback(w) \/ Exchange(w) \/ BrowserLeaves(w)
  \/ \E f \in Flows : FlowStart(f) \/ FlowUpdate(f)
  \/ \E p \in Processes : Crash(p)

Next == Progress \/ Environment

Spec == Init /\ [][Next]_vars

\* Timers fire, and promises, files and queues that can go on go on.
FairSpec == Spec /\ WF_vars(Progress)

-----------------------------------------------------------------------------
TypeOK ==
  /\ VaultTypeOK /\ CallTypeOK /\ RecordTypeOK
  /\ config.enabled \subseteq Providers /\ config.default \in config.enabled \cup {NoOne}
  /\ \A w \in Wizards :
       /\ wizard[w].snapshot \in Entries
       /\ wizard[w].left \subseteq Items
       /\ wizard[w].draft \cup wizard[w].staged \cup wizard[w].undo \subseteq Providers

\* Within a process a write of auth.json never undoes another, and a renewed token
\* is used by a call only once it is stored (enqueueWrite, auth).
CredentialsAreKept ==
  [][\A q \in Providers : WritesAreKept(q)]_vars /\ []SentIsStored

\* A rollback that reports no error leaves auth.json as the wizard found it, but
\* for what others stored, and a callback whose browser left and that came late.
UndoneLeavesNoTrace ==
  \A w \in Wizards : At(w, "ended") /\ wizard[w].undone /\ wizard[w].read =>
    \A q \in Providers :
      \/ vault[q] = wizard[w].snapshot[q]
      \/ by[q] \notin Own(w)
      \/ by[q] = Login(w) /\ ~login[w].here

Undoing == {"undoing", "restoring"}

\* The record says that setup is complete only over a configuration that is saved
\* and the credentials this wizard entered for it, if no one else changed them.
CompletedIsBacked ==
  \A w \in Wizards :
    record.core = w /\ wizard[w].at \notin Undoing /\ (wizard[w].at = "ended" => update[w].at = "done") =>
      /\ config.by # NoOne /\ (config.by = w => config.enabled = wizard[w].draft)
      /\ \A q \in wizard[w].staged : vault[q] # 0 \/ by[q] \notin Own(w) \cup {NoOne}

\* runSetup is all or nothing: "completed" once setup.json says so, and otherwise
\* the credentials it staged are rolled back.
WizardIsAllOrNothing == UndoneLeavesNoTrace /\ CompletedIsBacked

\* setup.json: updateSetupState.
RecordIsSerial == [][UpdatesAreSerial]_vars

\* Where a user, a browser or a server is waited for, with no timer.
Waits(w) ==
  \/ wizard[w].at \in {"idle", "ready", "ended", "choosing", "refused", "offering"}
  \/ wizard[w].at = "logging" /\ login[w].handler = "exchanging" /\ ~(Closed(w) /\ login[w].settled # "no")

\* Every write is answered, every renewal that the server answers reaches the calls
\* that wait for it, every update of setup.json ends, and so does every rollback.
EverythingEnds ==
  <>[](/\ \A a \in Writers : Alive(a) => told[a] # "waiting"
       /\ \A c \in Calls : Alive(c) =>
            \/ call[c].at \in {"idle", "answered", "failed"}
            \/ call[c].at = "refreshing" /\ refresh[InstanceOf[c]].stage = "asking"
       /\ \A a \in Updaters : Alive(a) =>
            update[a].at \in {"none", "installing", "done", "unreleased", "failed"}
       /\ \A w \in Wizards : Alive(w) => Waits(w))

\* "Could not fully roll back staged credentials": what a rollback changes in
\* auth.json are entries that its wizard staged.
RollbackTouchesOnlyStaged ==
  [][\A q \in Providers : \A w \in Wizards :
       vault'[q] # vault[q] /\ by'[q] = w /\ wizard[w].at = "restoring" => q \in wizard[w].staged]_vars

=============================================================================

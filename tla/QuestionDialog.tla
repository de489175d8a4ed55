--------------------------- MODULE QuestionDialog ---------------------------
(***************************************************************************)
(* The question tool from ask() to its answer: the broker, the dialog that *)
(* observes it (tui/question/surface.ts), the answers being composed       *)
(* (state.ts), the focus and the keys (interaction.ts) and the rewriting   *)
(* of the shown text by DeepSeek (questions/simplifier.ts), which runs in  *)
(* the background and may return after the question, or the dialog, went.  *)
(*                                                                         *)
(* A key, a click, an ask() and the continuation of an await each run to   *)
(* completion; a settlement closes the dialog, settles the broker and is   *)
(* told of the next request before it returns, so it is one action here.   *)
(* A highlighted option is only what Enter selects, and a click may select *)
(* any: the highlight is left out, and so are drafts an editor refuses.    *)
(***************************************************************************)
EXTENDS QuestionBroker, Integers, FiniteSetsExt, SequencesExt

CONSTANT Budgets   \* bounds: [asks, inputs, rewrites, simplifier]

VARIABLES
  budget,     \* what this behaviour may ask and how often the user may act
  form,       \* QuestionState of the request shown, or None
  face,       \* focus, the focus remembered for each page, Escape armed
  gen,        \* generation: moves whenever a simplification is given up
  current,    \* the simplification that owns the controller, 0 if none
  flights,    \* every simplification started
  stopping,   \* "no", then "destroyed" (surface), then "closed" (broker)
  inputs      \* how often the user acted

dialog == <<form, face, gen, current, flights>>
vars == <<broker, result, asked, budget, dialog, stopping, inputs>>

-----------------------------------------------------------------------------
(* The state of a form *)

Count(r)  == Len(QuestionsOf[r])
Tabbed(r) == Count(r) > 2
Pages(r)  == 1 .. (IF Tabbed(r) THEN Count(r) + 1 ELSE Count(r))

Editors == {"custom", "guidance"}
Actions == {"original", "simplify", "next", "submit", "cancel"}
Focuses == Editors \cup Actions \cup {"option"}

\* A displayed text: that of a request, or a rewrite of it.
Displays == [of : Requests, by : Nat]

\* QuestionState
FormsOf(r) ==
  [of : {r}, page : Nat \ {0}, guidance : {"none", "blank", "text"},
   picks : [1..Count(r) -> SUBSET Options], draft : [1..Count(r) -> {"none", "blank", "text"}],
   display : Displays, original : BOOLEAN, simp : {"idle", "loading", "simplified", "error"}]

\* QuestionAnswered
AnswersOf(r) ==
  [outcome : {"answered"}, picks : [1..Count(r) -> SUBSET Options],
   custom : [1..Count(r) -> BOOLEAN], guidance : BOOLEAN]

\* "No form" is not a form, and "no result" is not a result.
ASSUME NoneAssumption ==
  /\ None # Dismissed
  /\ \A r \in Requests : None \notin FormsOf(r) /\ None \notin AnswersOf(r)

NewForm(r) ==
  [of |-> r, page |-> 1, guidance |-> "none",
   picks |-> [q \in 1..Count(r) |-> {}], draft |-> [q \in 1..Count(r) |-> "none"],
   display |-> [of |-> r, by |-> 0], original |-> FALSE, simp |-> "idle"]

\* resetFocus
Fresh(r) == [focus |-> "option", remembered |-> [p \in Pages(r) |-> None], armed |-> FALSE]

Shown    == IF form = None THEN None ELSE form.of
Mounted  == stopping = "no"
Loading(f) == f.simp = "loading"

OnConfirm(f) == f.page > Count(f.of)
Asking(f) == QuestionsOf[f.of][f.page]      \* the question of the page

\* A blank draft is kept in the editor and is no answer.
HasAnswer(f, q) == f.picks[q] # {} \/ f.draft[q] = "text"
CanSubmit(f) == \A q \in 1..Count(f.of) : HasAnswer(f, q)

BuildResult(f) ==
  [outcome |-> "answered", picks |-> f.picks,
   custom |-> [q \in 1..Count(f.of) |-> f.draft[q] = "text"],
   guidance |-> Tabbed(f.of) /\ f.guidance = "text"]

\* selectDisplayedRequest: the text the user reads, and Simplify sends.
Visible(f) == IF f.original THEN [of |-> f.of, by |-> 0] ELSE f.display

MatchingIdentity(r, s) ==
  /\ Count(r) = Count(s)
  /\ \A q \in 1..Count(r) : QuestionsOf[r][q].id = QuestionsOf[s][q].id

\* Faulty variant: every question takes several options.
ToggledAlways(f, i) ==
  [f EXCEPT !.picks[f.page] = IF i \in @ THEN @ \ {i} ELSE @ \cup {i}]

Toggled(f, i) ==
  LET picked == f.picks[f.page] IN
  [f EXCEPT !.picks[f.page] =
     IF ~Asking(f).multiple THEN {i} ELSE IF i \in picked THEN picked \ {i} ELSE picked \cup {i}]

Bounded(n, top) == Max({1, Min({n, top})})
-----------------------------------------------------------------------------
(* Focus *)

ActionEnabled(f) ==
  [original |-> f.simp = "simplified",
   simplify |-> ~Loading(f),
   next     |-> ~Tabbed(f.of) /\ f.page < Count(f.of) /\ ~Loading(f),
   submit   |-> CanSubmit(f) /\ ~Loading(f),
   cancel   |-> TRUE]

FocusRing(f) ==
  LET When(cond, x) == IF cond THEN <<x>> ELSE <<>> IN
  <<IF OnConfirm(f) THEN "guidance" ELSE "option">>
  \o When(~OnConfirm(f) /\ Asking(f).custom, "custom")
  \o When(f.simp = "simplified", "original") \o <<"simplify">>
  \o When(~Tabbed(f.of) /\ f.page < Count(f.of), "next") \o <<"submit", "cancel">>

DefaultFocus(f) == IF OnConfirm(f) THEN "guidance" ELSE "option"

FocusEnabled(x, f) == x \in ToSet(FocusRing(f)) /\ (x \in Actions => ActionEnabled(f)[x])

\* The next focus of the ring that is enabled; a focus that fell out of the
\* ring counts as the place before its first.
Neighbour(f, d) ==
  LET ring == FocusRing(f)
      n    == Len(ring)
      here == IF face.focus \in ToSet(ring) THEN CHOOSE i \in 1..n : ring[i] = face.focus ELSE 0
      At(k) == ring[((here - 1 + d * k + 2 * n) % n) + 1]
  IN At(Min({k \in 1..n : FocusEnabled(At(k), f)}))

FirstAction(f) ==
  LET enabled == SelectSeq(FocusRing(f), LAMBDA x : x \in Actions /\ FocusEnabled(x, f)) IN Head(enabled)

Focused(f, x, armed) == [face EXCEPT !.focus = x, !.remembered[f.page] = x, !.armed = armed]
Disarmed == [face EXCEPT !.armed = FALSE]

\* restorePageFocus after rememberCurrentFocus
Turned(f, to) ==
  LET kept  == [face.remembered EXCEPT ![f.page] = face.focus]
      focus == IF kept[to.page] # None /\ FocusEnabled(kept[to.page], to) THEN kept[to.page] ELSE DefaultFocus(to)
  IN [focus |-> focus, remembered |-> kept, armed |-> FALSE]
-----------------------------------------------------------------------------
(* The dialog opens, closes and settles *)

\* abortSimplification
Abort ==
  /\ gen' = gen + 1 /\ current' = 0
  /\ flights' = IF current = 0 THEN flights ELSE [flights EXCEPT ![current].aborted = TRUE]

Open(next) ==
  /\ form' = IF next = None THEN None ELSE NewForm(next)
  /\ face' = IF next = None THEN face ELSE Fresh(next)

\* What the surface's observer does when it is told of a request, or of none.
Told(next) ==
  IF next = Shown THEN UNCHANGED dialog
  ELSE /\ Open(next)
       /\ IF form = None THEN UNCHANGED <<gen, current, flights>> ELSE Abort

\* settleAnswer and settleDismissal: closeCurrent comes first, so a result the
\* broker refuses leaves its request without a dialog.
Settle(res, listening) ==
  LET taken == Accepts(broker, form.of, res) IN
  /\ broker' = IF taken THEN Settled(broker) ELSE broker
  /\ result' = IF taken THEN [result EXCEPT ![form.of] = res] ELSE result
  /\ Open(IF taken /\ listening THEN broker'.active ELSE None)
  /\ Abort
-----------------------------------------------------------------------------
(* What the user does *)

Init ==
  /\ budget \in Budgets
  /\ broker = NewBroker /\ asked = <<>>
  /\ result = [r \in Requests |-> None]
  /\ form = None /\ face = [focus |-> "option", remembered |-> <<>>, armed |-> FALSE]
  /\ gen = 0 /\ current = 0 /\ flights = <<>>
  /\ stopping = "no" /\ inputs = 0

Input ==
  /\ form # None /\ inputs < budget.inputs
  /\ inputs' = inputs + 1
  /\ UNCHANGED <<asked, budget, stopping>>

Edit(f, fc) ==
  form' = f /\ face' = fc /\ UNCHANGED <<broker, result, gen, current, flights>>

\* A click on an option, or Enter on the highlighted one.  The only question
\* of a request that takes one option is submitted by choosing it.
SelectOption(i) ==
  /\ Input /\ ~OnConfirm(form) /\ ~Loading(form)
  /\ LET f == Toggled(form, i) IN
       IF Count(f.of) = 1 /\ ~Asking(f).multiple /\ CanSubmit(f)
       THEN Settle(BuildResult(f), TRUE) ELSE Edit(f, Disarmed)

TypeCustom(text) ==
  /\ Input /\ face.focus = "custom" /\ ~OnConfirm(form)
  /\ Edit(IF Asking(form).custom THEN [form EXCEPT !.draft[form.page] = text] ELSE form, face)

TypeGuidance(text) ==
  /\ Input /\ face.focus = "guidance"
  /\ Edit(IF OnConfirm(form) THEN [form EXCEPT !.guidance = text] ELSE form, face)

TurnTo(page) ==
  LET f == [form EXCEPT !.page = Bounded(page, Cardinality(Pages(form.of)))] IN Edit(f, Turned(form, f))

\* Left and Right, which an editor keeps for itself.
MovePage(d) == Input /\ face.focus \notin Editors /\ TurnTo(form.page + d)

SelectTab(page) == Input /\ Tabbed(form.of) /\ page \in Pages(form.of) /\ TurnTo(page)

MoveFocus(d) == Input /\ Edit(form, Focused(form, Neighbour(form, d), FALSE))

ClickEditor(x) ==
  /\ Input /\ FocusEnabled(x, form) /\ face.focus # x
  /\ Edit(form, Focused(form, x, FALSE))

\* F3, a click or Enter on Simplify.
Simplify ==
  /\ ActionEnabled(form).simplify
  /\ IF ~budget.simplifier
     THEN Edit([form EXCEPT !.simp = "error"], Disarmed)
     ELSE /\ Len(flights) < budget.rewrites
          /\ gen' = gen + 1 /\ current' = Len(flights) + 1
          /\ flights' = Append(IF current = 0 THEN flights ELSE [flights EXCEPT ![current].aborted = TRUE],
                               [input |-> Visible(form), gen |-> gen', step |-> "credentials", aborted |-> FALSE])
          /\ form' = [form EXCEPT !.simp = "loading"] /\ face' = Disarmed
          /\ UNCHANGED <<broker, result>>

ShowOriginal ==
  ActionEnabled(form).original /\ Edit([form EXCEPT !.original = ~@], Disarmed)

\* A click on Next leaves an editor that has the focus where it is.
NextQuestion ==
  /\ ActionEnabled(form).next
  /\ IF face.focus \in Editors THEN Edit(form, Disarmed) ELSE TurnTo(form.page + 1)

Submit == ActionEnabled(form).submit /\ Settle(BuildResult(form), TRUE)

ActivateAction ==
  Input /\ (Simplify \/ ShowOriginal \/ NextQuestion \/ Submit \/ Settle(Dismissed, TRUE))

\* The first Escape leaves what has the focus, a second one, or one on an
\* option, dismisses.
Dismisses == face.armed \/ face.focus = "option"

Escape ==
  /\ Input
  /\ IF Dismisses THEN Settle(Dismissed, TRUE)
     ELSE Edit(form, Focused(form, CASE face.focus = "custom"   -> "option"
                                     [] face.focus = "guidance" -> FirstAction(form)
                                     [] OTHER                   -> DefaultFocus(form), TRUE))
-----------------------------------------------------------------------------
(* The calls of the tool, DeepSeek, and the end of the program *)

Ask(r) ==
  /\ r \in budget.asks /\ r \notin ToSet(asked)
  /\ asked' = Append(asked, r)
  /\ IF broker.closed
     THEN result' = [result EXCEPT ![r] = Dismissed] /\ UNCHANGED <<broker, dialog>>
     ELSE /\ broker' = Enqueued(broker, r) /\ UNCHANGED result
          /\ IF broker.active = None /\ Mounted THEN Told(broker'.active) ELSE UNCHANGED dialog
  /\ UNCHANGED <<budget, stopping, inputs>>

Flying(a, steps) == a \in DOMAIN flights /\ flights[a].step \in steps

Apart == UNCHANGED <<broker, result, asked, budget, face, gen, current, stopping, inputs>>

\* Faulty variant: the signal is not looked at after the credentials are read.
SendAnyway(a) ==
  /\ Flying(a, {"credentials"})
  /\ flights' = [flights EXCEPT ![a].step = "sent"]
  /\ Apart /\ UNCHANGED form

\* The credentials are read, and the signal has not aborted: fetch().
Send(a) ==
  /\ Flying(a, {"credentials"}) /\ ~flights[a].aborted
  /\ flights' = [flights EXCEPT ![a].step = "sent"]
  /\ Apart /\ UNCHANGED form

\* Faulty variant: a late rewrite is not told from the one awaited.
OwnsLate(a) == Mounted /\ form # None

\* The surface goes on after simplify(): the dialog may show another request,
\* another simplification, or be gone.
Owns(a) == Mounted /\ flights[a].gen = gen /\ ~flights[a].aborted /\ form # None

Applied(a) ==
  IF Loading(form) /\ MatchingIdentity(form.of, flights[a].input.of)
  THEN [form EXCEPT !.display = [of |-> flights[a].input.of, by |-> a], !.simp = "simplified"]
  ELSE [form EXCEPT !.simp = "error"]

Land(a) ==
  /\ flights' = [flights EXCEPT ![a].step = "over"] /\ Apart

\* DeepSeek answers with a rewrite of what was sent.
Rewrite(a) ==
  /\ Flying(a, {"sent"}) /\ ~flights[a].aborted
  /\ form' = IF Owns(a) THEN Applied(a) ELSE form
  /\ Land(a)

\* Credentials, request, response or contract fail, or the signal aborted.
Fail(a) ==
  /\ Flying(a, {"credentials", "sent"})
  /\ form' = IF Owns(a) THEN [form EXCEPT !.simp = "error"] ELSE form
  /\ Land(a)

\* The renderer is destroyed: destroy() unsubscribes and dismisses what it shows.
Destroy ==
  /\ Mounted /\ stopping' = "destroyed"
  /\ IF form = None THEN UNCHANGED <<broker, result, dialog>> ELSE Settle(Dismissed, FALSE)
  /\ UNCHANGED <<asked, budget, inputs>>

\* runner.close() closes the tools, and the broker with them.
Close ==
  /\ stopping = "destroyed" /\ stopping' = "closed"
  /\ result' = [r \in Requests |-> IF r \in ToSet(Waiting(broker)) THEN Dismissed ELSE result[r]]
  /\ broker' = Closed(broker)
  /\ UNCHANGED <<dialog, asked, budget, inputs>>
-----------------------------------------------------------------------------
User ==
  \/ \E i \in Options : SelectOption(i)
  \/ \E text \in {"none", "blank", "text"} : TypeCustom(text) \/ TypeGuidance(text)
  \/ \E d \in {-1, 1} : MovePage(d) \/ MoveFocus(d)
  \/ \E page \in 1..7 : SelectTab(page)
  \/ \E x \in Editors : ClickEditor(x)
  \/ ActivateAction
  \/ Escape

Next ==
  \/ User
  \/ \E r \in Requests : Ask(r)
  \/ \E a \in DOMAIN flights : Send(a) \/ Rewrite(a) \/ Fail(a)
  \/ Destroy
  \/ Close

Spec == Init /\ [][Next]_vars
-----------------------------------------------------------------------------
(* Properties *)

\* As long as the surface is mounted the dialog shows the request the broker
\* has active - settled or closed from either side, nothing waits unseen.
DialogFollowsBroker ==
  Shown = IF Mounted THEN broker.active ELSE None

\* Requests are answered in the order of their calls, each by an answer to
\* every one of its questions, and the end of the program leaves none behind.
OldestFirst ==
  \A i, j \in DOMAIN asked :
    i < j /\ result[asked[j]] # None => result[asked[i]] # None

AnswersAreWhole ==
  \A r \in Requests : result[r] # None /\ result[r].outcome = "answered" =>
    \A q \in DOMAIN QuestionsOf[r] :
      /\ Cardinality(result[r].picks[q]) \in (IF QuestionsOf[r][q].multiple THEN Nat ELSE {0, 1})
      /\ result[r].custom[q] => QuestionsOf[r][q].custom
      /\ result[r].picks[q] # {} \/ result[r].custom[q]

EveryAskIsAnswered ==
  /\ OldestFirst /\ AnswersAreWhole
  /\ broker.closed => \A r \in ToSet(asked) : result[r] # None

\* Simplifications that may still send, or return, a text.
Alive == {a \in DOMAIN flights : flights[a].step # "over" /\ ~flights[a].aborted}

\* The text shown is that of the request shown, as written or as rewritten; a
\* dialog that is loading has exactly the rewrite that will end it in flight.
RewritesAreCurrent ==
  /\ form # None => form.display.of = form.of
  /\ Alive = IF form # None /\ Loading(form) THEN {current} ELSE {}
  /\ \A a \in Alive : flights[a].gen = gen /\ flights[a].input.of = Shown

\* Only the text the user sees leaves for DeepSeek, and only for a dialog that
\* is still waiting for it.
OnlyShownIsSent ==
  [][\A a \in DOMAIN flights :
       flights[a].step = "credentials" /\ flights'[a].step = "sent"
       => form # None /\ Loading(form) /\ flights[a].input = Visible(form)]_vars

=============================================================================

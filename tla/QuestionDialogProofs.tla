------------------------ MODULE QuestionDialogProofs ------------------------
(***************************************************************************)
(* The dialog shows the request the broker waits for, a rewrite that comes *)
(* late changes nothing, only the text that is shown leaves, and every     *)
(* call is answered, whole and in its turn: proved for any requests,       *)
(* questions, options and any bounds.                                      *)
(***************************************************************************)
EXTENDS QuestionDialog, FiniteSetTheorems, TLAPS

-----------------------------------------------------------------------------
(* The inductive invariant *)

Brokers == [active : Requests \cup {None}, queue : Seq(Requests), closed : BOOLEAN]
Flights == [input : Displays, gen : Nat, step : {"credentials", "sent", "over"}, aborted : BOOLEAN]

TypeInv ==
  /\ broker \in Brokers
  /\ form # None => form.of \in Requests /\ form \in FormsOf(form.of)
  /\ gen \in Nat /\ current \in Nat
  /\ flights \in Seq(Flights)
  /\ stopping \in {"no", "destroyed", "closed"}

\* What is picked and drafted is what the questions of r allow: the broker
\* refuses anything else (normalizeResult).
Lawful(f, r) ==
  \A q \in 1..Count(r) :
    /\ \/ QuestionsOf[r][q].multiple
       \/ f.picks[q] = {}
       \/ \E i \in Options : f.picks[q] = {i}
    /\ f.draft[q] = "text" => QuestionsOf[r][q].custom

FormIsLawful == form # None => Lawful(form, form.of)

\* What was sent to be rewritten is still what the user sees.
InputIsShown == \A a \in Alive : flights[a].input = Visible(form)

IInv ==
  /\ TypeInv /\ FormIsLawful
  /\ DialogFollowsBroker /\ RewritesAreCurrent /\ InputIsShown

-----------------------------------------------------------------------------
(* The operators *)

\* moveActiveTab never leaves the first page to the left.
LEMMA BoundedFits ==
  ASSUME NEW n \in Int, NEW top \in Int
  PROVE  Bounded(n, top) \in Nat \ {0}
  <1> DEFINE least == CHOOSE x \in {n, top} : \A y \in {n, top} : x =< y
             most(m) == CHOOSE x \in {1, m} : \A y \in {1, m} : x >= y
  <1>1. \E x \in {n, top} : \A y \in {n, top} : x =< y
    <2>1. CASE n =< top  BY <2>1
    <2>2. CASE ~(n =< top)  BY <2>2
    <2> QED BY <2>1, <2>2
  <1>2. least \in {n, top}  BY <1>1
  <1>3. least \in Int  BY <1>2
  <1>4. \E x \in {1, least} : \A y \in {1, least} : x >= y
    <2> HIDE DEF least
    <2>1. CASE 1 >= least  BY <1>3, <2>1
    <2>2. CASE ~(1 >= least)  BY <1>3, <2>2
    <2> QED BY <2>1, <2>2
  <1>5. most(least) \in {1, least} /\ most(least) >= 1
    <2> HIDE DEF least
    <2> QED BY <1>3, <1>4
  <1>6. Bounded(n, top) = most(least)  BY DEF Bounded, Min, Max
  <1> HIDE DEF least, most
  <1> QED BY <1>3, <1>5, <1>6

\* The first form of a request is one, and a lawful one.
LEMMA NewFormFits ==
  ASSUME NEW r \in Requests
  PROVE  /\ NewForm(r) \in FormsOf(r) /\ NewForm(r) # None
         /\ NewForm(r).of = r /\ NewForm(r).display.of = r
         /\ ~Loading(NewForm(r)) /\ Lawful(NewForm(r), r)
  <1>1. NewForm(r) \in FormsOf(r)
    BY DEF NewForm, FormsOf, Displays
  <1>2. NewForm(r) # None  BY <1>1, NoneAssumption
  <1>3. /\ NewForm(r).of = r /\ NewForm(r).display.of = r
        /\ ~Loading(NewForm(r)) /\ Lawful(NewForm(r), r)
    BY DEF NewForm, Loading, Lawful
  <1> QED BY <1>1, <1>2, <1>3

\* Picking an option keeps a form lawful: a single choice is replaced.
LEMMA ToggledFits ==
  ASSUME NEW r \in Requests, NEW f \in FormsOf(r), Lawful(f, r), ~OnConfirm(f), NEW i \in Options
  PROVE  /\ Toggled(f, i) \in FormsOf(r) /\ Lawful(Toggled(f, i), r)
         /\ Toggled(f, i).display = f.display /\ Toggled(f, i).simp = f.simp
         /\ Toggled(f, i).original = f.original
  <1> DEFINE p == f.page
             g == Toggled(f, i)
             multiple == QuestionsOf[r][p].multiple
             new == IF ~multiple THEN {i}
                    ELSE IF i \in f.picks[p] THEN f.picks[p] \ {i} ELSE f.picks[p] \cup {i}
  <1>1. f.of = r /\ Count(r) \in 1..6
    BY RequestsAssumption DEF FormsOf, Count
  <1>2. p \in 1..Count(r)
    BY <1>1 DEF OnConfirm, FormsOf
  <1>3. g = [f EXCEPT !.picks[p] = new]
    BY <1>1 DEF Toggled, Asking
  <1>4. f.picks \in [1..Count(r) -> SUBSET Options]  BY DEF FormsOf
  <1>5. new \in SUBSET Options  BY <1>2, <1>4
  <1>6. [f.picks EXCEPT ![p] = new] \in [1..Count(r) -> SUBSET Options]
    BY <1>4, <1>5
  <1>7. g = [f EXCEPT !.picks = [f.picks EXCEPT ![p] = new]]
    BY <1>3 DEF FormsOf
  <1>8. g \in FormsOf(r) /\ g.picks = [f.picks EXCEPT ![p] = new] /\ g.draft = f.draft
        /\ g.display = f.display /\ g.simp = f.simp /\ g.original = f.original
    <2> HIDE DEF g, new, p
    <2> QED BY <1>6, <1>7 DEF FormsOf
  <1>9. Lawful(g, r)
    <2> SUFFICES ASSUME NEW q \in 1..Count(r)
                 PROVE  /\ \/ QuestionsOf[r][q].multiple
                           \/ g.picks[q] = {}
                           \/ \E j \in Options : g.picks[q] = {j}
                        /\ g.draft[q] = "text" => QuestionsOf[r][q].custom
      BY DEF Lawful
    <2>1. CASE q = p /\ ~multiple
      <3>1. g.picks[q] = {i}  BY <1>4, <1>8, <2>1
      <3> QED BY <3>1, <1>8 DEF Lawful
    <2>2. CASE q = p /\ multiple  BY <1>8, <2>2 DEF Lawful
    <2>3. CASE q # p
      <3>1. g.picks[q] = f.picks[q]  BY <1>4, <1>8, <2>3
      <3> QED BY <3>1, <1>8 DEF Lawful
    <2> QED BY <2>1, <2>2, <2>3
  <1> QED BY <1>8, <1>9

\* What can be composed is never refused by normalizeResult.
LEMMA BuildResultFits ==
  ASSUME NEW r \in Requests, NEW f \in FormsOf(r), Lawful(f, r)
  PROVE  Normal(r, BuildResult(f))
  <1> DEFINE res == BuildResult(f)
  <1>1. f.of = r /\ f.picks \in [1..Count(r) -> SUBSET Options]  BY DEF FormsOf
  <1>2. DOMAIN QuestionsOf[r] = 1..Count(r)  BY RequestsAssumption DEF Count
  <1>3. /\ res.picks = f.picks
        /\ res.custom = [q \in 1..Count(r) |-> f.draft[q] = "text"]
    BY <1>1 DEF BuildResult
  <1> HIDE DEF res
  <1>4. ASSUME NEW q \in 1..Count(r)
        PROVE  /\ QuestionsOf[r][q].multiple \/ Cardinality(res.picks[q]) <= 1
               /\ QuestionsOf[r][q].custom \/ ~res.custom[q]
               /\ res.picks[q] \subseteq Options
    <2>1. QuestionsOf[r][q].multiple \/ Cardinality(f.picks[q]) <= 1
      <3>1. CASE f.picks[q] = {}  BY <3>1, FS_EmptySet
      <3>2. ASSUME NEW j \in Options, f.picks[q] = {j} PROVE Cardinality(f.picks[q]) <= 1
        <4>1. Cardinality({j}) = 1  BY FS_Singleton
        <4> QED BY <3>2, <4>1
      <3> QED BY <3>1, <3>2 DEF Lawful
    <2>2. QuestionsOf[r][q].custom \/ ~res.custom[q]
      BY <1>3 DEF Lawful
    <2> QED BY <1>1, <1>3, <2>1, <2>2
  <1>5. Normal(r, res)  BY <1>1, <1>2, <1>3, <1>4 DEF Normal
  <1> QED BY <1>5 DEF res

LEMMA DismissedFits == ASSUME NEW r \in Requests PROVE Normal(r, Dismissed)
  BY DEF Normal, Dismissed

\* advance() shows the oldest request that waits, and only when none is shown.
LEMMA AdvanceFits ==
  ASSUME NEW b \in Brokers
  PROVE  /\ Advance(b) \in Brokers
         /\ b.active # None => Advance(b) = b
  <1>1. CASE b.closed \/ b.active # None \/ b.queue = <<>>
    BY <1>1 DEF Advance
  <1>2. CASE ~(b.closed \/ b.active # None \/ b.queue = <<>>)
    <2>1. Head(b.queue) \in Requests /\ Tail(b.queue) \in Seq(Requests)
      BY <1>2 DEF Brokers
    <2>2. Advance(b) = [b EXCEPT !.active = Head(b.queue), !.queue = Tail(b.queue)]
      BY <1>2 DEF Advance
    <2> QED BY <1>2, <2>1, <2>2 DEF Brokers
  <1> QED BY <1>1, <1>2

LEMMA SettledFits == ASSUME NEW b \in Brokers PROVE Settled(b) \in Brokers
  <1>1. [b EXCEPT !.active = None] \in Brokers  BY DEF Brokers
  <1> QED BY <1>1, AdvanceFits DEF Settled

LEMMA EnqueuedFits ==
  ASSUME NEW b \in Brokers, NEW r \in Requests
  PROVE  /\ Enqueued(b, r) \in Brokers
         /\ b.active # None => Enqueued(b, r).active = b.active
  <1> DEFINE c == [b EXCEPT !.queue = Append(@, r)]
  <1>1. Append(b.queue, r) \in Seq(Requests)  BY DEF Brokers
  <1>2. c \in Brokers /\ c.active = b.active  BY <1>1 DEF Brokers
  <1>3. Enqueued(b, r) = Advance(c)  BY DEF Enqueued
  <1> HIDE DEF c
  <1> QED BY <1>2, <1>3, AdvanceFits

-----------------------------------------------------------------------------
(* Steps that keep the invariant whatever takes them *)

\* abortSimplification leaves no rewrite alive.
LEMMA AbortClears ==
  ASSUME TypeInv, RewritesAreCurrent, Abort
  PROVE  /\ gen' \in Nat /\ current' \in Nat /\ flights' \in Seq(Flights)
         /\ Alive' = {}
  <1>1. gen' \in Nat /\ current' \in Nat  BY DEF Abort, TypeInv
  <1>2. CASE current = 0
    <2>1. flights' = flights  BY <1>2 DEF Abort
    <2>2. Alive' = Alive  BY <2>1 DEF Alive
    <2>3. 0 \notin Alive  BY DEF Alive, TypeInv
    <2> QED BY <1>1, <1>2, <2>1, <2>2, <2>3 DEF RewritesAreCurrent, TypeInv
  <1>3. CASE current # 0
    <2>1. flights' = [flights EXCEPT ![current].aborted = TRUE]  BY <1>3 DEF Abort
    <2>2. DOMAIN flights' = DOMAIN flights  BY <2>1
    <2>3. ASSUME NEW a \in DOMAIN flights
          PROVE  /\ flights'[a] \in Flights
                 /\ flights'[a].step = flights[a].step
                 /\ flights'[a].aborted = (flights[a].aborted \/ a = current)
      <3>1. flights[a] \in Flights  BY <2>3 DEF TypeInv
      <3>2. CASE a = current
        <4>1. flights'[a] = [flights[a] EXCEPT !.aborted = TRUE]  BY <2>1, <3>2, <2>3
        <4> QED BY <3>1, <3>2, <4>1 DEF Flights
      <3>3. CASE a # current
        <4>1. flights'[a] = flights[a]  BY <2>1, <3>3, <2>3
        <4> QED BY <3>1, <3>3, <4>1 DEF Flights
      <3> QED BY <3>2, <3>3
    <2>4. flights' \in Seq(Flights)
      <3>1. Len(flights) \in Nat /\ DOMAIN flights = 1..Len(flights)  BY DEF TypeInv
      <3>2. flights' \in [1..Len(flights) -> Flights]
        BY <2>1, <2>2, <2>3, <3>1
      <3> QED BY <3>1, <3>2
    <2>5. Alive' = {}
      <3>1. SUFFICES ASSUME NEW a \in Alive' PROVE FALSE  OBVIOUS
      <3>2. a \in DOMAIN flights' /\ flights'[a].step # "over" /\ ~flights'[a].aborted
        BY <3>1 DEF Alive
      <3>3. a \in Alive /\ a # current  BY <2>2, <2>3, <3>2 DEF Alive
      <3> QED BY <3>3 DEF RewritesAreCurrent
    <2> QED BY <1>1, <2>4, <2>5
  <1> QED BY <1>2, <1>3

\* A dialog that opens on the broker's request, or closes when there is none
\* or when the surface is gone, while no rewrite is alive.
LEMMA OpenKeeps ==
  ASSUME IInv, NEW next \in Requests \cup {None}, Open(next), broker' \in Brokers,
         next = IF Mounted' THEN broker'.active ELSE None,
         stopping' \in {"no", "destroyed", "closed"},
         gen' \in Nat, current' \in Nat, flights' \in Seq(Flights), Alive' = {}
  PROVE  IInv'
  <1>1. CASE next = None
    <2>1. form' = None  BY <1>1 DEF Open
    <2> QED BY <1>1, <2>1 DEF IInv, TypeInv, FormIsLawful, DialogFollowsBroker, RewritesAreCurrent, InputIsShown, Shown
  <1>2. CASE next # None
    <2>1. form' = NewForm(next) /\ next \in Requests  BY <1>2 DEF Open
    <2>2. /\ form' \in FormsOf(next) /\ form' # None
          /\ form'.of = next /\ form'.display.of = next
          /\ ~Loading(form') /\ Lawful(form', next)
      BY <2>1, NewFormFits
    <2>3. TypeInv'  BY <2>1, <2>2 DEF TypeInv
    <2>4. FormIsLawful'  BY <2>2 DEF FormIsLawful
    <2>5. DialogFollowsBroker'  BY <2>2 DEF DialogFollowsBroker, Shown
    <2>6. RewritesAreCurrent'  BY <2>2 DEF RewritesAreCurrent
    <2>7. InputIsShown'  BY DEF InputIsShown
    <2> QED BY <2>3, <2>4, <2>5, <2>6, <2>7 DEF IInv
  <1> QED BY <1>1, <1>2

\* A form that is shown belongs to the broker's request, and is mounted.
LEMMA ShownIsActive ==
  ASSUME IInv, form # None
  PROVE  /\ form.of \in Requests /\ form \in FormsOf(form.of) /\ Lawful(form, form.of)
         /\ broker.active = form.of /\ stopping = "no"
  <1>1. form.of \in Requests /\ form \in FormsOf(form.of) /\ Lawful(form, form.of)
    BY DEF IInv, TypeInv, FormIsLawful
  <1>2. Shown = form.of /\ form.of # None  BY <1>1, RequestsAssumption DEF Shown
  <1> QED BY <1>1, <1>2 DEF IInv, DialogFollowsBroker, Mounted

\* settleAnswer and settleDismissal: a result that fits is taken, and what is
\* shown next is what the broker advanced to.
LEMMA SettleKeeps ==
  ASSUME IInv, form # None, NEW res, Normal(form.of, res), NEW listening \in BOOLEAN,
         Settle(res, listening), stopping' \in {"no", "destroyed", "closed"},
         listening <=> Mounted'
  PROVE  IInv'
  <1>1. Accepts(broker, form.of, res)  BY ShownIsActive DEF Accepts
  <1>2. broker' = Settled(broker)  BY <1>1 DEF Settle
  <1>3. broker' \in Brokers  BY <1>2, SettledFits DEF IInv, TypeInv
  <1> DEFINE next == IF listening THEN broker'.active ELSE None
  <1>4. Open(next) /\ Abort  BY <1>1 DEF Settle
  <1>5. next \in Requests \cup {None}  BY <1>3 DEF Brokers
  <1>6. next = IF Mounted' THEN broker'.active ELSE None  OBVIOUS
  <1>7. /\ gen' \in Nat /\ current' \in Nat /\ flights' \in Seq(Flights)
        /\ Alive' = {}
    BY <1>4, AbortClears DEF IInv
  <1> HIDE DEF next
  <1> QED BY <1>3, <1>4, <1>5, <1>6, <1>7, OpenKeeps

\* An edit of the form of the request shown, which waits for a rewrite if and
\* only if it did before.
LEMMA EditKeeps ==
  ASSUME IInv, form # None, NEW f \in FormsOf(form.of), Lawful(f, form.of), form' = f,
         f.display = form.display, Loading(f) <=> Loading(form),
         Loading(form) => f.original = form.original,
         UNCHANGED <<broker, gen, current, flights, stopping>>
  PROVE  IInv'
  <1>1. f.of = form.of /\ f # None /\ form.of \in Requests
    BY ShownIsActive, NoneAssumption DEF FormsOf
  <1>2. Alive' = Alive  BY DEF Alive
  <1>3. TypeInv'  BY <1>1 DEF IInv, TypeInv
  <1>4. FormIsLawful'  BY <1>1 DEF FormIsLawful
  <1>5. DialogFollowsBroker'
    BY <1>1 DEF IInv, DialogFollowsBroker, Shown, Mounted
  <1>6. RewritesAreCurrent'
    BY <1>1, <1>2 DEF IInv, RewritesAreCurrent, Shown
  <1>7. InputIsShown'
    <2> SUFFICES ASSUME NEW a \in Alive PROVE flights[a].input = Visible(f)
      BY <1>2 DEF InputIsShown
    <2>1. Loading(form)  BY DEF IInv, RewritesAreCurrent
    <2>2. Visible(f) = Visible(form)  BY <1>1, <2>1 DEF Visible
    <2> QED BY <2>2 DEF IInv, InputIsShown
  <1> QED BY <1>3, <1>4, <1>5, <1>6, <1>7 DEF IInv

-----------------------------------------------------------------------------
(* Every step keeps the invariant *)

LEMMA InitFits == Init => IInv
  <1> SUFFICES ASSUME Init PROVE IInv  OBVIOUS
  <1>1. TypeInv  BY DEF Init, TypeInv, Brokers, NewBroker
  <1>2. Alive = {}  BY DEF Init, Alive
  <1>3. FormIsLawful /\ DialogFollowsBroker /\ RewritesAreCurrent /\ InputIsShown
    BY <1>2 DEF Init, FormIsLawful, DialogFollowsBroker, RewritesAreCurrent, InputIsShown, Shown, NewBroker
  <1> QED BY <1>1, <1>3 DEF IInv

LEMMA SelectOptionKeeps ==
  ASSUME IInv, NEW i \in Options, SelectOption(i)
  PROVE  IInv'
  <1> DEFINE f == Toggled(form, i)
  <1>1. form # None /\ ~OnConfirm(form) /\ ~Loading(form) /\ UNCHANGED stopping
    BY DEF SelectOption, Input
  <1>2. /\ f \in FormsOf(form.of) /\ Lawful(f, form.of)
        /\ f.display = form.display /\ f.simp = form.simp /\ f.original = form.original
    BY <1>1, ShownIsActive, ToggledFits
  <1>3. \/ Settle(BuildResult(f), TRUE)
        \/ Edit(f, Disarmed)
    BY DEF SelectOption
  <1> HIDE DEF f
  <1>4. CASE Settle(BuildResult(f), TRUE)
    <2>1. Normal(form.of, BuildResult(f))  BY <1>1, <1>2, ShownIsActive, BuildResultFits
    <2>2. Mounted' /\ stopping' \in {"no", "destroyed", "closed"}
      BY <1>1, ShownIsActive DEF Mounted
    <2> QED BY <1>1, <1>4, <2>1, <2>2, SettleKeeps
  <1>5. CASE Edit(f, Disarmed)
    <2>1. form' = f /\ UNCHANGED <<broker, gen, current, flights>>  BY <1>5 DEF Edit
    <2>2. Loading(f) <=> Loading(form)  BY <1>2 DEF Loading
    <2> QED BY <1>1, <1>2, <2>1, <2>2, EditKeeps
  <1> QED BY <1>3, <1>4, <1>5

\* Text goes into the draft of a question that takes a custom answer only.
LEMMA TypeCustomKeeps ==
  ASSUME IInv, NEW text \in {"none", "blank", "text"}, TypeCustom(text)
  PROVE  IInv'
  <1> DEFINE r == form.of
             d == [form.draft EXCEPT ![form.page] = text]
             f == IF Asking(form).custom THEN [form EXCEPT !.draft = d] ELSE form
  <1>1. form # None /\ ~OnConfirm(form) /\ UNCHANGED stopping
    BY DEF TypeCustom, Input
  <1>2. r \in Requests /\ form \in FormsOf(r) /\ Lawful(form, r)
    BY <1>1, ShownIsActive
  <1>3. form.page \in 1..Count(r) /\ Asking(form) = QuestionsOf[r][form.page]
    <2>1. Count(r) \in 1..6  BY <1>2, RequestsAssumption DEF Count
    <2> QED BY <1>1, <1>2, <2>1 DEF OnConfirm, FormsOf, Asking
  <1>4. d \in [1..Count(r) -> {"none", "blank", "text"}]  BY <1>2 DEF FormsOf
  <1>5. form' = f /\ UNCHANGED <<broker, gen, current, flights>>
    BY <1>2 DEF TypeCustom, Edit, FormsOf
  <1>6. /\ f \in FormsOf(r) /\ f.display = form.display /\ f.simp = form.simp
        /\ f.original = form.original /\ f.picks = form.picks
        /\ f.draft = IF Asking(form).custom THEN d ELSE form.draft
    <2> HIDE DEF d, r
    <2> QED BY <1>2, <1>4 DEF FormsOf
  <1>7. Lawful(f, r)
    <2> SUFFICES ASSUME NEW q \in 1..Count(r)
                 PROVE  /\ \/ QuestionsOf[r][q].multiple
                           \/ f.picks[q] = {}
                           \/ \E j \in Options : f.picks[q] = {j}
                        /\ f.draft[q] = "text" => QuestionsOf[r][q].custom
      BY DEF Lawful
    <2>1. f.draft[q] = form.draft[q] \/ (q = form.page /\ Asking(form).custom)
      <3> HIDE DEF f
      <3>1. form.draft \in [1..Count(r) -> {"none", "blank", "text"}]  BY <1>2 DEF FormsOf
      <3>2. q # form.page => d[q] = form.draft[q]  BY <3>1
      <3> QED BY <1>3, <1>6, <3>2
    <2> HIDE DEF f
    <2> QED BY <1>2, <1>3, <1>6, <2>1 DEF Lawful
  <1> HIDE DEF f, r
  <1>8. Loading(f) <=> Loading(form)  BY <1>6 DEF Loading
  <1> QED BY <1>1, <1>5, <1>6, <1>7, <1>8, EditKeeps DEF r

LEMMA TypeGuidanceKeeps ==
  ASSUME IInv, NEW text \in {"none", "blank", "text"}, TypeGuidance(text)
  PROVE  IInv'
  <1> DEFINE f == IF OnConfirm(form) THEN [form EXCEPT !.guidance = text] ELSE form
  <1>1. form # None /\ UNCHANGED stopping  BY DEF TypeGuidance, Input
  <1>2. form \in FormsOf(form.of) /\ Lawful(form, form.of)  BY <1>1, ShownIsActive
  <1>3. form' = f /\ UNCHANGED <<broker, gen, current, flights>>  BY DEF TypeGuidance, Edit
  <1>4. /\ f \in FormsOf(form.of) /\ f.display = form.display /\ f.simp = form.simp
        /\ f.original = form.original /\ f.picks = form.picks /\ f.draft = form.draft
    BY <1>2 DEF FormsOf
  <1> HIDE DEF f
  <1>5. Lawful(f, form.of) /\ (Loading(f) <=> Loading(form))
    BY <1>2, <1>4 DEF Lawful, Loading
  <1> QED BY <1>1, <1>3, <1>4, <1>5, EditKeeps

\* Every way to turn the page: keys, tabs and Next.
LEMMA TurnToKeeps ==
  ASSUME IInv, form # None, NEW page \in Int, TurnTo(page), UNCHANGED stopping
  PROVE  IInv'
  <1> DEFINE p == Bounded(page, Cardinality(Pages(form.of)))
             f == [form EXCEPT !.page = p]
  <1>1. form.of \in Requests /\ form \in FormsOf(form.of) /\ Lawful(form, form.of)
    BY ShownIsActive
  <1>2. Cardinality(Pages(form.of)) \in Int
    <2>1. Count(form.of) \in Int  BY <1>1, RequestsAssumption DEF Count
    <2> DEFINE n == IF Tabbed(form.of) THEN Count(form.of) + 1 ELSE Count(form.of)
    <2>2. n \in Int  BY <2>1
    <2> HIDE DEF n
    <2>3. Cardinality(1..n) \in Int  BY <2>2, FS_Interval
    <2> QED BY <2>3 DEF Pages, n
  <1>3. p \in Nat \ {0}  BY <1>2, BoundedFits
  <1>4. form' = f /\ UNCHANGED <<broker, gen, current, flights>>  BY DEF TurnTo, Edit
  <1> HIDE DEF p
  <1>5. /\ f \in FormsOf(form.of) /\ f.display = form.display /\ f.simp = form.simp
        /\ f.original = form.original /\ f.picks = form.picks /\ f.draft = form.draft
    BY <1>1, <1>3 DEF FormsOf
  <1> HIDE DEF f
  <1>6. Lawful(f, form.of) /\ (Loading(f) <=> Loading(form))
    BY <1>1, <1>5 DEF Lawful, Loading
  <1> QED BY <1>4, <1>5, <1>6, EditKeeps

\* Steps that move the focus only.
LEMMA FocusKeeps ==
  ASSUME IInv, form # None, NEW fc, Edit(form, fc), UNCHANGED stopping
  PROVE  IInv'
  <1>1. form' = form /\ UNCHANGED <<broker, gen, current, flights>>  BY DEF Edit
  <1> QED BY <1>1, ShownIsActive, EditKeeps

\* Simplify gives up the rewrite before it and sends the text that is shown.
LEMMA SimplifyKeeps ==
  ASSUME IInv, form # None, Simplify, UNCHANGED stopping
  PROVE  IInv'
  <1>1. /\ form.of \in Requests /\ form \in FormsOf(form.of) /\ Lawful(form, form.of)
        /\ broker.active = form.of /\ stopping = "no"
    BY ShownIsActive
  <1>2. ~Loading(form) /\ Alive = {}
    BY DEF Simplify, ActionEnabled, IInv, RewritesAreCurrent
  <1>3. CASE ~budget.simplifier
    <2> DEFINE f == [form EXCEPT !.simp = "error"]
    <2>1. form' = f /\ UNCHANGED <<broker, gen, current, flights>>
      BY <1>3 DEF Simplify, Edit
    <2>2. /\ f \in FormsOf(form.of) /\ f.display = form.display /\ f.simp = "error"
          /\ f.original = form.original /\ f.picks = form.picks /\ f.draft = form.draft
      BY <1>1 DEF FormsOf
    <2> HIDE DEF f
    <2>3. Lawful(f, form.of) /\ ~Loading(f)  BY <1>1, <2>2 DEF Lawful, Loading
    <2> QED BY <1>2, <2>1, <2>2, <2>3, EditKeeps
  <1>4. CASE budget.simplifier
    <2> DEFINE old == IF current = 0 THEN flights ELSE [flights EXCEPT ![current].aborted = TRUE]
               new == [input |-> Visible(form), gen |-> gen + 1, step |-> "credentials", aborted |-> FALSE]
               f   == [form EXCEPT !.simp = "loading"]
    <2>1. /\ gen' = gen + 1 /\ current' = Len(flights) + 1 /\ flights' = Append(old, new)
          /\ form' = f /\ UNCHANGED <<broker, stopping>>
      BY <1>4 DEF Simplify
    <2>2. /\ f \in FormsOf(form.of) /\ f.display = form.display /\ f.simp = "loading"
          /\ f.original = form.original /\ f.picks = form.picks /\ f.draft = form.draft
          /\ f.of = form.of /\ f # None
      <3>1. /\ f \in FormsOf(form.of) /\ f.display = form.display /\ f.simp = "loading"
            /\ f.original = form.original /\ f.picks = form.picks /\ f.draft = form.draft
            /\ f.of = form.of
        BY <1>1 DEF FormsOf
      <3> QED BY <1>1, <3>1, NoneAssumption
    <2> HIDE DEF f
    <2>3. Visible(f) = Visible(form)  BY <2>2 DEF Visible
    <2>4. Visible(form) \in Displays /\ Visible(form).of = form.of
      BY <1>1 DEF Visible, FormsOf, Displays, IInv, RewritesAreCurrent
    <2>5. new \in Flights  BY <2>4 DEF Flights, IInv, TypeInv
    <2>6. /\ old \in Seq(Flights) /\ Len(old) = Len(flights)
          /\ \A a \in DOMAIN old : old[a].step = "over" \/ old[a].aborted
      <3>1. CASE current = 0
        <4>1. old = flights  BY <3>1
        <4> QED BY <1>2, <4>1 DEF IInv, TypeInv, Alive
      <3>2. CASE current # 0
        <4>1. old = [flights EXCEPT ![current].aborted = TRUE]  BY <3>2
        <4>2. Len(flights) \in Nat /\ DOMAIN flights = 1..Len(flights) /\ DOMAIN old = DOMAIN flights
          BY <4>1 DEF IInv, TypeInv
        <4>3. ASSUME NEW a \in DOMAIN flights
              PROVE  old[a] \in Flights /\ (old[a].step = "over" \/ old[a].aborted)
          <5>1. flights[a] \in Flights /\ (flights[a].step = "over" \/ flights[a].aborted)
            BY <1>2 DEF IInv, TypeInv, Alive
          <5>2. CASE a = current
            <6>1. old[a] = [flights[a] EXCEPT !.aborted = TRUE]  BY <4>1, <5>2
            <6> QED BY <5>1, <6>1 DEF Flights
          <5>3. CASE a # current
            <6>1. old[a] = flights[a]  BY <4>1, <5>3
            <6> QED BY <5>1, <6>1
          <5> QED BY <5>2, <5>3
        <4>4. old \in [1..Len(flights) -> Flights]  BY <4>1, <4>2, <4>3
        <4> HIDE DEF old
        <4>5. old \in Seq(Flights) /\ Len(old) = Len(flights)  BY <4>2, <4>4
        <4> QED BY <4>2, <4>3, <4>5
      <3> QED BY <3>1, <3>2
    <2> DEFINE n == Len(flights) + 1
    <2> HIDE DEF old, new
    <2>7. /\ flights' \in Seq(Flights) /\ DOMAIN flights' = 1..n /\ flights'[n] = new
          /\ \A a \in 1..n : a # n => a \in DOMAIN old /\ flights'[a] = old[a]
      BY <2>1, <2>5, <2>6
    <2>8. n \in Nat /\ n \in 1..n  BY DEF IInv, TypeInv
    <2> HIDE DEF n
    <2>9. Alive' = {n}
      <3>1. n \in Alive'  BY <2>7, <2>8 DEF Alive, new
      <3>2. ASSUME NEW a \in Alive', a # n PROVE FALSE
        BY <2>6, <2>7, <3>2 DEF Alive
      <3> QED BY <3>1, <3>2
    <2>10. TypeInv'
      BY <1>1, <2>1, <2>2, <2>7, <2>8 DEF IInv, TypeInv, n
    <2>11. FormIsLawful'  BY <1>1, <2>1, <2>2 DEF FormIsLawful, Lawful
    <2>12. DialogFollowsBroker'
      BY <1>1, <2>1, <2>2 DEF DialogFollowsBroker, Shown, Mounted
    <2>13. RewritesAreCurrent'
      <3>1. new.gen = gen + 1 /\ new.input.of = form.of  BY <2>4 DEF new
      <3>2. form'.display.of = form'.of  BY <2>1, <2>2 DEF IInv, RewritesAreCurrent
      <3>3. Loading(form') /\ form' # None /\ Shown' = form.of
        BY <2>1, <2>2 DEF Loading, Shown
      <3>4. current' = n  BY <2>1 DEF n
      <3> QED BY <2>1, <2>7, <2>9, <3>1, <3>2, <3>3, <3>4 DEF RewritesAreCurrent
    <2>14. InputIsShown'
      <3>1. new.input = Visible(form)  BY DEF new
      <3>2. Visible(form)' = Visible(form)  BY <2>1, <2>3
      <3> QED BY <2>7, <2>9, <3>1, <3>2 DEF InputIsShown
    <2> QED BY <2>10, <2>11, <2>12, <2>13, <2>14 DEF IInv
  <1> QED BY <1>3, <1>4

\* A toggle cannot touch the text a rewrite waits for: it is disabled then.
LEMMA ShowOriginalKeeps ==
  ASSUME IInv, form # None, ShowOriginal, UNCHANGED stopping
  PROVE  IInv'
  <1> DEFINE f == [form EXCEPT !.original = ~@]
  <1>1. form \in FormsOf(form.of) /\ Lawful(form, form.of)  BY ShownIsActive
  <1>2. form.simp = "simplified" /\ ~Loading(form)
    BY DEF ShowOriginal, ActionEnabled, Loading
  <1>3. form' = f /\ UNCHANGED <<broker, gen, current, flights>>
    BY DEF ShowOriginal, Edit
  <1>4. /\ f \in FormsOf(form.of) /\ f.display = form.display /\ f.simp = form.simp
        /\ f.picks = form.picks /\ f.draft = form.draft
    BY <1>1 DEF FormsOf
  <1> HIDE DEF f
  <1>5. Lawful(f, form.of) /\ ~Loading(f)
    BY <1>1, <1>2, <1>4 DEF Lawful, Loading
  <1> QED BY <1>2, <1>3, <1>4, <1>5, EditKeeps

LEMMA DismissKeeps ==
  ASSUME IInv, form # None, Settle(Dismissed, TRUE), UNCHANGED stopping
  PROVE  IInv'
  <1>1. form.of \in Requests /\ stopping = "no"  BY ShownIsActive
  <1> QED BY <1>1, DismissedFits, SettleKeeps DEF Mounted

LEMMA ActivateActionKeeps ==
  ASSUME IInv, ActivateAction
  PROVE  IInv'
  <1>1. form # None /\ UNCHANGED stopping  BY DEF ActivateAction, Input
  <1>2. CASE Simplify  BY <1>1, <1>2, SimplifyKeeps
  <1>3. CASE ShowOriginal  BY <1>1, <1>3, ShowOriginalKeeps
  <1>4. CASE NextQuestion
    <2>1. CASE Edit(form, Disarmed)  BY <1>1, <2>1, FocusKeeps
    <2>2. CASE TurnTo(form.page + 1)
      <3>1. form.page + 1 \in Int  BY <1>1, ShownIsActive DEF FormsOf
      <3> QED BY <1>1, <2>2, <3>1, TurnToKeeps
    <2> QED BY <1>4, <2>1, <2>2 DEF NextQuestion
  <1>5. CASE Submit
    <2>1. /\ form.of \in Requests /\ form \in FormsOf(form.of) /\ Lawful(form, form.of)
          /\ stopping = "no"
      BY <1>1, ShownIsActive
    <2>2. Normal(form.of, BuildResult(form))  BY <2>1, BuildResultFits
    <2>3. Settle(BuildResult(form), TRUE)  BY <1>5 DEF Submit
    <2> QED BY <1>1, <2>1, <2>2, <2>3, SettleKeeps DEF Mounted
  <1>6. CASE Settle(Dismissed, TRUE)  BY <1>1, <1>6, DismissKeeps
  <1> QED BY <1>2, <1>3, <1>4, <1>5, <1>6 DEF ActivateAction

LEMMA UserKeeps ==
  ASSUME IInv, User
  PROVE  IInv'
  <1>1. ASSUME NEW i \in Options, SelectOption(i) PROVE IInv'
    BY <1>1, SelectOptionKeeps
  <1>2. ASSUME NEW text \in {"none", "blank", "text"}, TypeCustom(text) \/ TypeGuidance(text) PROVE IInv'
    BY <1>2, TypeCustomKeeps, TypeGuidanceKeeps
  <1>3. ASSUME NEW d \in {-1, 1}, MovePage(d) PROVE IInv'
    <2>1. form # None /\ UNCHANGED stopping /\ TurnTo(form.page + d)
      BY <1>3 DEF MovePage, Input
    <2>2. form.page + d \in Int  BY <2>1, ShownIsActive DEF FormsOf
    <2> QED BY <2>1, <2>2, TurnToKeeps
  <1>4. ASSUME NEW d \in {-1, 1}, MoveFocus(d) PROVE IInv'
    BY <1>4, FocusKeeps DEF MoveFocus, Input
  <1>5. ASSUME NEW page \in 1..7, SelectTab(page) PROVE IInv'
    BY <1>5, TurnToKeeps DEF SelectTab, Input
  <1>6. ASSUME NEW x \in Editors, ClickEditor(x) PROVE IInv'
    BY <1>6, FocusKeeps DEF ClickEditor, Input
  <1>7. CASE ActivateAction  BY <1>7, ActivateActionKeeps
  <1>8. CASE Escape
    <2>1. form # None /\ UNCHANGED stopping  BY <1>8 DEF Escape, Input
    <2>2. Settle(Dismissed, TRUE) \/ \E fc : Edit(form, fc)  BY <1>8 DEF Escape
    <2> QED BY <2>1, <2>2, DismissKeeps, FocusKeeps
  <1> QED BY <1>1, <1>2, <1>3, <1>4, <1>5, <1>6, <1>7, <1>8 DEF User

\* A request that comes first is shown at once; any other waits.
LEMMA AskKeeps ==
  ASSUME IInv, NEW r \in Requests, Ask(r)
  PROVE  IInv'
  <1>1. UNCHANGED stopping  BY DEF Ask
  <1>2. CASE UNCHANGED <<broker, dialog>>
    BY <1>1, <1>2 DEF dialog, IInv, TypeInv, FormIsLawful, DialogFollowsBroker, RewritesAreCurrent,
       InputIsShown, Shown, Mounted, Alive
  <1>3. CASE ~UNCHANGED <<broker, dialog>>
    <2>1. broker' = Enqueued(broker, r)  BY <1>3 DEF Ask
    <2>2. broker' \in Brokers /\ (broker.active # None => broker'.active = broker.active)
      BY <2>1, EnqueuedFits DEF IInv, TypeInv
    <2>3. CASE broker.active = None /\ Mounted
      <3>1. Told(broker'.active)  BY <1>3, <2>3 DEF Ask
      <3>2. form = None /\ Alive = {}
        <4>1. Shown = None  BY <2>3 DEF IInv, DialogFollowsBroker
        <4>2. form = None  BY <2>3, ShownIsActive, RequestsAssumption
        <4> QED BY <4>2 DEF IInv, RewritesAreCurrent
      <3>3. UNCHANGED <<gen, current, flights>>
        BY <3>1, <3>2 DEF Told, dialog
      <3>4. Open(broker'.active)
        <4>1. CASE broker'.active = Shown
          BY <3>1, <3>2, <4>1 DEF Told, dialog, Open, Shown
        <4>2. CASE broker'.active # Shown  BY <3>1, <4>2 DEF Told
        <4> QED BY <4>1, <4>2
      <3>5. broker'.active \in Requests \cup {None}  BY <2>2 DEF Brokers
      <3>6. Mounted' /\ Alive' = {}  BY <1>1, <2>3, <3>2, <3>3 DEF Mounted, Alive
      <3>7. /\ stopping' \in {"no", "destroyed", "closed"}
            /\ gen' \in Nat /\ current' \in Nat /\ flights' \in Seq(Flights)
        BY <1>1, <3>3 DEF IInv, TypeInv
      <3> QED BY <2>2, <3>4, <3>5, <3>6, <3>7, OpenKeeps
    <2>4. CASE ~(broker.active = None /\ Mounted)
      <3>1. UNCHANGED <<form, gen, current, flights>>
        BY <1>3, <2>4 DEF Ask, dialog
      <3>2. Mounted => broker'.active = broker.active  BY <2>2, <2>4
      <3>3. DialogFollowsBroker'
        BY <1>1, <3>1, <3>2 DEF IInv, DialogFollowsBroker, Shown, Mounted
      <3> QED BY <1>1, <2>2, <3>1, <3>3 DEF IInv, TypeInv, FormIsLawful, RewritesAreCurrent,
             InputIsShown, Shown, Alive
    <2> QED BY <2>3, <2>4
  <1> QED BY <1>2, <1>3

\* One flight moves on: what is alive afterwards was alive before.
LEMMA StepOfFlight ==
  ASSUME TypeInv, NEW a \in DOMAIN flights, NEW s \in {"sent", "over"}, flights[a].step # "over",
         flights' = [flights EXCEPT ![a].step = s]
  PROVE  /\ flights' \in Seq(Flights)
         /\ Alive' = IF s = "over" THEN Alive \ {a} ELSE Alive
         /\ DOMAIN flights' = DOMAIN flights
         /\ \A b \in DOMAIN flights :
              flights'[b].input = flights[b].input /\ flights'[b].gen = flights[b].gen
  <1>1. DOMAIN flights' = DOMAIN flights  OBVIOUS
  <1>2. ASSUME NEW b \in DOMAIN flights
        PROVE  /\ flights'[b] \in Flights
               /\ flights'[b].input = flights[b].input /\ flights'[b].gen = flights[b].gen
               /\ flights'[b].aborted = flights[b].aborted
               /\ flights'[b].step = IF b = a THEN s ELSE flights[b].step
    <2>1. flights[b] \in Flights  BY <1>2 DEF TypeInv
    <2>2. CASE b = a
      <3>1. flights'[b] = [flights[b] EXCEPT !.step = s]  BY <1>2, <2>2
      <3> QED BY <2>1, <2>2, <3>1 DEF Flights
    <2>3. CASE b # a
      <3>1. flights'[b] = flights[b]  BY <1>2, <2>3
      <3> QED BY <2>1, <2>3, <3>1
    <2> QED BY <2>2, <2>3
  <1>3. flights' \in Seq(Flights)
    <2>1. Len(flights) \in Nat /\ DOMAIN flights = 1..Len(flights)  BY DEF TypeInv
    <2> DEFINE after == flights'
    <2>2. \A b \in DOMAIN flights : after[b] \in Flights  BY <1>2
    <2>3. DOMAIN after = 1..Len(flights)  BY <1>1, <2>1
    <2>4. after = [b \in DOMAIN after |-> after[b]]
      <3>1. after = [flights EXCEPT ![a].step = s]  OBVIOUS
      <3> QED BY <3>1
    <2> HIDE DEF after
    <2>5. after \in [1..Len(flights) -> Flights]  BY <2>1, <2>2, <2>3, <2>4
    <2>6. after \in Seq(Flights)  BY <2>1, <2>5
    <2> QED BY <2>6 DEF after
  <1>4. Alive' = IF s = "over" THEN Alive \ {a} ELSE Alive
    <2>1. ASSUME NEW b PROVE b \in Alive' <=> b \in (IF s = "over" THEN Alive \ {a} ELSE Alive)
      <3>1. b \in Alive' <=> b \in DOMAIN flights /\ flights'[b].step # "over" /\ ~flights'[b].aborted
        BY <1>1 DEF Alive
      <3>2. b \in Alive <=> b \in DOMAIN flights /\ flights[b].step # "over" /\ ~flights[b].aborted
        BY DEF Alive
      <3> QED BY <1>2, <3>1, <3>2
    <2> QED BY <2>1
  <1> QED BY <1>1, <1>2, <1>3, <1>4

LEMMA SendKeeps ==
  ASSUME IInv, NEW a \in DOMAIN flights, Send(a)
  PROVE  IInv'
  <1>1. /\ flights[a].step # "over" /\ flights' = [flights EXCEPT ![a].step = "sent"]
        /\ UNCHANGED <<broker, form, gen, current, stopping>>
    BY DEF Send, Flying, Apart
  <1>2. /\ flights' \in Seq(Flights) /\ Alive' = Alive
        /\ \A b \in Alive : flights'[b].input = flights[b].input /\ flights'[b].gen = flights[b].gen
    BY <1>1, StepOfFlight DEF IInv, Alive
  <1>3. TypeInv'  BY <1>1, <1>2 DEF IInv, TypeInv
  <1>4. RewritesAreCurrent'  BY <1>1, <1>2 DEF IInv, RewritesAreCurrent, Shown
  <1>5. InputIsShown'  BY <1>1, <1>2 DEF IInv, InputIsShown
  <1> QED BY <1>1, <1>3, <1>4, <1>5 DEF IInv, FormIsLawful, DialogFollowsBroker, Shown, Mounted

\* The flight that ends was given up, or it is the one the dialog waits for.
LEMMA LandKeeps ==
  ASSUME IInv, NEW a \in DOMAIN flights, Rewrite(a) \/ Fail(a)
  PROVE  IInv'
  <1>1. /\ flights[a].step # "over" /\ flights' = [flights EXCEPT ![a].step = "over"]
        /\ UNCHANGED <<broker, gen, current, stopping>>
    BY DEF Rewrite, Fail, Land, Flying, Apart
  <1>2. /\ flights' \in Seq(Flights) /\ Alive' = Alive \ {a}
        /\ \A b \in Alive : flights'[b].input = flights[b].input /\ flights'[b].gen = flights[b].gen
    BY <1>1, StepOfFlight DEF IInv, Alive
  <1>3. CASE ~Owns(a)
    <2>1. form' = form  BY <1>3 DEF Rewrite, Fail
    <2>2. a \notin Alive
      <3>1. SUFFICES ASSUME a \in Alive PROVE FALSE  OBVIOUS
      <3>2. form # None /\ flights[a].gen = gen  BY <3>1 DEF IInv, RewritesAreCurrent
      <3>3. Mounted  BY <3>2, ShownIsActive DEF Mounted
      <3> QED BY <1>3, <3>1, <3>2, <3>3 DEF Owns, Alive
    <2>3. Alive' = Alive  BY <1>2, <2>2
    <2>4. TypeInv'  BY <1>1, <1>2, <2>1 DEF IInv, TypeInv
    <2>5. RewritesAreCurrent'  BY <1>1, <1>2, <2>1, <2>3 DEF IInv, RewritesAreCurrent, Shown
    <2>6. InputIsShown'  BY <1>1, <1>2, <2>1, <2>3 DEF IInv, InputIsShown
    <2> QED BY <1>1, <2>1, <2>4, <2>5, <2>6 DEF IInv, FormIsLawful, DialogFollowsBroker, Shown, Mounted
  <1>4. CASE Owns(a)
    <2>1. form # None /\ a \in Alive  BY <1>1, <1>4 DEF Owns, Alive
    <2>2. /\ form.of \in Requests /\ form \in FormsOf(form.of) /\ Lawful(form, form.of)
          /\ stopping = "no" /\ broker.active = form.of
      BY <2>1, ShownIsActive
    <2>3. Alive' = {} /\ flights[a].input.of = form.of /\ form.display.of = form.of
      BY <1>2, <2>1 DEF IInv, RewritesAreCurrent, Shown
    <2>4. /\ form' \in FormsOf(form.of) /\ form'.picks = form.picks /\ form'.draft = form.draft
          /\ form'.display.of = form.of /\ form'.simp \in {"simplified", "error"}
      <3> DEFINE g == [form EXCEPT !.display = [of |-> flights[a].input.of, by |-> a], !.simp = "simplified"]
                 h == [form EXCEPT !.simp = "error"]
      <3>1. form' = g \/ form' = h
        BY <1>4 DEF Rewrite, Fail, Applied
      <3>2. a \in Nat  BY DEF IInv, TypeInv
      <3>3. [of |-> flights[a].input.of, by |-> a] \in Displays
        BY <2>2, <2>3, <3>2 DEF Displays
      <3>4. CASE form' = g
        <4>1. /\ g \in FormsOf(form.of) /\ g.picks = form.picks /\ g.draft = form.draft
              /\ g.display = [of |-> flights[a].input.of, by |-> a] /\ g.simp = "simplified"
          BY <2>2, <3>3 DEF FormsOf
        <4> HIDE DEF g
        <4> QED BY <2>3, <3>4, <4>1
      <3>5. CASE form' = h
        <4>1. /\ h \in FormsOf(form.of) /\ h.picks = form.picks /\ h.draft = form.draft
              /\ h.display = form.display /\ h.simp = "error"
          BY <2>2 DEF FormsOf
        <4> HIDE DEF h
        <4> QED BY <2>3, <3>5, <4>1
      <3> QED BY <3>1, <3>4, <3>5
    <2>5. form'.of = form.of /\ form' # None /\ ~Loading(form')
      BY <2>2, <2>4, NoneAssumption DEF FormsOf, Loading
    <2>6. TypeInv'  BY <1>1, <1>2, <2>2, <2>4, <2>5 DEF IInv, TypeInv
    <2>7. FormIsLawful'  BY <2>2, <2>4, <2>5 DEF FormIsLawful, Lawful
    <2>8. DialogFollowsBroker'  BY <1>1, <2>2, <2>5 DEF DialogFollowsBroker, Shown, Mounted
    <2>9. RewritesAreCurrent'  BY <2>3, <2>4, <2>5 DEF RewritesAreCurrent
    <2>10. InputIsShown'  BY <2>3 DEF InputIsShown
    <2> QED BY <2>6, <2>7, <2>8, <2>9, <2>10 DEF IInv
  <1> QED BY <1>3, <1>4

LEMMA DestroyKeeps ==
  ASSUME IInv, Destroy
  PROVE  IInv'
  <1>1. stopping' = "destroyed" /\ ~Mounted'  BY DEF Destroy, Mounted
  <1>2. CASE form = None
    <2>1. UNCHANGED <<broker, form, gen, current, flights>>  BY <1>2 DEF Destroy, dialog
    <2>2. DialogFollowsBroker'  BY <1>1, <1>2, <2>1 DEF DialogFollowsBroker, Shown
    <2> QED BY <1>1, <2>1, <2>2 DEF IInv, TypeInv, FormIsLawful, RewritesAreCurrent, InputIsShown, Shown, Alive
  <1>3. CASE form # None
    <2>1. Settle(Dismissed, FALSE)  BY <1>3 DEF Destroy
    <2>2. form.of \in Requests  BY <1>3, ShownIsActive
    <2> QED BY <1>1, <1>3, <2>1, <2>2, DismissedFits, SettleKeeps
  <1> QED BY <1>2, <1>3

LEMMA CloseKeeps ==
  ASSUME IInv, Close
  PROVE  IInv'
  <1>1. /\ broker' = Closed(broker) /\ stopping = "destroyed" /\ stopping' = "closed"
        /\ UNCHANGED <<form, gen, current, flights>>
    BY DEF Close, dialog
  <1>2. broker' \in Brokers  BY <1>1 DEF Closed, Brokers
  <1>3. DialogFollowsBroker'
    BY <1>1 DEF IInv, DialogFollowsBroker, Shown, Mounted
  <1> QED BY <1>1, <1>2, <1>3 DEF IInv, TypeInv, FormIsLawful, RewritesAreCurrent, InputIsShown, Shown, Alive

LEMMA NextKeeps == IInv /\ [Next]_vars => IInv'
  <1> SUFFICES ASSUME IInv, [Next]_vars PROVE IInv'  OBVIOUS
  <1>1. CASE User  BY <1>1, UserKeeps
  <1>2. CASE \E r \in Requests : Ask(r)  BY <1>2, AskKeeps
  <1>3. CASE \E a \in DOMAIN flights : Send(a) \/ Rewrite(a) \/ Fail(a)
    BY <1>3, SendKeeps, LandKeeps
  <1>4. CASE Destroy  BY <1>4, DestroyKeeps
  <1>5. CASE Close  BY <1>5, CloseKeeps
  <1>6. CASE UNCHANGED vars
    BY <1>6 DEF vars, dialog, IInv, TypeInv, FormIsLawful, DialogFollowsBroker, RewritesAreCurrent,
       InputIsShown, Shown, Mounted, Alive
  <1> QED BY <1>1, <1>2, <1>3, <1>4, <1>5, <1>6 DEF Next

-----------------------------------------------------------------------------
(* The theorems *)

\* The strengthened invariant holds in every reachable state.
THEOREM DialogInvariance == Spec => []IInv
  BY InitFits, NextKeeps, PTL DEF Spec

\* As long as it is mounted the dialog shows the request the broker waits for
\* (surface.ts and broker.ts call each other).
THEOREM DialogIsFaithful == Spec => []DialogFollowsBroker
  <1>1. IInv => DialogFollowsBroker  BY DEF IInv
  <1> QED BY <1>1, DialogInvariance, PTL

\* A dialog that is loading waits for exactly one rewrite, and no late one is
\* ever shown (the continuation in surface.ts).
THEOREM LateRewritesAreDropped == Spec => []RewritesAreCurrent
  <1>1. IInv => RewritesAreCurrent  BY DEF IInv
  <1> QED BY <1>1, DialogInvariance, PTL

\* Giving a rewrite up does not move it on.
LEMMA AbortedSteps ==
  ASSUME TypeInv, NEW a \in DOMAIN flights, NEW c
  PROVE  [flights EXCEPT ![c].aborted = TRUE][a].step = flights[a].step
  <1>1. flights[a] \in Flights  BY DEF TypeInv
  <1>2. CASE a = c
    <2>1. [flights EXCEPT ![c].aborted = TRUE][a] = [flights[a] EXCEPT !.aborted = TRUE]  BY <1>2
    <2> QED BY <1>1, <2>1 DEF Flights
  <1>3. CASE a # c  BY <1>3
  <1> QED BY <1>2, <1>3

LEMMA AbortSteps ==
  ASSUME TypeInv, Abort, NEW a \in DOMAIN flights
  PROVE  flights'[a].step = flights[a].step
  <1>1. CASE current = 0  BY <1>1 DEF Abort
  <1>2. CASE current # 0  BY <1>2, AbortedSteps DEF Abort
  <1> QED BY <1>1, <1>2

LEMMA SimplifySteps ==
  ASSUME TypeInv, Simplify, NEW a \in DOMAIN flights
  PROVE  flights'[a].step = flights[a].step
  <1>1. CASE ~budget.simplifier  BY <1>1 DEF Simplify, Edit
  <1>2. CASE budget.simplifier
    <2> DEFINE old == IF current = 0 THEN flights ELSE [flights EXCEPT ![current].aborted = TRUE]
               new == [input |-> Visible(form), gen |-> gen', step |-> "credentials", aborted |-> FALSE]
    <2>1. flights' = Append(old, new)  BY <1>2 DEF Simplify
    <2>2. old[a].step = flights[a].step  BY AbortedSteps
    <2>3. DOMAIN old = DOMAIN flights  OBVIOUS
    <2>4. DOMAIN flights = 1..Len(flights) /\ Len(flights) \in Nat  BY DEF TypeInv
    <2>5. Len(old) = Len(flights)  BY <2>3, <2>4
    <2> HIDE DEF old, new
    <2>6. flights'[a] = old[a]
      <3>1. Append(old, new)[a] = old[a]  BY <2>4, <2>5 
      <3> QED BY <2>1, <3>1
    <2> QED BY <2>2, <2>6
  <1> QED BY <1>1, <1>2

\* Nothing the user does sends a text.
LEMMA UserSteps ==
  ASSUME TypeInv, User, NEW a \in DOMAIN flights
  PROVE  flights'[a].step = flights[a].step
  <1>1. ASSUME NEW f, NEW fc, Edit(f, fc) PROVE flights'[a].step = flights[a].step
    BY <1>1 DEF Edit
  <1>2. ASSUME NEW res, NEW on, Settle(res, on) PROVE flights'[a].step = flights[a].step
    BY <1>2, AbortSteps DEF Settle
  <1>3. ASSUME NEW to, TurnTo(to) PROVE flights'[a].step = flights[a].step
    BY <1>1, <1>3 DEF TurnTo
  <1>4. ASSUME NEW i \in Options, SelectOption(i) PROVE flights'[a].step = flights[a].step
    BY <1>1, <1>2, <1>4 DEF SelectOption
  <1>5. ASSUME NEW text, TypeCustom(text) \/ TypeGuidance(text)
        PROVE  flights'[a].step = flights[a].step
    BY <1>1, <1>5 DEF TypeCustom, TypeGuidance
  <1>6. ASSUME NEW d, MovePage(d) \/ MoveFocus(d) PROVE flights'[a].step = flights[a].step
    BY <1>1, <1>3, <1>6 DEF MovePage, MoveFocus
  <1>7. ASSUME NEW page, SelectTab(page) PROVE flights'[a].step = flights[a].step
    BY <1>3, <1>7 DEF SelectTab
  <1>8. ASSUME NEW x, ClickEditor(x) PROVE flights'[a].step = flights[a].step
    BY <1>1, <1>8 DEF ClickEditor
  <1>9. CASE ActivateAction
    <2>1. Simplify \/ ShowOriginal \/ NextQuestion \/ Submit \/ Settle(Dismissed, TRUE)
      BY <1>9 DEF ActivateAction
    <2> QED BY <1>1, <1>2, <1>3, <2>1, SimplifySteps DEF ShowOriginal, NextQuestion, Submit
  <1>10. CASE Escape  BY <1>1, <1>2, <1>10 DEF Escape
  <1> QED BY <1>4, <1>5, <1>6, <1>7, <1>8, <1>9, <1>10 DEF User

\* Nor does any other step, but Send.
LEMMA OtherSteps ==
  ASSUME TypeInv, NEW a \in DOMAIN flights, flights[a].step = "credentials", ~Send(a),
         \/ \E r \in Requests : Ask(r)
         \/ \E b \in DOMAIN flights : Send(b) \/ Rewrite(b) \/ Fail(b)
         \/ Destroy
         \/ Close
  PROVE  flights'[a].step # "sent"
  <1>1. ASSUME NEW next, Told(next) PROVE flights'[a].step = flights[a].step
    BY <1>1, AbortSteps DEF Told, dialog
  <1>2. ASSUME NEW r \in Requests, Ask(r) PROVE flights'[a].step # "sent"
    BY <1>1, <1>2 DEF Ask, dialog
  <1>3. ASSUME NEW b \in DOMAIN flights, Send(b) PROVE flights'[a].step # "sent"
    <2>1. a # b /\ flights' = [flights EXCEPT ![b].step = "sent"]  BY <1>3 DEF Send
    <2> QED BY <2>1
  <1>4. ASSUME NEW b \in DOMAIN flights, Rewrite(b) \/ Fail(b) PROVE flights'[a].step # "sent"
    <2>1. flights[a] \in Flights  BY DEF TypeInv
    <2>2. flights' = [flights EXCEPT ![b].step = "over"]  BY <1>4 DEF Rewrite, Fail, Land
    <2>3. CASE a = b
      <3>1. flights'[a] = [flights[a] EXCEPT !.step = "over"]  BY <2>2, <2>3
      <3> QED BY <2>1, <3>1 DEF Flights
    <2>4. CASE a # b  BY <2>2, <2>4
    <2> QED BY <2>3, <2>4
  <1>5. CASE Destroy
    <2>1. CASE form = None  BY <1>5, <2>1 DEF Destroy, dialog
    <2>2. CASE form # None
      <3>1. Abort  BY <1>5, <2>2 DEF Destroy, Settle
      <3> QED BY <3>1, AbortSteps
    <2> QED BY <2>1, <2>2
  <1>6. CASE Close  BY <1>6 DEF Close, dialog
  <1> QED BY <1>2, <1>3, <1>4, <1>5, <1>6

\* Only the text the user sees leaves for DeepSeek, and only for a dialog that
\* is still waiting for it (the signal simplify() looks at before fetch).
THEOREM OnlyWhatIsShownLeaves == Spec => OnlyShownIsSent
  <1>1. ASSUME IInv, [Next]_vars, NEW a \in DOMAIN flights,
               flights[a].step = "credentials", flights'[a].step = "sent"
        PROVE  form # None /\ Loading(form) /\ flights[a].input = Visible(form)
    <2>1. TypeInv  BY <1>1 DEF IInv
    <2>2. Send(a)
      <3>1. CASE User  BY <1>1, <2>1, <3>1, UserSteps
      <3>2. CASE UNCHANGED vars  BY <1>1, <3>2 DEF vars, dialog
      <3> QED BY <1>1, <2>1, <3>1, <3>2, OtherSteps DEF Next
    <2>3. a \in Alive  BY <1>1, <2>2 DEF Send, Alive
    <2> QED BY <1>1, <2>3 DEF IInv, RewritesAreCurrent, InputIsShown
  <1>2. IInv /\ [Next]_vars =>
          [\A a \in DOMAIN flights :
             flights[a].step = "credentials" /\ flights'[a].step = "sent"
             => form # None /\ Loading(form) /\ flights[a].input = Visible(form)]_vars
    BY <1>1
  <1> QED BY <1>2, DialogInvariance, PTL DEF Spec, OnlyShownIsSent

-----------------------------------------------------------------------------
(* Which requests have an answer: a second invariant, over the first *)

\* The requests that wait are the last that were asked, in the order of their
\* calls, and they are exactly those without a result.
LineFits ==
  LET waiting == Waiting(broker) IN
  \E k \in 0..Len(asked) :
    /\ Len(asked) = k + Len(waiting)
    /\ \A i \in 1..Len(waiting) : waiting[i] = asked[k + i]
    /\ \A i \in 1..Len(asked) : result[asked[i]] = None <=> i > k

\* Nothing waits behind no request (advance), and a closed broker has none.
BrokerFits ==
  /\ broker.active = None => broker.queue = <<>>
  /\ broker.closed => broker.active = None

AskedFits ==
  /\ asked \in Seq(Requests)
  /\ \A i, j \in 1..Len(asked) : asked[i] = asked[j] => i = j
  /\ \A r \in Requests : (\A i \in 1..Len(asked) : asked[i] # r) => result[r] = None

ResultFits == result = [r \in Requests |-> result[r]]

AnswerInv == LineFits /\ BrokerFits /\ AskedFits /\ ResultFits /\ AnswersAreWhole

\* An answer to every question of r, as its questions allow it.
Whole(r, res) ==
  /\ res # None
  /\ res.outcome = "answered" =>
       \A q \in DOMAIN QuestionsOf[r] :
         /\ Cardinality(res.picks[q]) \in (IF QuestionsOf[r][q].multiple THEN Nat ELSE {0, 1})
         /\ res.custom[q] => QuestionsOf[r][q].custom
         /\ res.picks[q] # {} \/ res.custom[q]

\* What ask() and a settlement do to the requests that wait.
LEMMA WaitingFits ==
  ASSUME NEW b \in Brokers, b.active = None => b.queue = <<>>
  PROVE  /\ Waiting(b) \in Seq(Requests)
         /\ b.active = None => Waiting(b) = <<>>
         /\ b.active # None => /\ Len(Waiting(b)) = Len(b.queue) + 1
                               /\ Waiting(b)[1] = b.active
                               /\ \A i \in 1..Len(b.queue) : Waiting(b)[i + 1] = b.queue[i]
  <1>1. b.queue \in Seq(Requests) /\ b.active \in Requests \cup {None}  BY DEF Brokers
  <1>2. CASE b.active = None  BY <1>1, <1>2 DEF Waiting
  <1>3. CASE b.active # None
    <2>1. Waiting(b) = <<b.active>> \o b.queue /\ b.active \in Requests  BY <1>1, <1>3 DEF Waiting
    <2> QED BY <1>1, <1>3, <2>1
  <1> QED BY <1>2, <1>3

LEMMA EnqueuedLine ==
  ASSUME NEW b \in Brokers, b.active = None => b.queue = <<>>, ~b.closed, NEW r \in Requests
  PROVE  LET c == Enqueued(b, r) IN
         /\ c.active # None /\ ~c.closed
         /\ Len(Waiting(c)) = Len(Waiting(b)) + 1
         /\ Waiting(c)[Len(Waiting(c))] = r
         /\ \A i \in 1..Len(Waiting(b)) : Waiting(c)[i] = Waiting(b)[i]
  <1> DEFINE c == Enqueued(b, r)
             d == [b EXCEPT !.queue = Append(@, r)]
  <1>1. b.queue \in Seq(Requests) /\ r # None  BY RequestsAssumption DEF Brokers
  <1>2. d.queue = Append(b.queue, r) /\ d.active = b.active /\ ~d.closed /\ d.queue # <<>>
    BY <1>1 DEF Brokers
  <1>3. c = Advance(d)  BY DEF Enqueued
  <1>4. CASE b.active = None
    <2>0. Append(<<>>, r) = <<r>>  OBVIOUS
    <2>1. b.queue = <<>> /\ d.queue = <<r>>  BY <1>2, <1>4, <2>0
    <2>2. c = [d EXCEPT !.active = Head(d.queue), !.queue = Tail(d.queue)]
      BY <1>2, <1>3, <1>4 DEF Advance
    <2> HIDE DEF c
    <2>3. c.active = r /\ c.queue = <<>> /\ ~c.closed
      BY <1>2, <2>1, <2>2 DEF Brokers
    <2>4. Waiting(c) = <<r>> /\ Waiting(b) = <<>>
      BY <1>1, <1>4, <2>1, <2>3 DEF Waiting
    <2> QED BY <1>1, <2>3, <2>4 DEF c
  <1>5. CASE b.active # None
    <2>1. c = d  BY <1>2, <1>3, <1>5 DEF Advance
    <2>2. b.active \in Requests  BY <1>5 DEF Brokers
    <2>3. Waiting(b) = <<b.active>> \o b.queue /\ Waiting(c) = <<b.active>> \o Append(b.queue, r)
      BY <1>2, <1>5, <2>1 DEF Waiting
    <2> DEFINE q == b.queue
               one == <<b.active>> \o q
               two == <<b.active>> \o Append(q, r)
    <2>4. /\ Len(two) = Len(one) + 1 /\ two[Len(two)] = r
          /\ \A i \in 1..Len(one) : two[i] = one[i]
      <3>1. q \in Seq(Requests)  BY <1>1
      <3> HIDE DEF q
      <3> QED BY <2>2, <3>1
    <2>5. c.active # None /\ ~c.closed  BY <1>2, <1>5, <2>1
    <2> HIDE DEF c
    <2> QED BY <2>3, <2>4, <2>5 DEF c
  <1> QED BY <1>4, <1>5

LEMMA SettledLine ==
  ASSUME NEW b \in Brokers, b.active # None, ~b.closed
  PROVE  LET c == Settled(b) IN
         /\ c.active = None => c.queue = <<>>
         /\ ~c.closed
         /\ Len(Waiting(b)) = Len(Waiting(c)) + 1
         /\ Waiting(b)[1] = b.active
         /\ \A i \in 1..Len(Waiting(c)) : Waiting(c)[i] = Waiting(b)[i + 1]
  <1> DEFINE c == Settled(b)
             d == [b EXCEPT !.active = None]
  <1>1. b.queue \in Seq(Requests) /\ b.active \in Requests  BY DEF Brokers
  <1>2. d.queue = b.queue /\ d.active = None /\ ~d.closed  BY DEF Brokers
  <1>3. c = Advance(d)  BY DEF Settled
  <1>4. Waiting(b) = <<b.active>> \o b.queue  BY DEF Waiting
  <1>5. CASE b.queue = <<>>
    <2>1. c = d  BY <1>2, <1>3, <1>5 DEF Advance
    <2>2. Waiting(c) = <<>>  BY <1>2, <1>5, <2>1 DEF Waiting
    <2>3. c.active = None /\ c.queue = <<>> /\ ~c.closed  BY <1>2, <1>5, <2>1
    <2>4. Waiting(b) = <<b.active>>  BY <1>1, <1>4, <1>5
    <2> HIDE DEF c
    <2> QED BY <2>2, <2>3, <2>4 DEF c
  <1>6. CASE b.queue # <<>>
    <2>1. c = [d EXCEPT !.active = Head(d.queue), !.queue = Tail(d.queue)]
      BY <1>2, <1>3, <1>6 DEF Advance
    <2>2. c.active = Head(b.queue) /\ c.queue = Tail(b.queue) /\ ~c.closed
      BY <1>2, <2>1 DEF Brokers
    <2>3. Head(b.queue) \in Requests /\ Tail(b.queue) \in Seq(Requests) /\ Head(b.queue) # None
      BY <1>1, <1>6, RequestsAssumption
    <2>4. <<Head(b.queue)>> \o Tail(b.queue) = b.queue  BY <1>1, <1>6
    <2>5. Waiting(c) = b.queue  BY <2>2, <2>3, <2>4 DEF Waiting
    <2>6. /\ Len(<<b.active>> \o b.queue) = Len(b.queue) + 1
          /\ (<<b.active>> \o b.queue)[1] = b.active
          /\ \A i \in 1..Len(b.queue) : b.queue[i] = (<<b.active>> \o b.queue)[i + 1]
      BY <1>1
    <2> HIDE DEF c
    <2> QED BY <1>4, <2>2, <2>3, <2>5, <2>6 DEF c
  <1> QED BY <1>5, <1>6

\* What is submitted answers every question (canSubmit, buildResult).
LEMMA BuildResultIsWhole ==
  ASSUME NEW r \in Requests, NEW f \in FormsOf(r), Lawful(f, r), CanSubmit(f)
  PROVE  Whole(r, BuildResult(f))
  <1> DEFINE res == BuildResult(f)
  <1>1. /\ f.of = r /\ f.picks \in [1..Count(r) -> SUBSET Options]
        /\ f.draft \in [1..Count(r) -> {"none", "blank", "text"}]
    BY DEF FormsOf
  <1>2. DOMAIN QuestionsOf[r] = 1..Count(r)  BY RequestsAssumption DEF Count
  <1>3. /\ res.picks = f.picks /\ res.outcome = "answered"
        /\ res.custom = [q \in 1..Count(r) |-> f.draft[q] = "text"]
    BY <1>1 DEF BuildResult
  <1>4. res # None
    <2>1. res \in AnswersOf(r)  BY <1>1 DEF AnswersOf, BuildResult, Tabbed
    <2> QED BY <2>1, NoneAssumption
  <1> HIDE DEF res
  <1>5. ASSUME NEW q \in 1..Count(r)
        PROVE  /\ Cardinality(res.picks[q]) \in (IF QuestionsOf[r][q].multiple THEN Nat ELSE {0, 1})
               /\ res.custom[q] => QuestionsOf[r][q].custom
               /\ res.picks[q] # {} \/ res.custom[q]
    <2>1. Cardinality(f.picks[q]) \in (IF QuestionsOf[r][q].multiple THEN Nat ELSE {0, 1})
      <3>1. CASE QuestionsOf[r][q].multiple
        <4>1. IsFiniteSet(f.picks[q])  BY <1>1, FS_Subset, RequestsAssumption
        <4> QED BY <3>1, <4>1, FS_CardinalityType
      <3>2. CASE f.picks[q] = {}  BY <3>1, <3>2, FS_EmptySet
      <3>3. ASSUME NEW j \in Options, f.picks[q] = {j}
            PROVE  Cardinality(f.picks[q]) \in (IF QuestionsOf[r][q].multiple THEN Nat ELSE {0, 1})
        BY <3>1, <3>3, FS_Singleton
      <3> QED BY <3>1, <3>2, <3>3 DEF Lawful
    <2>2. HasAnswer(f, q)  BY <1>1 DEF CanSubmit
    <2> QED BY <1>3, <2>1, <2>2 DEF Lawful, HasAnswer
  <1>6. Whole(r, res)  BY <1>2, <1>3, <1>4, <1>5 DEF Whole
  <1> QED BY <1>6 DEF res

LEMMA DismissedIsWhole == ASSUME NEW r PROVE Whole(r, Dismissed)
  BY NoneAssumption DEF Whole, Dismissed

\* A result that is given keeps the results whole.
LEMMA ResultKeeps ==
  ASSUME ResultFits, AnswersAreWhole, NEW r \in Requests, NEW res, Whole(r, res),
         result' = [result EXCEPT ![r] = res]
  PROVE  /\ ResultFits' /\ AnswersAreWhole'
         /\ result'[r] # None
         /\ \A s \in Requests : s # r => result'[s] = result[s]
  <1>1. result' = [s \in Requests |-> IF s = r THEN res ELSE result[s]]  BY DEF ResultFits
  <1>2. ResultFits'  BY <1>1 DEF ResultFits
  <1>3. AnswersAreWhole'
    <2> SUFFICES ASSUME NEW s \in Requests, result'[s] # None, result'[s].outcome = "answered",
                        NEW q \in DOMAIN QuestionsOf[s]
                 PROVE  /\ Cardinality(result'[s].picks[q]) \in (IF QuestionsOf[s][q].multiple THEN Nat ELSE {0, 1})
                        /\ result'[s].custom[q] => QuestionsOf[s][q].custom
                        /\ result'[s].picks[q] # {} \/ result'[s].custom[q]
      BY DEF AnswersAreWhole
    <2>1. CASE s = r
      <3>1. result'[s] = res  BY <1>1, <2>1
      <3> QED BY <2>1, <3>1 DEF Whole
    <2>2. CASE s # r
      <3>1. result'[s] = result[s]  BY <1>1, <2>2
      <3> QED BY <3>1 DEF AnswersAreWhole
    <2> QED BY <2>1, <2>2
  <1> QED BY <1>1, <1>2, <1>3 DEF Whole

\* Steps that touch neither the broker nor the results nor the calls.
LEMMA IdleKeeps ==
  ASSUME AnswerInv, UNCHANGED <<broker, result, asked>>
  PROVE  AnswerInv'
  BY DEF AnswerInv, LineFits, BrokerFits, AskedFits, ResultFits, AnswersAreWhole

\* A settlement answers the oldest request that waits, or none at all.
LEMMA SettleAnswers ==
  ASSUME IInv, AnswerInv, form # None, NEW res, Whole(form.of, res), NEW listening,
         Settle(res, listening), UNCHANGED asked
  PROVE  AnswerInv'
  <1> DEFINE r == form.of
             old == Waiting(broker)
             new == Waiting(broker')
  <1>1. r \in Requests /\ r # None /\ broker.active = r /\ broker \in Brokers
    BY ShownIsActive, RequestsAssumption DEF IInv, TypeInv
  <1>2. CASE ~Accepts(broker, r, res)
    <2>1. UNCHANGED <<broker, result>>  BY <1>2 DEF Settle
    <2> QED BY <2>1, IdleKeeps
  <1>3. CASE Accepts(broker, r, res)
    <2>1. broker' = Settled(broker) /\ result' = [result EXCEPT ![r] = res]
      BY <1>3 DEF Settle
    <2>2. ~broker.closed /\ broker.active # None  BY <1>1 DEF AnswerInv, BrokerFits
    <2>3. /\ broker'.active = None => broker'.queue = <<>>
          /\ ~broker'.closed
          /\ Len(old) = Len(new) + 1 /\ old[1] = r
          /\ \A i \in 1..Len(new) : new[i] = old[i + 1]
      BY <1>1, <2>1, <2>2, SettledLine
    <2>4. BrokerFits'  BY <2>3 DEF BrokerFits
    <2>5. broker' \in Brokers  BY <1>1, <2>1, SettledFits
    <2>6. Len(new) \in Nat  BY <2>3, <2>5, WaitingFits
    <2>7. /\ ResultFits' /\ AnswersAreWhole' /\ result'[r] # None
          /\ \A s \in Requests : s # r => result'[s] = result[s]
      BY <1>1, <2>1, ResultKeeps DEF AnswerInv
    <2>8. PICK k \in 0..Len(asked) :
            /\ Len(asked) = k + Len(old)
            /\ \A i \in 1..Len(old) : old[i] = asked[k + i]
            /\ \A i \in 1..Len(asked) : result[asked[i]] = None <=> i > k
      BY DEF AnswerInv, LineFits
    <2> HIDE DEF old, new
    <2>9. asked \in Seq(Requests) /\ Len(asked) \in Nat  BY DEF AnswerInv, AskedFits
    <2>10. 1 \in 1..Len(old) /\ k + 1 \in 1..Len(asked) /\ k + 1 \in 0..Len(asked) /\ asked[k + 1] = r
      BY <2>3, <2>6, <2>8, <2>9
    <2>11. Len(asked) = k + 1 + Len(new)  BY <2>3, <2>6, <2>8, <2>9
    <2>12. ASSUME NEW i \in 1..Len(new) PROVE new[i] = asked[k + 1 + i]
      BY <2>3, <2>6, <2>8, <2>9
    <2>13. ASSUME NEW i \in 1..Len(asked) PROVE result'[asked[i]] = None <=> i > k + 1
      <3>1. asked[i] \in Requests  BY <2>9
      <3>2. CASE i = k + 1  BY <2>7, <2>10, <3>2
      <3>3. CASE i # k + 1
        <4>1. asked[i] # r  BY <2>10, <3>3 DEF AnswerInv, AskedFits
        <4>2. result'[asked[i]] = result[asked[i]]  BY <2>7, <3>1, <4>1
        <4> QED BY <2>8, <2>9, <3>3, <4>2
      <3> QED BY <3>2, <3>3
    <2>14. LineFits'  BY <2>10, <2>11, <2>12, <2>13 DEF LineFits, new
    <2>15. AskedFits'
      <3> SUFFICES ASSUME NEW s \in Requests, \A i \in 1..Len(asked) : asked[i] # s
                   PROVE  result'[s] = None
        BY DEF AnswerInv, AskedFits
      <3>1. s # r  BY <2>10
      <3> QED BY <2>7, <3>1 DEF AnswerInv, AskedFits
    <2> QED BY <2>4, <2>7, <2>14, <2>15 DEF AnswerInv
  <1> QED BY <1>2, <1>3

\* A call joins the end of the line; a closed broker dismisses it at once.
LEMMA AskAnswers ==
  ASSUME IInv, AnswerInv, NEW r \in Requests, Ask(r)
  PROVE  AnswerInv'
  <1> DEFINE old == Waiting(broker)
             new == Waiting(broker')
  <1>1. /\ asked \in Seq(Requests) /\ Len(asked) \in Nat /\ broker \in Brokers
        /\ broker.active = None => broker.queue = <<>>
    BY DEF AnswerInv, AskedFits, BrokerFits, IInv, TypeInv
  <1>2. r \notin ToSet(asked) /\ asked' = Append(asked, r)  BY DEF Ask
  <1>3. \A i \in 1..Len(asked) : asked[i] # r  BY <1>1, <1>2 DEF ToSet
  <1>4. /\ asked' \in Seq(Requests) /\ Len(asked') = Len(asked) + 1
        /\ asked'[Len(asked) + 1] = r
        /\ \A i \in 1..Len(asked) : asked'[i] = asked[i]
    BY <1>1, <1>2
  <1>5. \A i, j \in 1..Len(asked') : asked'[i] = asked'[j] => i = j
    <2> SUFFICES ASSUME NEW i \in 1..Len(asked'), NEW j \in 1..Len(asked'), asked'[i] = asked'[j]
                 PROVE  i = j
      OBVIOUS
    <2>1. CASE i \in 1..Len(asked) /\ j \in 1..Len(asked)
      BY <1>4, <2>1 DEF AnswerInv, AskedFits
    <2>2. CASE i = Len(asked) + 1 \/ j = Len(asked) + 1
      BY <1>1, <1>3, <1>4, <2>2
    <2> QED BY <1>1, <1>4, <2>1, <2>2
  <1>6. PICK k \in 0..Len(asked) :
          /\ Len(asked) = k + Len(old)
          /\ \A i \in 1..Len(old) : old[i] = asked[k + i]
          /\ \A i \in 1..Len(asked) : result[asked[i]] = None <=> i > k
    BY DEF AnswerInv, LineFits
  <1>7. result[r] = None  BY <1>3 DEF AnswerInv, AskedFits
  <1>8. Len(old) \in Nat  BY <1>1, WaitingFits
  <1>9. CASE broker.closed
    <2>1. broker' = broker /\ result' = [result EXCEPT ![r] = Dismissed]  BY <1>9 DEF Ask
    <2>2. /\ ResultFits' /\ AnswersAreWhole' /\ result'[r] # None
          /\ \A s \in Requests : s # r => result'[s] = result[s]
      BY <2>1, DismissedIsWhole, ResultKeeps DEF AnswerInv
    <2>3. old = <<>> /\ new = <<>>
      BY <1>1, <1>9, <2>1, WaitingFits DEF AnswerInv, BrokerFits
    <2>4. k = Len(asked)  BY <1>1, <1>6, <2>3
    <2>5. ASSUME NEW i \in 1..Len(asked') PROVE result'[asked'[i]] = None <=> i > k + 1
      <3>1. CASE i = k + 1  BY <1>4, <2>2, <2>4, <3>1
      <3>2. CASE i \in 1..k
        <4>1. asked'[i] = asked[i] /\ asked[i] \in Requests /\ asked[i] # r
          BY <1>1, <1>3, <1>4, <2>4, <3>2
        <4> QED BY <1>6, <2>2, <2>4, <3>2, <4>1
      <3> QED BY <1>1, <1>4, <2>4, <3>1, <3>2
    <2>6. LineFits'
      <3> HIDE DEF old
      <3>1. k + 1 \in 0..Len(asked') /\ Len(asked') = k + 1 + Len(new)  BY <1>1, <1>4, <2>3, <2>4
      <3>2. \A i \in 1..Len(new) : new[i] = asked'[k + 1 + i]  BY <2>3
      <3> HIDE DEF new
      <3> QED BY <2>5, <3>1, <3>2 DEF LineFits, new
    <2>7. AskedFits'
      <3> SUFFICES ASSUME NEW s \in Requests, \A i \in 1..Len(asked') : asked'[i] # s
                   PROVE  result'[s] = None
        BY <1>4, <1>5 DEF AskedFits
      <3>1. s # r /\ \A i \in 1..Len(asked) : asked[i] # s  BY <1>1, <1>4
      <3> QED BY <2>2, <3>1 DEF AnswerInv, AskedFits
    <2>8. BrokerFits'  BY <2>1 DEF AnswerInv, BrokerFits
    <2> QED BY <2>2, <2>6, <2>7, <2>8 DEF AnswerInv
  <1>10. CASE ~broker.closed
    <2>1. broker' = Enqueued(broker, r) /\ result' = result  BY <1>10 DEF Ask
    <2>2. /\ broker'.active # None /\ ~broker'.closed
          /\ Len(new) = Len(old) + 1 /\ new[Len(new)] = r
          /\ \A i \in 1..Len(old) : new[i] = old[i]
      BY <1>1, <1>10, <2>1, EnqueuedLine
    <2>3. BrokerFits'  BY <2>2 DEF BrokerFits
    <2> HIDE DEF old, new
    <2>4. k \in 0..Len(asked') /\ Len(asked') = k + Len(new)  BY <1>1, <1>4, <1>6, <1>8, <2>2
    <2>5. ASSUME NEW i \in 1..Len(new) PROVE new[i] = asked'[k + i]
      <3>1. CASE i = Len(new)
        <4>1. k + i = Len(asked) + 1  BY <1>1, <1>6, <1>8, <2>2, <3>1
        <4> QED BY <1>4, <2>2, <3>1, <4>1
      <3>2. CASE i \in 1..Len(old)
        <4>1. k + i \in 1..Len(asked)  BY <1>1, <1>6, <1>8, <3>2
        <4> QED BY <1>4, <1>6, <2>2, <3>2, <4>1
      <3> QED BY <1>8, <2>2, <3>1, <3>2
    <2>6. ASSUME NEW i \in 1..Len(asked') PROVE result'[asked'[i]] = None <=> i > k
      <3>1. CASE i = Len(asked) + 1  BY <1>1, <1>4, <1>7, <2>1, <3>1
      <3>2. CASE i \in 1..Len(asked)  BY <1>4, <1>6, <2>1, <3>2
      <3> QED BY <1>1, <1>4, <3>1, <3>2
    <2>7. LineFits'  BY <2>4, <2>5, <2>6 DEF LineFits, new
    <2>8. AskedFits'
      <3> SUFFICES ASSUME NEW s \in Requests, \A i \in 1..Len(asked') : asked'[i] # s
                   PROVE  result'[s] = None
        BY <1>4, <1>5 DEF AskedFits
      <3>1. \A i \in 1..Len(asked) : asked[i] # s  BY <1>1, <1>4
      <3> QED BY <2>1, <3>1 DEF AnswerInv, AskedFits
    <2>9. ResultFits' /\ AnswersAreWhole'
      BY <2>1 DEF AnswerInv, ResultFits, AnswersAreWhole
    <2> QED BY <2>3, <2>7, <2>8, <2>9 DEF AnswerInv
  <1> QED BY <1>9, <1>10

\* The end of the program dismisses every request that waits.
LEMMA CloseAnswers ==
  ASSUME IInv, AnswerInv, Close
  PROVE  AnswerInv'
  <1> DEFINE waits == ToSet(Waiting(broker))
  <1>1. /\ broker' = Closed(broker) /\ asked' = asked
        /\ result' = [r \in Requests |-> IF r \in waits THEN Dismissed ELSE result[r]]
    BY DEF Close
  <1>2. /\ asked \in Seq(Requests) /\ Len(asked) \in Nat /\ Waiting(broker) \in Seq(Requests)
    BY WaitingFits DEF AnswerInv, AskedFits, BrokerFits, IInv, TypeInv
  <1>3. PICK k \in 0..Len(asked) :
          /\ Len(asked) = k + Len(Waiting(broker))
          /\ \A i \in 1..Len(Waiting(broker)) : Waiting(broker)[i] = asked[k + i]
          /\ \A i \in 1..Len(asked) : result[asked[i]] = None <=> i > k
    BY DEF AnswerInv, LineFits
  <1>4. \A x : x \in waits <=> \E i \in 1..Len(Waiting(broker)) : Waiting(broker)[i] = x
    BY <1>2 DEF ToSet
  <1> HIDE DEF waits
  <1>5. BrokerFits' /\ Waiting(broker') = <<>>  BY <1>1 DEF BrokerFits, Closed, Waiting
  <1>6. ASSUME NEW i \in 1..Len(asked) PROVE result'[asked[i]] # None
    <2>1. asked[i] \in Requests  BY <1>2
    <2>2. CASE i > k
      <3>1. i - k \in 1..Len(Waiting(broker)) /\ k + (i - k) = i  BY <1>2, <1>3, <2>2
      <3>2. asked[i] \in waits  BY <1>3, <1>4, <3>1
      <3> QED BY <1>1, <2>1, <3>2, NoneAssumption
    <2>3. CASE ~(i > k)
      <3>1. result[asked[i]] # None  BY <1>3, <2>3
      <3> QED BY <1>1, <2>1, <3>1, NoneAssumption
    <2> QED BY <2>2, <2>3
  <1>7. LineFits'
    <2>1. Len(asked) \in 0..Len(asked')  BY <1>1, <1>2
    <2>2. Len(asked') = Len(asked) + Len(Waiting(broker'))  BY <1>1, <1>2, <1>5
    <2>3. \A i \in 1..Len(Waiting(broker')) : Waiting(broker')[i] = asked'[Len(asked) + i]
      BY <1>5
    <2>4. \A i \in 1..Len(asked') : result'[asked'[i]] = None <=> i > Len(asked)
      BY <1>1, <1>2, <1>6
    <2> QED BY <2>1, <2>2, <2>3, <2>4 DEF LineFits
  <1>8. AskedFits'
    <2> SUFFICES ASSUME NEW s \in Requests, \A i \in 1..Len(asked) : asked[i] # s
                 PROVE  result'[s] = None
      BY <1>1 DEF AnswerInv, AskedFits
    <2>1. s \notin waits
      <3> SUFFICES ASSUME NEW i \in 1..Len(Waiting(broker)), Waiting(broker)[i] = s PROVE FALSE
        BY <1>4
      <3>1. k + i \in 1..Len(asked)  BY <1>2, <1>3
      <3> QED BY <1>3, <3>1
    <2>2. result[s] = None  BY DEF AnswerInv, AskedFits
    <2> QED BY <1>1, <2>1, <2>2
  <1>9. ResultFits'  BY <1>1 DEF ResultFits
  <1>10. AnswersAreWhole'
    <2> SUFFICES ASSUME NEW s \in Requests, result'[s] # None, result'[s].outcome = "answered",
                        NEW q \in DOMAIN QuestionsOf[s]
                 PROVE  /\ Cardinality(result'[s].picks[q]) \in (IF QuestionsOf[s][q].multiple THEN Nat ELSE {0, 1})
                        /\ result'[s].custom[q] => QuestionsOf[s][q].custom
                        /\ result'[s].picks[q] # {} \/ result'[s].custom[q]
      BY DEF AnswersAreWhole
    <2>1. result'[s] = result[s]  BY <1>1 DEF Dismissed
    <2> QED BY <2>1 DEF AnswerInv, AnswersAreWhole
  <1> QED BY <1>5, <1>7, <1>8, <1>9, <1>10 DEF AnswerInv

\* What the user does edits the form or settles it.
LEMMA UserAnswers ==
  ASSUME IInv, AnswerInv, User
  PROVE  AnswerInv'
  <1>1. ASSUME NEW f, NEW fc, Edit(f, fc), UNCHANGED asked PROVE AnswerInv'
    BY <1>1, IdleKeeps DEF Edit
  <1>2. ASSUME NEW to, TurnTo(to), UNCHANGED asked PROVE AnswerInv'
    BY <1>1, <1>2 DEF TurnTo
  <1>3. ASSUME form # None, Settle(Dismissed, TRUE), UNCHANGED asked PROVE AnswerInv'
    BY <1>3, DismissedIsWhole, SettleAnswers
  <1>4. ASSUME NEW i \in Options, SelectOption(i) PROVE AnswerInv'
    <2> DEFINE f == Toggled(form, i)
    <2>1. form # None /\ ~OnConfirm(form) /\ UNCHANGED asked  BY <1>4 DEF SelectOption, Input
    <2>2. form.of \in Requests /\ f \in FormsOf(form.of) /\ Lawful(f, form.of)
      BY <2>1, ShownIsActive, ToggledFits
    <2>3. (CanSubmit(f) /\ Settle(BuildResult(f), TRUE)) \/ Edit(f, Disarmed)
      BY <1>4 DEF SelectOption
    <2> HIDE DEF f
    <2> QED BY <1>1, <2>1, <2>2, <2>3, BuildResultIsWhole, SettleAnswers
  <1>5. ASSUME NEW text, TypeCustom(text) \/ TypeGuidance(text) PROVE AnswerInv'
    BY <1>1, <1>5 DEF TypeCustom, TypeGuidance, Input
  <1>6. ASSUME NEW d, MovePage(d) \/ MoveFocus(d) PROVE AnswerInv'
    BY <1>1, <1>2, <1>6 DEF MovePage, MoveFocus, Input
  <1>7. ASSUME NEW page, SelectTab(page) PROVE AnswerInv'
    BY <1>2, <1>7 DEF SelectTab, Input
  <1>8. ASSUME NEW x, ClickEditor(x) PROVE AnswerInv'
    BY <1>1, <1>8 DEF ClickEditor, Input
  <1>9. CASE ActivateAction
    <2>1. form # None /\ UNCHANGED asked  BY <1>9 DEF ActivateAction, Input
    <2>2. CASE Simplify
      <3>1. UNCHANGED <<broker, result>>  BY <2>2 DEF Simplify, Edit
      <3> QED BY <2>1, <3>1, IdleKeeps
    <2>3. CASE ShowOriginal \/ NextQuestion
      BY <1>1, <1>2, <2>1, <2>3 DEF ShowOriginal, NextQuestion
    <2>4. CASE Submit
      <3>1. CanSubmit(form) /\ Settle(BuildResult(form), TRUE)
        BY <2>4 DEF Submit, ActionEnabled
      <3>2. form.of \in Requests /\ form \in FormsOf(form.of) /\ Lawful(form, form.of)
        BY <2>1, ShownIsActive
      <3> QED BY <2>1, <3>1, <3>2, BuildResultIsWhole, SettleAnswers
    <2>5. CASE Settle(Dismissed, TRUE)  BY <1>3, <2>1, <2>5
    <2> QED BY <1>9, <2>2, <2>3, <2>4, <2>5 DEF ActivateAction
  <1>10. CASE Escape
    <2>1. form # None /\ UNCHANGED asked  BY <1>10 DEF Escape, Input
    <2>2. Settle(Dismissed, TRUE) \/ \E fc : Edit(form, fc)  BY <1>10 DEF Escape
    <2> QED BY <1>1, <1>3, <2>1, <2>2
  <1> QED BY <1>4, <1>5, <1>6, <1>7, <1>8, <1>9, <1>10 DEF User

LEMMA InitAnswers == Init => AnswerInv
  <1> SUFFICES ASSUME Init PROVE AnswerInv  OBVIOUS
  <1>1. /\ broker.active = None /\ broker.queue = <<>> /\ broker.closed = FALSE /\ asked = <<>>
        /\ result = [r \in Requests |-> None]
    BY DEF Init, NewBroker
  <1>2. Waiting(broker) = <<>>  BY <1>1 DEF Waiting
  <1>3. LineFits
    <2>1. 0 \in 0..Len(asked) /\ Len(asked) = 0 + Len(Waiting(broker))  BY <1>1, <1>2
    <2>2. \A i \in 1..Len(Waiting(broker)) : FALSE  BY <1>2
    <2>3. \A i \in 1..Len(asked) : FALSE  BY <1>1
    <2> QED BY <2>1, <2>2, <2>3 DEF LineFits
  <1>4. BrokerFits /\ AskedFits /\ ResultFits /\ AnswersAreWhole
    BY <1>1 DEF BrokerFits, AskedFits, ResultFits, AnswersAreWhole
  <1> QED BY <1>3, <1>4 DEF AnswerInv

LEMMA NextAnswers == IInv /\ AnswerInv /\ [Next]_vars => AnswerInv'
  <1> SUFFICES ASSUME IInv, AnswerInv, [Next]_vars PROVE AnswerInv'  OBVIOUS
  <1>1. CASE User  BY <1>1, UserAnswers
  <1>2. CASE \E r \in Requests : Ask(r)  BY <1>2, AskAnswers
  <1>3. CASE \E a \in DOMAIN flights : Send(a) \/ Rewrite(a) \/ Fail(a)
    BY <1>3, IdleKeeps DEF Send, Rewrite, Fail, Land, Apart
  <1>4. CASE Destroy
    <2>1. UNCHANGED asked  BY <1>4 DEF Destroy
    <2>2. CASE form = None
      <3>1. UNCHANGED <<broker, result>>  BY <1>4, <2>2 DEF Destroy
      <3> QED BY <2>1, <3>1, IdleKeeps
    <2>3. CASE form # None
      <3>1. Settle(Dismissed, FALSE)  BY <1>4, <2>3 DEF Destroy
      <3> QED BY <2>1, <2>3, <3>1, DismissedIsWhole, SettleAnswers
    <2> QED BY <2>2, <2>3
  <1>5. CASE Close  BY <1>5, CloseAnswers
  <1>6. CASE UNCHANGED vars  BY <1>6, IdleKeeps DEF vars
  <1> QED BY <1>1, <1>2, <1>3, <1>4, <1>5, <1>6 DEF Next

\* The line and the results belong together in every reachable state.
THEOREM AnswerInvariance == Spec => []AnswerInv
  <1>1. Init => AnswerInv  BY InitAnswers
  <1>2. IInv /\ AnswerInv /\ [Next]_vars => AnswerInv'  BY NextAnswers
  <1> QED BY <1>1, <1>2, DialogInvariance, PTL DEF Spec

\* Requests are answered in the order of their calls, each by an answer to
\* every one of its questions, and the end of the program leaves none behind
\* (broker.ts: ask, answer, dismiss, close).
THEOREM EveryAskHasItsAnswer == Spec => []EveryAskIsAnswered
  <1>1. ASSUME IInv, AnswerInv PROVE EveryAskIsAnswered
    <2>1. PICK k \in 0..Len(asked) :
            /\ Len(asked) = k + Len(Waiting(broker))
            /\ \A i \in 1..Len(asked) : result[asked[i]] = None <=> i > k
      BY <1>1 DEF AnswerInv, LineFits
    <2>2. asked \in Seq(Requests) /\ Len(asked) \in Nat /\ DOMAIN asked = 1..Len(asked)
      BY <1>1 DEF AnswerInv, AskedFits
    <2>3. OldestFirst
      <3> SUFFICES ASSUME NEW i \in 1..Len(asked), NEW j \in 1..Len(asked), i < j,
                          result[asked[j]] # None
                   PROVE  result[asked[i]] # None
        BY <2>2 DEF OldestFirst
      <3> QED BY <2>1, <2>2
    <2>4. ASSUME broker.closed, NEW r \in ToSet(asked) PROVE result[r] # None
      <3>1. Waiting(broker) = <<>>
        BY <1>1, <2>4 DEF AnswerInv, BrokerFits, Waiting
      <3>2. k = Len(asked)  BY <2>1, <2>2, <3>1
      <3>3. PICK i \in 1..Len(asked) : asked[i] = r  BY <2>2, <2>4 DEF ToSet
      <3> QED BY <2>1, <2>2, <3>2, <3>3
    <2> QED BY <1>1, <2>3, <2>4 DEF AnswerInv, EveryAskIsAnswered
  <1>2. IInv /\ AnswerInv => EveryAskIsAnswered  BY <1>1
  <1> QED BY <1>2, DialogInvariance, AnswerInvariance, PTL
=============================================================================

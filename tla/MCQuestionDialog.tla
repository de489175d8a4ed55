--------------------------- MODULE MCQuestionDialog ---------------------------
(***************************************************************************)
(* Instances of QuestionDialog: a single choice, a choice with an id of    *)
(* its own, two compact questions, and three questions with tabs.          *)
(***************************************************************************)
EXTENDS QuestionDialog

CONSTANTS single, again, pair, tabs, o1, o2, scope, style, tests

Question(id, multiple, custom) == [id |-> id, multiple |-> multiple, custom |-> custom]

\* single and again ask under the same id, so a rewrite of one fits the other.
Asked ==
  (single :> <<Question(scope, FALSE, FALSE)>>)
  @@ (again :> <<Question(scope, TRUE, TRUE)>>)
  @@ (pair :> <<Question(scope, FALSE, TRUE), Question(style, TRUE, FALSE)>>)
  @@ (tabs :> <<Question(scope, FALSE, TRUE), Question(style, FALSE, FALSE), Question(tests, FALSE, FALSE)>>)
MCQuestionsOf == [r \in Requests |-> Asked[r]]

Budget(asks, acts, sends, connected) ==
  [asks |-> asks, inputs |-> acts, rewrites |-> sends, simplifier |-> connected]

Scenarios ==
  {Budget({single, again, pair}, 5, 2, TRUE), Budget({again}, 7, 3, TRUE),
   Budget({pair}, 7, 2, TRUE), Budget({tabs}, 7, 1, TRUE), Budget({tabs, single}, 4, 0, FALSE)}
Confirming == {Budget({tabs}, 7, 0, FALSE)}
=============================================================================

------------------------------ MODULE MCAgentRuns ------------------------------
(***************************************************************************)
(* Instances of AgentRuns: runs of one session through two runners, a      *)
(* compaction among them, planning runs and builders in two sessions, and  *)
(* one run against every limit of the loop.                                *)
(***************************************************************************)
EXTENDS AgentRuns, TLC

CONSTANTS
  first, second, fold, greedy, draft, redraft, build, rebuild, other,    \* runs
  home, away, bash, edit, barred, q1, q2,                                \* sessions, tools, runners
  c1, c2, c3, c4, c5                                                     \* call ids

Ask(id, tool) == [id |-> id, tool |-> tool]

Kind ==
  [r \in {first, second, greedy} |-> "plain"] @@ (fold :> "compact")
  @@ [r \in {draft, redraft} |-> "plan"] @@ [r \in {build, rebuild} |-> "build"] @@ (other :> "misuse")
MCKindOf == [r \in Runs |-> Kind[r]]
MCRunnerOf == [r \in Runs |-> IF r \in {second, redraft} /\ q2 \in Runners THEN q2 ELSE q1]
MCSessionOf == [r \in Runs |-> IF r = other /\ away \in Sessions THEN away ELSE home]

\* A final answer, and a batch; a call with an id of the batch in OneCall.
Batches == {<<>>, <<Ask(c1, bash), Ask(c2, edit)>>}
\* Answers up to every limit: calls repeated under new ids and in another
\* order, an id used twice, a tool the agent may not use.
Excesses ==
  {<<>>, <<Ask(c1, bash), Ask(c2, edit)>>, <<Ask(c3, edit), Ask(c4, bash)>>, <<Ask(c3, bash)>>,
   <<Ask(c4, edit)>>, <<Ask(c3, edit)>>, <<Ask(c5, barred)>>, <<Ask(c1, edit), Ask(c1, bash)>>,
   <<Ask(c2, bash), Ask(c3, bash), Ask(c5, edit)>>}
OneCall == {<<>>, <<Ask(c1, bash)>>}

MCTurns ==
  [r \in Runs |-> IF r = greedy THEN Excesses ELSE IF r = first THEN Batches
                  ELSE IF r = second THEN OneCall ELSE {<<>>}]

OneCallTurns == [r \in Runs |-> OneCall]

Budget(runs, count, deaths) == [runs |-> runs, faults |-> count, crashes |-> deaths]

Scenarios ==
  {Budget({first, second}, 1, 0), Budget({greedy}, 1, 1), Budget({second, fold}, 1, 1), Budget({draft, fold}, 0, 0),
   Budget({draft, redraft, build}, 1, 0), Budget({draft, build, rebuild, other}, 0, 1),
   Budget({second, draft}, 0, 0)}
Staled == {Budget({draft, first, build}, 0, 0)}
=============================================================================

------------------------------ MODULE PlanHandoff ------------------------------
(***************************************************************************)
(* The approval boundary between the planner JBP and the builder Bob       *)
(* (agents/plan-handoff.ts), process-global maps as one record:            *)
(*                                                                         *)
(*   generation  session -> the planning run invoked last, until it issued *)
(*   receipts    receipts that may still be consumed                       *)
(*   current     session -> its receipt                                    *)
(*   approved    consumed receipts whose plan was not submitted yet        *)
(*                                                                         *)
(* A generation, a receipt and an approved plan are frozen objects known   *)
(* by identity: each is named by the planning run it comes from.  A        *)
(* receipt nobody holds is collected; nothing can be asked of it then.     *)
(***************************************************************************)
CONSTANTS
  Runs,
  Sessions,
  SessionOf,   \* [Runs -> Sessions]
  None

ASSUME HandoffAssumption == SessionOf \in [Runs -> Sessions] /\ None \notin Runs

NoHandoff ==
  [generation |-> [s \in Sessions |-> None], receipts |-> {},
   current |-> [s \in Sessions |-> None], approved |-> {}]

HandoffType ==
  [generation : [Sessions -> Runs \cup {None}], receipts : SUBSET Runs,
   current : [Sessions -> Runs \cup {None}], approved : SUBSET Runs]

\* begin
Begin(h, r) ==
  LET s == SessionOf[r]
  IN [h EXCEPT !.receipts = @ \ {h.current[s]}, !.current[s] = None, !.generation[s] = r]

\* issue: only the planning run invoked last.
Issue(h, r) ==
  LET s == SessionOf[r]
  IN IF h.generation[s] # r THEN h
     ELSE [h EXCEPT !.generation[s] = None, !.receipts = @ \cup {r}, !.current[s] = r]

\* retire
Retire(h, r) ==
  LET s == SessionOf[r] IN IF h.generation[s] = r THEN [h EXCEPT !.generation[s] = None] ELSE h

\* consume
Consumable(h, s, r) == r \in h.receipts /\ SessionOf[r] = s
Consume(h, s, r) ==
  [h EXCEPT !.receipts = @ \ {r}, !.current[s] = IF @ = r THEN None ELSE @, !.approved = @ \cup {r}]

\* Faulty variant: a plan is looked up and kept.
TakeKeeping(h, r) == h

\* take, discard
Takable(h, s, r) == r \in h.approved /\ SessionOf[r] = s
Take(h, r) == [h EXCEPT !.approved = @ \ {r}]
=============================================================================

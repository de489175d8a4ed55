---------------------------- MODULE MCSetupWizard ----------------------------
(***************************************************************************)
(* Instances of SetupWizard: a wizard alone, with a fault, and with        *)
(* another that starts over after a death; beside calls of another         *)
(* process; calls of two provider instances; setups of Blender.            *)
(***************************************************************************)
EXTENDS SetupWizard, TLC

CONSTANTS p1, p2, p3, w1, w2, f1, f2, f3, c1, c2, c3, i1, i2, chatgpt, openai, kimi

MCWriters == Instances \cup UNION {Own(w) : w \in Wizards}
MCActors == Wizards \cup Flows \cup Calls \cup MCWriters

In(a) ==
  CASE a \in {w1, Login(w1), f1} -> p1
    [] a \in {w2, f2, Login(w2), c1, c2, i1, c3, i2} -> p2
    [] OTHER -> p3
MCProcessOf == [a \in MCActors |-> In(a)]

MCInstanceOf == [c \in Calls |-> IF c = c3 THEN i2 ELSE i1]

Home(token, key) == (chatgpt :> token) @@ (openai :> 0) @@ (kimi :> key)

Both == (chatgpt :> 1) @@ (openai :> 3) @@ (kimi :> 0)

Bound(actors, count, deaths, menus, start) ==
  [actors |-> actors, faults |-> count, deaths |-> deaths, menus |-> menus, vault |-> start]

Menu == SUBSET {chatgpt, kimi}

MCScenarios ==
  {Bound({w1}, 1, 0, Menu, Home(0, 2)), Bound({w1}, 0, 0, Menu, Both),
   Bound({w1, c1}, 0, 0, {{}, {kimi}}, Home(1, 0)), Bound({w1, w2}, 0, 1, {{}}, Home(0, 2)),
   Bound({c1, c2}, 1, 0, {{}}, Home(1, 0)), Bound({c1, c3}, 1, 1, {{}}, Home(1, 0)),
   Bound({w1, f2}, 1, 0, {{}}, Home(0, 0)), Bound({f1, f2, f3}, 0, 1, {{}}, Home(0, 0))}

Refreshed == {Bound({w1, c1}, 0, 0, {{}}, Home(1, 0))}
=============================================================================

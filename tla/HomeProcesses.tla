--------------------------- MODULE HomeProcesses ---------------------------
(***************************************************************************)
(* The StrongCode processes that share one home directory.  They meet only *)
(* in its files: each may die, and each of their file operations may fail. *)
(***************************************************************************)
EXTENDS Naturals

CONSTANTS
  Processes,   \* StrongCode processes, which have ids of their own for ever
  Actors,      \* what runs in them and waits for files
  ProcessOf,   \* the process of an actor
  NoOne,       \* none of the actors
  Scenarios    \* bounds: who takes part, faults, deaths, and where it starts

ASSUME ActorsAssumption ==
  /\ ProcessOf \in [Actors -> Processes]
  /\ NoOne \notin Actors
  /\ \A s \in Scenarios : s.actors \subseteq Actors /\ s.faults \in Nat /\ s.deaths \in Nat

VARIABLES
  scenario,   \* the bounds of this behaviour, which never change
  dead,       \* processes that ended
  faults      \* operations on files that failed

processVars == <<scenario, dead, faults>>

HomeInit == scenario \in Scenarios /\ dead = {} /\ faults = 0

Alive(a) == ProcessOf[a] \notin dead

TakesPart(a) == a \in scenario.actors /\ Alive(a)

\* An operation on a file works, or fails and throws.
Works == UNCHANGED processVars
Fails == faults < scenario.faults /\ faults' = faults + 1 /\ UNCHANGED <<scenario, dead>>

=============================================================================

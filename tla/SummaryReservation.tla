--------------------------- MODULE SummaryReservation ---------------------------
(***************************************************************************)
(* What the preflight promises about the summary of a session, whatever    *)
(* runs, races, fails or dies below it: the reservation is made once, gets *)
(* at most one verdict, and whoever is told of a verdict is told the one   *)
(* that is recorded.                                                       *)
(***************************************************************************)
CONSTANTS Callers, Verdicts

VARIABLES
  record,   \* "unreserved", "reserved" or a verdict
  heard     \* caller -> the verdict it was told, "nothing" while none

Unheard == "nothing"

Init == record = "unreserved" /\ heard = [c \in Callers |-> Unheard]

Reserve == record = "unreserved" /\ record' = "reserved" /\ UNCHANGED heard

Told(c) == heard[c] = Unheard /\ heard' = [heard EXCEPT ![c] = record']

\* The verdict, which the caller whose request brought it about may learn at once.
Decide ==
  /\ record = "reserved" /\ record' \in Verdicts
  /\ UNCHANGED heard \/ \E c \in Callers : Told(c)

Tell == record \in Verdicts /\ UNCHANGED record /\ \E c \in Callers : Told(c)

Next == Reserve \/ Decide \/ Tell

Spec == Init /\ [][Next]_<<record, heard>>
=============================================================================

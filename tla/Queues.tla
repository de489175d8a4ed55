------------------------------- MODULE Queues -------------------------------
(***************************************************************************)
(* Membership in a FIFO queue.  The proofs about the code's queues speak   *)
(* of what a queue holds instead of where it holds it.                     *)
(***************************************************************************)
EXTENDS Integers, Sequences

InSeq(s, x) == \E i \in DOMAIN s : s[i] = x

Distinct(s) == \A i, j \in DOMAIN s : s[i] = s[j] => i = j

\* The first n entries of a queue.
Prefix(s, n) == { s[i] : i \in 1..n }

=============================================================================

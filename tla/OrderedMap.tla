----------------------------- MODULE OrderedMap -----------------------------
(***************************************************************************)
(* What run_parallel of crates/termproof/src/planner.rs promises: each     *)
(* item is answered once, in whatever order, and the answers are returned  *)
(* all together, in the order of the items.                                *)
(***************************************************************************)
EXTENDS Naturals, Sequences

CONSTANT Pending   \* an item without an answer

VARIABLES
  answers,   \* by position; empty until the items are given
  returned   \* empty until everything is answered

vars == <<answers, returned>>

Init == answers = <<>> /\ returned = <<>>

Submit ==
  /\ answers = <<>>
  /\ answers' \in Seq({Pending}) /\ answers' # <<>>
  /\ UNCHANGED returned

Answer ==
  /\ \E i \in DOMAIN answers :
       /\ answers[i] = Pending
       /\ answers'[i] # Pending
       /\ answers' = [answers EXCEPT ![i] = answers'[i]]
  /\ UNCHANGED returned

Return ==
  /\ answers # <<>> /\ returned = <<>>
  /\ \A i \in DOMAIN answers : answers[i] # Pending
  /\ returned' = answers
  /\ UNCHANGED answers

Next == Submit \/ Answer \/ Return

Spec == Init /\ [][Next]_vars

=============================================================================

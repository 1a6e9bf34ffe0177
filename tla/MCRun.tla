------------------------------- MODULE MCRun -------------------------------
(* Recipes of one step, over one child and a small stream. *)
EXTENDS ScriptedRun

\* Whatever the child and its descendants do the run ends, and no
\* child that its session was given outlives it.
RunCleansUp == RunEnds /\ []NoChildLeft
=============================================================================

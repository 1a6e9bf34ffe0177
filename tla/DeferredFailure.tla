--------------------------- MODULE DeferredFailure ---------------------------
(***************************************************************************)
(* What the module documentation of crates/termproof/src/terminal/driver.rs *)
(* promises a scenario: the whole script is remembered, and what a caller  *)
(* hears about is the first call since the last clear that went wrong, by  *)
(* its operation and its position in the script. No call after it reaches  *)
(* the session, and no read succeeds past it.                              *)
(***************************************************************************)
EXTENDS Naturals, Sequences

CONSTANTS Ops, MaxCalls

VARIABLES
  script,   \* every driving call, with what became of it
  armed,    \* position the scenario has cleared failures up to
  owner,    \* who holds the session
  reply     \* what the last call that answers answered

vars == <<script, armed, owner, reply>>

Causes == {"session", "unsatisfied"}
Results == Causes \cup {"ok", "skipped"}

\* Positions that went wrong and were not cleared.
Failures == {i \in armed + 1 .. Len(script) : script[i].result \in Causes}
Failed == Failures # {}

\* The failure a caller hears about.
IsFirst(f) ==
  /\ f.call \in Failures /\ \A i \in Failures : f.call <= i
  /\ f = [call |-> f.call, op |-> script[f.call].op, cause |-> script[f.call].result]

Failure == [call : 1..MaxCalls, op : Ops, cause : Causes]
Nothing == [answer |-> "none"]
Value == [answer |-> "value"]
Surfaced(f) == [answer |-> "failure", failure |-> f]

Init == script = <<>> /\ armed = 0 /\ owner = "driver" /\ reply = Nothing

\* A call is skipped exactly when the scenario has failed already.
Call ==
  /\ owner = "driver" /\ Len(script) < MaxCalls
  /\ \E op \in Ops, result \in Results :
       /\ result = "skipped" <=> Failed
       /\ script' = Append(script, [op |-> op, result |-> result])
  /\ UNCHANGED <<armed, owner, reply>>

Reports == \E f \in Failure : IsFirst(f) /\ reply' = Surfaced(f)

Read ==
  /\ owner = "driver"
  /\ IF Failed THEN Reports ELSE reply' \in {Value, Nothing}
  /\ UNCHANGED <<script, armed, owner>>

Clear ==
  /\ owner = "driver"
  /\ IF Failed THEN Reports ELSE reply' = Nothing
  /\ armed' = Len(script)
  /\ UNCHANGED <<script, owner>>

\* Reaching around the driver answers whatever the session answers.
Bypass ==
  /\ owner = "driver"
  /\ reply' = Nothing
  /\ UNCHANGED <<script, armed, owner>>

\* A scenario that failed gets its failure in place of the session.
Finish ==
  /\ owner = "driver"
  /\ IF Failed THEN owner' = "dropped" /\ Reports ELSE owner' = "caller" /\ reply' = Value
  /\ UNCHANGED <<script, armed>>

IntoInner ==
  /\ owner = "driver"
  /\ owner' = "caller" /\ reply' = Nothing
  /\ UNCHANGED <<script, armed>>

Next == Call \/ Read \/ Clear \/ Bypass \/ Finish \/ IntoInner

Spec == Init /\ [][Next]_vars

=============================================================================

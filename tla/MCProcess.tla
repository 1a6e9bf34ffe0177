------------------------------ MODULE MCProcess ------------------------------
(* A child with a little output on both streams, one exit code, one signal: *)
(* owned by a session, or by a call that runs it with a deadline.           *)
EXTENDS ProcessSession, CommandRun

VARIABLE owner   \* "session" or "tool"

ownedVars == <<vars, toolVars, owner>>

OwnedInit ==
  /\ Init /\ CallInit
  /\ \/ owner = "session" /\ caller = "returned"
     \/ owner = "tool" /\ caller = "start"

OwnedNext ==
  \/ owner = "session" /\ Next /\ UNCHANGED <<toolVars, owner>>
  \/ owner = "tool" /\ CommandNext /\ UNCHANGED <<sessionVars, owner>>

\* A killed child dies under either owner; the other steps that fairness is about are
\* never enabled under the one they do not belong to.
OwnedSpec == OwnedInit /\ [][OwnedNext]_ownedVars /\ Fairness /\ CommandFairness

\* Both owners: no pipe stays full while somebody holds it, and a wait, a close and a
\* command end if descendants let go of the pipes.
WaitsEnd == PipesDrain /\ WaitEnds /\ CommandReturns
=============================================================================

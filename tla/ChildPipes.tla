------------------------------ MODULE ChildPipes ------------------------------
(***************************************************************************)
(* A child process with its standard streams on pipes, as                  *)
(* std::process::Command starts it for crates/termproof/src/terminal/      *)
(* process.rs and proc.rs. Nothing here is code of the repository: it is   *)
(* the part of the operating system both modules run against.              *)
(*                                                                         *)
(* Output is abstracted to its position in its stream.                     *)
(***************************************************************************)
EXTENDS Naturals, FiniteSets

CONSTANTS
  MaxOut,   \* bound on the output of one stream
  PipeCap,  \* what a pipe holds before a write to it blocks
  Codes,    \* exit codes a child may end with
  Signals,  \* 128 + the number of a signal that may end it
  NoCode    \* Option::None

ASSUME PipesAssumption ==
  /\ MaxOut \in Nat \ {0}
  /\ PipeCap \in Nat \ {0}
  /\ Codes \cap Signals = {}
  /\ NoCode \notin Codes \cup Signals

Streams == {"out", "err"}
Count == 0..MaxOut
Statuses == Codes \cup Signals

VARIABLES
  child,    \* "absent", "running", "zombie" or "reaped"
  status,   \* how it ended
  killed,   \* it has been sent SIGKILL
  holders,  \* streams that a descendant holds open
  written,  \* output written to each pipe
  taken     \* output read from each pipe

pipeVars == <<child, status, killed, holders, written, taken>>

PipesInit ==
  /\ child = "absent" /\ status = NoCode /\ killed = FALSE
  /\ holders = {}
  /\ written = [s \in Streams |-> 0] /\ taken = [s \in Streams |-> 0]

Running == child = "running"
HoldsPipe(s) == Running \/ s \in holders
Full(s) == written[s] - taken[s] = PipeCap

PipeWrite(s) ==
  /\ HoldsPipe(s) /\ ~Full(s)
  /\ written[s] < MaxOut
  /\ written' = [written EXCEPT ![s] = @ + 1]
  /\ UNCHANGED <<child, status, killed, holders, taken>>

\* A descendant inherits the streams it does not redirect.
Fork ==
  /\ Running
  /\ \E inherited \in SUBSET Streams : holders' = holders \cup inherited
  /\ UNCHANGED <<child, status, killed, written, taken>>

Release(s) ==
  /\ s \in holders
  /\ holders' = holders \ {s}
  /\ UNCHANGED <<child, status, killed, written, taken>>

ChildExits ==
  /\ Running
  /\ child' = "zombie"
  /\ status' \in Statuses
  /\ UNCHANGED <<killed, holders, written, taken>>

Environment ==
  \/ \E s \in Streams : PipeWrite(s) \/ Release(s)
  \/ Fork \/ ChildExits

\* A read returns some nonempty part of what the pipe holds, or its end.
Pull(s) == \E n \in (taken[s] + 1)..written[s] : taken' = [taken EXCEPT ![s] = n]
AtEnd(s) == ~HoldsPipe(s) /\ taken[s] = written[s]

PipesTypeOK ==
  /\ child \in {"absent", "running", "zombie", "reaped"}
  /\ status \in Statuses \cup {NoCode}
  /\ killed \in BOOLEAN
  /\ holders \in SUBSET Streams
  /\ written \in [Streams -> Count]
  /\ taken \in [Streams -> Count]

=============================================================================

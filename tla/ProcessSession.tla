---------------------------- MODULE ProcessSession ----------------------------
(***************************************************************************)
(* ProcessSession of crates/termproof/src/terminal/process.rs: a child on  *)
(* three pipes, one reader thread for stdout and one for stderr, and the   *)
(* thread that writes to it, waits for it and closes it.                   *)
(***************************************************************************)
EXTENDS ChildPipes

CONSTANTS StdinCap   \* what the stdin pipe holds before a write to it blocks

ASSUME ProcessAssumption == StdinCap \in Nat \ {0}

VARIABLES
  unread,     \* input the child has not read
  reader,     \* where in its loop the reader of each stream is
  own,        \* stdout_buf and stderr_buf
  combined,   \* what the combined buffer holds of each stream
  stdin,      \* stdin.is_some()
  handles,    \* reader threads not joined yet
  exit_code,
  timed_out,  \* the accessor of that name
  call,       \* the call in progress that reaps and joins
  pc, ret,    \* its step, and the last answer
  expired,    \* the deadline of the step has passed
  late,       \* this wait timed out
  output      \* the ProcessOutput of the last wait

readerVars == <<reader, own, combined>>
callVars == <<call, pc, ret, expired, late, output>>
vars == <<pipeVars, unread, readerVars, stdin, handles, exit_code, timed_out, callVars>>

Empty == [s \in Streams |-> 0]
NoOutput == [own |-> Empty, combined |-> Empty, code |-> NoCode, late |-> FALSE]

Init ==
  /\ PipesInit
  /\ unread = 0
  /\ reader = [s \in Streams |-> "absent"] /\ own = Empty /\ combined = Empty
  /\ stdin = FALSE /\ handles = {}
  /\ exit_code = NoCode /\ timed_out = FALSE
  /\ call = "none" /\ pc = "ready" /\ ret = "none"
  /\ expired = FALSE /\ late = FALSE
  /\ output = NoOutput

-----------------------------------------------------------------------------
ChildReads ==
  /\ Running /\ unread > 0
  /\ unread' = unread - 1
  /\ UNCHANGED <<pipeVars, readerVars, stdin, handles, exit_code, timed_out, callVars>>

sessionVars == <<unread, readerVars, stdin, handles, exit_code, timed_out, callVars>>

Background == Environment /\ UNCHANGED sessionVars
KilledChildDies == killed /\ ChildExits /\ UNCHANGED sessionVars

-----------------------------------------------------------------------------
(* A reader thread: one read, then one lock after the other.               *)

ReadChunk(s) ==
  /\ reader[s] = "read"
  /\ Pull(s)
  /\ reader' = [reader EXCEPT ![s] = "own"]
  /\ UNCHANGED <<child, status, killed, holders, written, unread, own, combined, stdin,
                 handles, exit_code, timed_out, callVars>>

AppendOwn(s) ==
  /\ reader[s] = "own"
  /\ own' = [own EXCEPT ![s] = taken[s]]
  /\ reader' = [reader EXCEPT ![s] = "combined"]
  /\ UNCHANGED <<pipeVars, unread, combined, stdin, handles, exit_code, timed_out,
                 callVars>>

AppendCombined(s) ==
  /\ reader[s] = "combined"
  /\ combined' = [combined EXCEPT ![s] = taken[s]]
  /\ reader' = [reader EXCEPT ![s] = "read"]
  /\ UNCHANGED <<pipeVars, unread, own, stdin, handles, exit_code, timed_out, callVars>>

ReadEnd(s) ==
  /\ reader[s] = "read"
  /\ AtEnd(s)
  /\ reader' = [reader EXCEPT ![s] = "done"]
  /\ UNCHANGED <<pipeVars, unread, own, combined, stdin, handles, exit_code, timed_out,
                 callVars>>

ReaderStep(s) == ReadChunk(s) \/ AppendOwn(s) \/ AppendCombined(s) \/ ReadEnd(s)

-----------------------------------------------------------------------------
(* Pieces the calls share.                                                 *)

Answer(a) == pc' = "ready" /\ ret' = a /\ call' = "none"
Goto(step) == pc' = step /\ UNCHANGED <<call, ret>>

\* is_alive(): reaps a child that is gone and stores its code the first time.
Collect ==
  /\ child' = IF child = "zombie" THEN "reaped" ELSE child
  /\ exit_code' = IF child \in {"zombie", "reaped"} /\ exit_code = NoCode THEN status
                  ELSE exit_code

\* Faulty: the code the kill should lead to is recorded with the kill.
KillAndAssume ==
  /\ killed' = (killed \/ Running)
  /\ stdin' = IF child = "absent" THEN stdin ELSE FALSE
  /\ child' = child
  /\ exit_code' = IF Running /\ exit_code = NoCode THEN CHOOSE c \in Signals : TRUE
                  ELSE exit_code

\* Faulty: the tree is left alone, only stdin is closed.
KillNothing ==
  /\ killed' = killed
  /\ stdin' = IF child = "absent" THEN stdin ELSE FALSE
  /\ child' = child /\ exit_code' = exit_code

\* kill_tree(): kills the direct child, and drops stdin.
KillTree ==
  /\ killed' = (killed \/ Running)
  /\ stdin' = IF child = "absent" THEN stdin ELSE FALSE
  /\ child' = child /\ exit_code' = exit_code

environmentFrame == <<status, holders, written, taken, unread, readerVars>>

-----------------------------------------------------------------------------
(* Starting the child and writing to it.                                   *)

\* A session spawns once: the child is never taken out of it again.
Spawn ==
  /\ pc = "ready" /\ child = "absent"
  /\ child' = "running" /\ stdin' = TRUE
  /\ reader' = [s \in Streams |-> "read"] /\ handles' = Streams
  /\ Answer("ok")
  /\ UNCHANGED <<status, killed, holders, written, taken, unread, own, combined, exit_code,
                 timed_out, expired, late, output>>

SpawnFails ==
  /\ pc = "ready" /\ child = "absent"
  /\ Answer("err")
  /\ UNCHANGED <<pipeVars, unread, readerVars, stdin, handles, exit_code, timed_out, expired,
                 late, output>>

BeginWrite ==
  /\ pc = "ready"
  /\ \/ ~stdin /\ Answer("not_started")
     \/ stdin /\ Goto("write")
  /\ UNCHANGED <<pipeVars, unread, readerVars, stdin, handles, exit_code, timed_out, expired,
                 late, output>>

\* The write blocks on a full pipe, and breaks once nobody can read it.
Write ==
  /\ pc = "write"
  /\ \/ Running /\ unread < StdinCap /\ unread' = unread + 1 /\ Answer("ok")
     \/ ~Running /\ UNCHANGED unread /\ Answer("err")
  /\ UNCHANGED <<pipeVars, readerVars, stdin, handles, exit_code, timed_out, expired, late,
                 output>>

SendEof ==
  /\ pc = "ready"
  /\ stdin' = FALSE
  /\ Answer("ok")
  /\ UNCHANGED <<pipeVars, unread, readerVars, handles, exit_code, timed_out, expired, late,
                 output>>

IsAlive ==
  /\ pc = "ready"
  /\ Collect
  /\ UNCHANGED <<environmentFrame, killed, stdin, handles, timed_out, callVars>>

Kill ==
  /\ pc = "ready"
  /\ KillTree
  /\ Answer("ok")
  /\ UNCHANGED <<environmentFrame, handles, timed_out, expired, late, output>>

-----------------------------------------------------------------------------
(* wait_with_timeout(): is the child gone, has the deadline passed, sleep. *)

BeginWait ==
  /\ pc = "ready"
  /\ \/ /\ child = "absent" /\ Answer("not_started")
        /\ UNCHANGED <<expired, late>>
     \/ /\ child # "absent"
        /\ call' = "wait" /\ pc' = "wait_poll" /\ ret' = "none"
        /\ expired' \in BOOLEAN /\ late' = FALSE
  /\ UNCHANGED <<pipeVars, unread, readerVars, stdin, handles, exit_code, timed_out, output>>

WaitPoll ==
  /\ pc = "wait_poll"
  /\ Collect
  /\ Goto(IF Running THEN "wait_deadline" ELSE "reap")
  /\ UNCHANGED <<environmentFrame, killed, stdin, handles, timed_out, expired, late, output>>

\* The child may have gone since it was looked at: it counts as late all the same.
WaitDeadline ==
  /\ pc = "wait_deadline"
  /\ \/ /\ ~expired
        /\ Goto("wait_poll")
        /\ UNCHANGED <<child, killed, stdin, exit_code, timed_out, expired, late>>
     \/ /\ expired
        /\ timed_out' = TRUE /\ late' = TRUE
        /\ KillTree
        /\ expired' = FALSE
        /\ Goto("wait_grace")
  /\ UNCHANGED <<environmentFrame, handles, output>>

WaitGrace ==
  /\ pc = "wait_grace"
  /\ \/ ~Running /\ Collect /\ UNCHANGED <<killed, stdin>>
     \/ Running /\ expired /\ KillTree
  /\ expired' = FALSE
  /\ Goto("reap")
  /\ UNCHANGED <<environmentFrame, handles, timed_out, late, output>>

DeadlinePasses ==
  /\ pc \in {"wait_poll", "wait_deadline", "wait_grace"}
  /\ ~expired
  /\ expired' = TRUE
  /\ UNCHANGED <<pipeVars, unread, readerVars, stdin, handles, exit_code, timed_out, call,
                 pc, ret, late, output>>

-----------------------------------------------------------------------------
(* reap_if_needed() and join_reader_threads(), which wait and close share. *)

Reap ==
  /\ pc = "reap"
  /\ Collect
  /\ Goto(IF Running THEN "reap_again" ELSE "join_out")
  /\ UNCHANGED <<environmentFrame, killed, stdin, handles, timed_out, expired, late, output>>

\* The second look drops what it finds, the third knows no signals.
ReapAgain ==
  /\ pc = "reap_again"
  /\ child' = IF child = "zombie" THEN "reaped" ELSE child
  /\ exit_code' = IF child = "zombie" /\ exit_code = NoCode /\ status \in Codes
                  THEN status ELSE exit_code
  /\ Goto("join_out")
  /\ UNCHANGED <<environmentFrame, killed, stdin, handles, timed_out, expired, late, output>>

\* Faulty: the handle is dropped, the thread goes on.
JoinDropped(s, next) ==
  /\ handles' = handles \ {s}
  /\ Goto(next)
  /\ UNCHANGED <<pipeVars, unread, readerVars, stdin, exit_code, timed_out, expired, late,
                 output>>

Join(s, next) ==
  /\ s \in handles => reader[s] = "done"
  /\ handles' = handles \ {s}
  /\ Goto(next)
  /\ UNCHANGED <<pipeVars, unread, readerVars, stdin, exit_code, timed_out, expired, late,
                 output>>

JoinOut == pc = "join_out" /\ Join("out", "join_err")
JoinErr == pc = "join_err" /\ Join("err", "finish")

WaitReturns ==
  /\ pc = "finish" /\ call = "wait"
  /\ output' = [own |-> own, combined |-> combined, code |-> exit_code, late |-> late]
  /\ Answer("waited")
  /\ UNCHANGED <<pipeVars, unread, readerVars, stdin, handles, exit_code, timed_out, expired,
                 late>>

-----------------------------------------------------------------------------
(* close(), which Drop runs as well.                                       *)

BeginClose ==
  /\ pc = "ready"
  /\ \/ Running /\ KillTree
     \/ ~Running /\ Collect /\ UNCHANGED <<killed, stdin>>
  /\ call' = "close" /\ pc' = "reap" /\ ret' = "none"
  /\ UNCHANGED <<environmentFrame, handles, timed_out, expired, late, output>>

CloseReturns ==
  /\ pc = "finish" /\ call = "close"
  /\ stdin' = FALSE
  /\ Answer("closed")
  /\ UNCHANGED <<pipeVars, unread, readerVars, handles, exit_code, timed_out, expired, late,
                 output>>

-----------------------------------------------------------------------------
CallStart ==
  \/ Spawn \/ SpawnFails \/ BeginWrite \/ SendEof \/ IsAlive \/ Kill
  \/ BeginWait \/ BeginClose

CallStep ==
  \/ Write \/ WaitPoll \/ WaitDeadline \/ WaitGrace \/ Reap \/ ReapAgain
  \/ JoinOut \/ JoinErr \/ WaitReturns \/ CloseReturns

Next ==
  \/ Background \/ ChildReads
  \/ \E s \in Streams : ReaderStep(s)
  \/ DeadlinePasses
  \/ CallStart
  \/ CallStep

(* All three threads are scheduled, time passes, a killed child dies.       *)
Fairness ==
  /\ WF_vars(CallStep)
  /\ WF_vars(DeadlinePasses)
  /\ \A s \in Streams : WF_vars(ReaderStep(s))
  /\ WF_vars(KilledChildDies)

Spec == Init /\ [][Next]_vars
FairSpec == Spec /\ Fairness

-----------------------------------------------------------------------------
Steps == {"ready", "write", "wait_poll", "wait_deadline", "wait_grace", "reap",
          "reap_again", "join_out", "join_err", "finish"}
MaybeCode == Statuses \cup {NoCode}
Buffers == [Streams -> Count]

\* Every variable stays in its range.
TypeOK ==
  /\ PipesTypeOK
  /\ unread \in 0..StdinCap
  /\ reader \in [Streams -> {"absent", "read", "own", "combined", "done"}]
  /\ own \in Buffers /\ combined \in Buffers
  /\ stdin \in BOOLEAN /\ handles \in SUBSET Streams
  /\ exit_code \in MaybeCode /\ timed_out \in BOOLEAN
  /\ call \in {"none", "wait", "close"} /\ pc \in Steps
  /\ ret \in {"none", "ok", "err", "not_started", "waited", "closed"}
  /\ expired \in BOOLEAN /\ late \in BOOLEAN
  /\ output \in [own : Buffers, combined : Buffers, code : MaybeCode, late : BOOLEAN]

\* A code the session reports is the one the child ended with, whichever of the
\* places that reap it came first.
ExitCodeTrue == exit_code # NoCode => child = "reaped" /\ exit_code = status

\* A wait answers with all that the child and its descendants ever wrote, in both
\* views of it; and unless it had to kill, with the child's exit code.
ResultIsTrue ==
  pc = "ready" /\ ret = "waited" =>
    /\ output.own = written /\ output.combined = written
    /\ output.late \/ (output.code # NoCode /\ output.code = status)

\* A pipe does not stay full while somebody holds it: the readers drain it whatever
\* the caller is doing, so a child is never kept from exiting by its own output.
PipesDrain == \A s \in Streams : (HoldsPipe(s) /\ Full(s)) ~> ~Full(s)

\* A wait ends at its deadline at the latest, and a close at once, if descendants let
\* go of the pipes some day.
WaitEnds == (<>[](holders = {})) => (call \in {"wait", "close"} ~> pc = "ready")

\* What the documentation of the type says and the code does not do: "`close` and
\* `Drop` guarantee the child is terminated and reaped so no zombie or orphan remains".
ReapedByClose == pc = "ready" /\ ret = "closed" => child \in {"absent", "reaped"}

=============================================================================

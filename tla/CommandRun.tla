------------------------------ MODULE CommandRun ------------------------------
(***************************************************************************)
(* An external tool run with a deadline: run_capturing_timeout and         *)
(* run_with_timeout of crates/termproof/src/terminal/proc.rs, called by    *)
(* run_tool of crates/termproof/src/evidence/uploader.rs. The caller polls *)
(* the child while two threads drain its pipes; the tool, what it starts,  *)
(* and the kernel's pipes are those of ChildPipes.                         *)
(***************************************************************************)
EXTENDS ChildPipes

CONSTANT Timeout   \* the deadline, in polls of 50 ms

ASSUME CommandAssumption == Timeout \in Nat

VARIABLES
  caller,     \* where the caller is
  attempt,    \* 1: the bare name, 2: the one in /usr/local/bin
  waited,     \* polls slept through
  timedOut,
  drains,     \* the drain threads: "none", "reading" or "ended"
  collected,  \* what the caller got of each stream
  answer      \* of run_tool

toolVars == <<caller, attempt, waited, timedOut, drains, collected, answer>>
commandVars == <<pipeVars, toolVars>>

NoAnswer == "none"
Ok == "ok"
Failed == "failed"
TimedOut == "timed_out"
Refused == "io_error"

CallInit ==
  /\ attempt = 1 /\ waited = 0 /\ timedOut = FALSE
  /\ drains = [s \in Streams |-> "none"] /\ collected = [s \in Streams |-> 0]
  /\ answer = NoAnswer

CommandInit == PipesInit /\ caller = "start" /\ CallInit

Return(value) == caller' = "returned" /\ answer' = value

-----------------------------------------------------------------------------
(* Starting the tool.                                                      *)

SpawnTool ==
  /\ caller = "start"
  /\ child' = "running"
  /\ drains' = [s \in Streams |-> "reading"]
  /\ caller' = "poll"
  /\ UNCHANGED <<status, killed, holders, written, taken, attempt, waited, timedOut,
                 collected, answer>>

\* Only a name that is not found is looked for in a second place.
SpawnToolNotFound ==
  /\ caller = "start"
  /\ \/ attempt = 1 /\ attempt' = 2 /\ UNCHANGED <<caller, answer>>
     \/ attempt = 2 /\ Return(Refused) /\ UNCHANGED attempt
  /\ UNCHANGED <<pipeVars, waited, timedOut, drains, collected>>

SpawnToolFails ==
  /\ caller = "start"
  /\ Return(Refused)
  /\ UNCHANGED <<pipeVars, attempt, waited, timedOut, drains, collected>>

-----------------------------------------------------------------------------
(* The caller: look, kill at the deadline, sleep; then wait and join.      *)

SeesExit ==
  /\ caller = "poll" /\ child = "zombie"
  /\ child' = "reaped" /\ caller' = "join"
  /\ UNCHANGED <<status, killed, holders, written, taken, attempt, waited, timedOut,
                 drains, collected, answer>>

SeesRunning ==
  /\ caller = "poll" /\ child = "running"
  /\ caller' = IF waited >= Timeout THEN "kill" ELSE "sleep"
  /\ UNCHANGED <<pipeVars, attempt, waited, timedOut, drains, collected, answer>>

Sleep ==
  /\ caller = "sleep"
  /\ waited' = waited + 1 /\ caller' = "poll"
  /\ UNCHANGED <<pipeVars, attempt, timedOut, drains, collected, answer>>

KillAtDeadline ==
  /\ caller = "kill"
  /\ killed' = TRUE /\ timedOut' = TRUE /\ caller' = "wait"
  /\ UNCHANGED <<child, status, holders, written, taken, attempt, waited, drains,
                 collected, answer>>

\* try_wait or kill refuse: the caller leaves, child and threads go on.
Abandon ==
  /\ caller \in {"poll", "kill"}
  /\ Return(Refused)
  /\ UNCHANGED <<pipeVars, attempt, waited, timedOut, drains, collected>>

WaitForTool ==
  /\ caller = "wait" /\ child = "zombie"
  /\ child' = "reaped" /\ caller' = "join"
  /\ UNCHANGED <<status, killed, holders, written, taken, attempt, waited, timedOut,
                 drains, collected, answer>>

\* Both threads; a join has no limit of its own.
JoinDrains ==
  /\ caller = "join" /\ \A s \in Streams : drains[s] = "ended"
  /\ collected' = taken
  /\ caller' = "answer"
  /\ UNCHANGED <<pipeVars, attempt, waited, timedOut, drains, answer>>

\* Faulty: judges the exit code of a tool that was killed as its own.
JudgeByStatus ==
  /\ caller = "answer"
  /\ Return(IF status = 0 THEN Ok ELSE Failed)
  /\ UNCHANGED <<pipeVars, attempt, waited, timedOut, drains, collected>>

\* run_with_timeout drops the output of a tool that timed out.
JudgeTool ==
  /\ caller = "answer"
  /\ Return(IF timedOut THEN TimedOut ELSE IF status = 0 THEN Ok ELSE Failed)
  /\ UNCHANGED <<pipeVars, attempt, waited, timedOut, drains, collected>>

CallerStep ==
  \/ SpawnTool \/ SpawnToolNotFound \/ SpawnToolFails \/ SeesExit \/ SeesRunning \/ Sleep \/ KillAtDeadline
  \/ Abandon \/ WaitForTool \/ JoinDrains \/ JudgeTool

-----------------------------------------------------------------------------
DrainChunk(s) ==
  /\ drains[s] = "reading"
  /\ Pull(s)
  /\ UNCHANGED <<child, status, killed, holders, written, toolVars>>

DrainEnd(s) ==
  /\ drains[s] = "reading"
  /\ AtEnd(s)
  /\ drains' = [drains EXCEPT ![s] = "ended"]
  /\ UNCHANGED <<pipeVars, caller, attempt, waited, timedOut, collected, answer>>

DrainStep(s) == DrainChunk(s) \/ DrainEnd(s)

\* A child that was sent the signal dies of it, unless it ends by itself first.
KilledDies ==
  /\ Running /\ killed
  /\ child' = "zombie" /\ status' \in Signals
  /\ UNCHANGED <<killed, holders, written, taken, toolVars>>

ToolStep == Environment /\ UNCHANGED toolVars

CommandNext == CallerStep \/ (\E s \in Streams : DrainStep(s)) \/ KilledDies \/ ToolStep

CommandSpec == CommandInit /\ [][CommandNext]_commandVars

\* The three threads are scheduled, and a killed process dies; nothing is assumed of
\* the tool, nor of what it leaves behind.
CommandFairness ==
  /\ WF_commandVars(CallerStep)
  /\ \A s \in Streams : WF_commandVars(DrainStep(s))
  /\ WF_commandVars(KilledDies)

FairCommand == CommandSpec /\ CommandFairness

-----------------------------------------------------------------------------
CommandTypeOK ==
  /\ PipesTypeOK
  /\ caller \in {"start", "poll", "sleep", "kill", "wait", "join", "answer", "returned"}
  /\ attempt \in {1, 2} /\ waited \in 0..Timeout /\ timedOut \in BOOLEAN
  /\ drains \in [Streams -> {"none", "reading", "ended"}]
  /\ collected \in [Streams -> Count]
  /\ answer \in {NoAnswer, Ok, Failed, TimedOut, Refused}

\* An answer other than a refusal is of a tool that is dead and reaped, and comes with
\* everything that it and its descendants wrote, up to the deadline and after it. A tool
\* is only reported to have succeeded or failed if it ended by itself, and only reported
\* to have timed out if it was given the whole time.
AnswerTrue ==
  /\ answer \in {Ok, Failed, TimedOut} => child = "reaped" /\ collected = written
  /\ answer \in {Ok, Failed} => ~killed /\ (answer = Ok <=> status = 0)
  /\ answer = TimedOut => killed /\ waited = Timeout

\* A call returns when descendants let go of the pipes some day, whatever the tool does.
CommandReturns == <>[](holders = {}) => (caller # "start" ~> caller = "returned")

=============================================================================

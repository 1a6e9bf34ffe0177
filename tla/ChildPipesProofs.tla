-------------------------- MODULE ChildPipesProofs --------------------------
(***************************************************************************)
(* Proofs about what runs a child on pipes, for any amount of output, any  *)
(* capacity of the pipes and any set of exit codes and signals. The code a *)
(* ProcessSession reports is the child's, and what a wait answers is all   *)
(* that was written; what CommandRun answers of a tool is true of it, for  *)
(* any deadline.                                                           *)
(***************************************************************************)
EXTENDS ProcessSession, CommandRun, TLAPS

\* What a reader has stored never differs from what it took, except for the one
\* chunk in its hands; and one that has ended has left nothing behind.
Pipeline ==
  \A s \in Streams :
    /\ child = "absent" <=> reader[s] = "absent"
    /\ reader[s] \in {"absent", "read", "done"} => own[s] = taken[s] /\ combined[s] = taken[s]
    /\ reader[s] = "combined" => own[s] = taken[s]
    /\ reader[s] = "done" => ~HoldsPipe(s) /\ taken[s] = written[s]

\* A reader nobody is going to join any more has ended.
Joined ==
  /\ child # "absent" => \A s \in Streams : s \in handles \/ reader[s] = "done"
  /\ pc \in {"join_err", "finish"} => "out" \notin handles
  /\ pc = "finish" => "err" \notin handles

\* Where a wait has got to, and what it knows by then.
Waiting ==
  /\ pc \in {"wait_poll", "wait_deadline", "wait_grace"} => call = "wait"
  /\ pc = "wait_grace" => late
  /\ pc \in {"ready", "write"} => call = "none"
  /\ call = "wait" => child # "absent"
  /\ (call = "wait" /\ pc \in {"reap", "reap_again", "join_out", "join_err", "finish"})
       => late \/ exit_code # NoCode

Ended == child \in {"zombie", "reaped"} => status \in Statuses

\* ResultIsTrue and why it stays true: no one is left who could write.
Result ==
  pc = "ready" /\ ret = "waited" =>
    /\ \A s \in Streams : reader[s] = "done"
    /\ output.own = written /\ output.combined = written
    /\ output.late \/ (child = "reaped" /\ output.code # NoCode /\ output.code = status)

Inv == TypeOK /\ Pipeline /\ Joined /\ Waiting /\ Ended /\ ExitCodeTrue /\ Result

LEMMA InitInv ==
  ASSUME Init
  PROVE  Inv
<1> USE PipesAssumption, ProcessAssumption
<1>1. TypeOK
  <2>1. Empty \in Buffers /\ 0 \in 0..StdinCap
    BY DEF Empty, Buffers, Count
  <2>2. NoOutput \in [own : Buffers, combined : Buffers, code : MaybeCode, late : BOOLEAN]
    BY <2>1 DEF NoOutput, MaybeCode
  <2>3. PipesTypeOK
    BY <2>1 DEF Init, PipesInit, PipesTypeOK, Empty, Buffers
  <2> QED
    BY <2>1, <2>2, <2>3 DEF Init, TypeOK, MaybeCode, Steps
<1>2. Pipeline /\ Joined /\ Waiting /\ Ended /\ ExitCodeTrue /\ Result
  BY DEF Init, PipesInit, Pipeline, Joined, Waiting, Ended, ExitCodeTrue, Result, Empty
<1> QED
  BY <1>1, <1>2 DEF Inv

-----------------------------------------------------------------------------
(* A step outside the calls: the child and its descendants, or a reader.   *)

LEMMA BackgroundStep ==
  ASSUME Inv, Background \/ ChildReads
  PROVE  Inv'
<1> USE PipesAssumption, ProcessAssumption
<1>1. TypeOK'
  <2>1. CASE \E s \in Streams : PipeWrite(s) /\ UNCHANGED sessionVars
    BY <2>1 DEF Inv, TypeOK, PipesTypeOK, PipeWrite, sessionVars, readerVars, callVars, Count,
                Buffers
  <2>2. CASE (\E s \in Streams : Release(s)) /\ UNCHANGED sessionVars
    BY <2>2 DEF Inv, TypeOK, PipesTypeOK, Release, sessionVars, readerVars, callVars
  <2>3. CASE (Fork \/ ChildExits) /\ UNCHANGED sessionVars
    BY <2>3 DEF Inv, TypeOK, PipesTypeOK, Fork, ChildExits, sessionVars, readerVars, callVars
  <2>4. CASE ChildReads
    BY <2>4 DEF Inv, TypeOK, PipesTypeOK, ChildReads, pipeVars, readerVars, callVars
  <2> QED
    BY <2>1, <2>2, <2>3, <2>4 DEF Background, Environment
<1>2. Pipeline' /\ Result'
  <2>1. \A s \in Streams : reader[s] = "done" => written'[s] = written[s]
    BY DEF Inv, Pipeline, TypeOK, PipesTypeOK, Background, Environment, PipeWrite, Release,
           Fork, ChildExits, ChildReads, pipeVars, HoldsPipe
  <2>2. \A s \in Streams : reader[s] = "done" => ~HoldsPipe(s)'
    BY DEF Inv, Pipeline, Background, Environment, PipeWrite, Release,
           Fork, ChildExits, ChildReads, pipeVars, HoldsPipe, Running
  <2>3. /\ UNCHANGED <<reader, own, combined, taken, pc, ret, output>>
        /\ child' = "absent" <=> child = "absent"
    BY DEF Background, Environment, PipeWrite, Release, Fork, ChildExits, ChildReads,
           sessionVars, pipeVars, readerVars, callVars, Running
  <2>4. Pipeline'
    BY <2>1, <2>2, <2>3 DEF Inv, Pipeline
  <2>5. (\A s \in Streams : reader[s] = "done") => written' = written
    BY <2>1 DEF Inv, TypeOK, PipesTypeOK, Background, Environment, PipeWrite, Release,
           Fork, ChildExits, ChildReads, pipeVars
  <2>6. child = "reaped" => child' = child /\ status' = status
    BY DEF Background, Environment, PipeWrite, Release, Fork, ChildExits, ChildReads, pipeVars,
           Running
  <2>7. Result'
    BY <2>3, <2>5, <2>6 DEF Inv, Result
  <2> QED
    BY <2>4, <2>7
<1>3. Joined' /\ Waiting' /\ Ended' /\ ExitCodeTrue'
  BY DEF Inv, Joined, Waiting, Ended, ExitCodeTrue, Background, Environment, PipeWrite,
         Release, Fork, ChildExits, ChildReads, sessionVars, pipeVars, readerVars, callVars,
         Running
<1> QED
  BY <1>1, <1>2, <1>3 DEF Inv

LEMMA ReaderKeepsInv ==
  ASSUME Inv, NEW s \in Streams, ReaderStep(s)
  PROVE  Inv'
<1>1. reader[s] \notin {"absent", "done"}
  BY DEF ReaderStep, ReadChunk, AppendOwn, AppendCombined, ReadEnd
<1>2. TypeOK'
  <2>0. /\ reader \in [Streams -> {"absent", "read", "own", "combined", "done"}]
        /\ taken \in [Streams -> Count] /\ written[s] \in Count /\ taken[s] \in Count
    BY DEF Inv, TypeOK, PipesTypeOK
  <2>1. reader' \in [Streams -> {"absent", "read", "own", "combined", "done"}]
    BY <2>0 DEF ReaderStep, ReadChunk, AppendOwn, AppendCombined, ReadEnd
  <2>4. taken' \in [Streams -> Count]
    <3>1. CASE ReadChunk(s)
      <4>1. PICK n \in (taken[s] + 1)..written[s] : taken' = [taken EXCEPT ![s] = n]
        BY <3>1 DEF ReadChunk, Pull
      <4>2. n \in Count
        BY <2>0, PipesAssumption DEF Count
      <4> QED
        BY <2>0, <4>1, <4>2
    <3> QED
      BY <2>0, <3>1 DEF ReaderStep, AppendOwn, AppendCombined, ReadEnd, pipeVars
  <2>2. own' \in Buffers /\ combined' \in Buffers
    BY DEF Inv, TypeOK, PipesTypeOK, ReaderStep, ReadChunk, AppendOwn, AppendCombined, ReadEnd,
           Buffers
  <2>3. /\ UNCHANGED <<child, status, killed, holders, written, unread>>
        /\ UNCHANGED <<stdin, handles, exit_code, timed_out, callVars>>
    BY DEF ReaderStep, ReadChunk, AppendOwn, AppendCombined, ReadEnd, pipeVars
  <2> QED
    BY <2>1, <2>2, <2>3, <2>4 DEF Inv, TypeOK, PipesTypeOK, callVars
<1>3. Pipeline'
  <2>1. CASE ReadChunk(s)
    BY <2>1 DEF Inv, Pipeline, TypeOK, PipesTypeOK, ReadChunk, Pull, HoldsPipe, Running
  <2>2. CASE AppendOwn(s)
    BY <2>2 DEF Inv, Pipeline, TypeOK, PipesTypeOK, AppendOwn, pipeVars, HoldsPipe, Running,
                Buffers
  <2>3. CASE AppendCombined(s)
    BY <2>3 DEF Inv, Pipeline, TypeOK, PipesTypeOK, AppendCombined, pipeVars, HoldsPipe,
                Running, Buffers
  <2>4. CASE ReadEnd(s)
    BY <2>4 DEF Inv, Pipeline, TypeOK, PipesTypeOK, ReadEnd, pipeVars, HoldsPipe, Running,
                AtEnd
  <2> QED
    BY <2>1, <2>2, <2>3, <2>4 DEF ReaderStep
<1>4. Joined'
  BY <1>1 DEF Inv, Joined, TypeOK, ReaderStep, ReadChunk, AppendOwn, AppendCombined, ReadEnd,
              pipeVars, callVars
<1>5. Waiting' /\ Ended' /\ ExitCodeTrue'
  BY DEF Inv, Waiting, Ended, ExitCodeTrue, ReaderStep, ReadChunk, AppendOwn, AppendCombined,
         ReadEnd, pipeVars, callVars
<1>6. Result'
  BY <1>1 DEF Inv, Result, ReaderStep, ReadChunk, AppendOwn, AppendCombined, ReadEnd, pipeVars,
              callVars
<1> QED
  BY <1>2, <1>3, <1>4, <1>5, <1>6 DEF Inv

-----------------------------------------------------------------------------
(* A step of the calling thread.                                           *)

LEMMA CallTypes ==
  ASSUME Inv, CallStart \/ CallStep \/ DeadlinePasses
  PROVE  TypeOK'
<1> USE PipesAssumption, ProcessAssumption DEF TypeOK, PipesTypeOK
<1>0. CASE Spawn
  BY <1>0 DEF Inv, Spawn, Answer, Steps
<1>1. CASE SpawnFails \/ BeginWrite \/ Write \/ SendEof
  <2>1. /\ pc' \in Steps /\ call' \in {"none", "wait", "close"}
        /\ ret' \in {"ok", "err", "not_started", ret}
    BY <1>1 DEF Inv, SpawnFails, BeginWrite, Write, SendEof, Answer, Goto, Steps
  <2>0. unread \in 0..StdinCap /\ stdin \in BOOLEAN
    BY DEF Inv
  <2>2. unread' \in 0..StdinCap
    <3>1. \/ unread' = unread
          \/ unread < StdinCap /\ unread' = unread + 1
      BY <1>1 DEF SpawnFails, BeginWrite, Write, SendEof
    <3> QED
      BY <2>0, <3>1
  <2>3. stdin' \in BOOLEAN
    BY <1>1, <2>0 DEF SpawnFails, BeginWrite, Write, SendEof
  <2> QED
    BY <1>1, <2>1, <2>2, <2>3 DEF Inv, SpawnFails, BeginWrite, Write, SendEof, pipeVars, readerVars
<1>2. CASE IsAlive \/ WaitPoll \/ Reap
  <2>1. child' \in {"absent", "running", "zombie", "reaped"} /\ exit_code' \in MaybeCode
    BY <1>2 DEF Inv, IsAlive, WaitPoll, Reap, Collect, MaybeCode
  <2>2. pc' \in Steps /\ UNCHANGED <<call, ret, expired, late, output>>
    BY <1>2 DEF Inv, IsAlive, WaitPoll, Reap, Goto, callVars, Steps
  <2> QED
    BY <1>2, <2>1, <2>2 DEF Inv, IsAlive, WaitPoll, Reap, environmentFrame, readerVars
<1>3. CASE Kill \/ WaitDeadline
  <2>1. killed' \in BOOLEAN /\ stdin' \in BOOLEAN /\ UNCHANGED <<child, exit_code>>
    BY <1>3 DEF Inv, Kill, WaitDeadline, KillTree, Running
  <2>2. pc' \in Steps /\ call' \in {"none", "wait", "close"} /\ ret' \in {"ok", ret}
    BY <1>3 DEF Inv, Kill, WaitDeadline, Answer, Goto, Steps
  <2>3. timed_out' \in BOOLEAN /\ expired' \in BOOLEAN /\ late' \in BOOLEAN
    BY <1>3 DEF Inv, Kill, WaitDeadline
  <2> QED
    BY <1>3, <2>1, <2>2, <2>3 DEF Inv, Kill, WaitDeadline, environmentFrame, readerVars
<1>4. CASE WaitGrace \/ BeginClose
  <2>1. /\ killed' \in BOOLEAN /\ stdin' \in BOOLEAN
        /\ child' \in {"absent", "running", "zombie", "reaped"} /\ exit_code' \in MaybeCode
    BY <1>4 DEF Inv, WaitGrace, BeginClose, KillTree, Collect, MaybeCode, Running
  <2>2. /\ pc' \in Steps /\ call' \in {"none", "wait", "close"} /\ ret' \in {"none", ret}
        /\ expired' \in BOOLEAN
    BY <1>4 DEF Inv, WaitGrace, BeginClose, Goto, Steps
  <2> QED
    BY <1>4, <2>1, <2>2 DEF Inv, WaitGrace, BeginClose, environmentFrame, readerVars
<1>5. CASE ReapAgain
  BY <1>5 DEF Inv, ReapAgain, Goto, environmentFrame, readerVars, Steps, MaybeCode, Statuses
<1>6. CASE JoinOut \/ JoinErr
  <2>1. handles' \in SUBSET Streams /\ pc' \in Steps
    BY <1>6 DEF Inv, JoinOut, JoinErr, Join, Goto, Steps
  <2> QED
    BY <1>6, <2>1 DEF Inv, JoinOut, JoinErr, Join, Goto, pipeVars, readerVars
<1>7. CASE WaitReturns
  <2>1. output' \in [own : Buffers, combined : Buffers, code : MaybeCode, late : BOOLEAN]
    BY <1>7 DEF Inv, WaitReturns
  <2> QED
    BY <1>7, <2>1 DEF Inv, WaitReturns, Answer, pipeVars, readerVars, Steps
<1>8. CASE CloseReturns
  BY <1>8 DEF Inv, CloseReturns, Answer, pipeVars, readerVars, Steps
<1>9. CASE BeginWait \/ DeadlinePasses
  <2>1. /\ pc' \in Steps /\ call' \in {"none", "wait", "close"}
        /\ ret' \in {"none", "not_started", ret}
        /\ expired' \in BOOLEAN /\ late' \in BOOLEAN
    BY <1>9 DEF Inv, BeginWait, DeadlinePasses, Answer, Steps
  <2> QED
    BY <1>9, <2>1 DEF Inv, BeginWait, DeadlinePasses, pipeVars, readerVars
<1> QED
  BY <1>0, <1>1, <1>2, <1>3, <1>4, <1>5, <1>6, <1>7, <1>8, <1>9 DEF CallStart, CallStep

\* What every call leaves alone, but the spawn that starts the readers.
LEMMA CallFrame ==
  ASSUME Inv, CallStart \/ CallStep \/ DeadlinePasses, ~Spawn
  PROVE  /\ UNCHANGED <<status, holders, written, taken, reader, own, combined>>
         /\ child' = child \/ (child = "zombie" /\ child' = "reaped")
BY DEF CallStart, CallStep, SpawnFails, BeginWrite, Write, SendEof, IsAlive, Kill, BeginWait,
       BeginClose, WaitPoll, WaitDeadline, WaitGrace, Reap, ReapAgain, JoinOut, JoinErr, Join,
       WaitReturns, CloseReturns, DeadlinePasses, Collect, KillTree, pipeVars, readerVars,
       environmentFrame

LEMMA CallPipeline ==
  ASSUME Inv, CallStart \/ CallStep \/ DeadlinePasses
  PROVE  Pipeline'
<1>1. CASE Spawn
  BY <1>1 DEF Inv, Pipeline, TypeOK, PipesTypeOK, Spawn, HoldsPipe, Running
<1>2. CASE ~Spawn
  BY <1>2, CallFrame DEF Inv, Pipeline, HoldsPipe, Running
<1> QED
  BY <1>1, <1>2

LEMMA CallCode ==
  ASSUME Inv, CallStart \/ CallStep \/ DeadlinePasses
  PROVE  /\ Ended' /\ ExitCodeTrue'
         /\ exit_code # NoCode => exit_code' = exit_code
<1> USE PipesAssumption
<1>1. CASE Spawn
  BY <1>1 DEF Inv, Ended, ExitCodeTrue, Spawn
<1>2. CASE IsAlive \/ WaitPoll \/ Reap \/ WaitGrace \/ BeginClose \/ ReapAgain
  BY <1>2, CallFrame DEF Inv, Ended, ExitCodeTrue, IsAlive, WaitPoll, Reap, WaitGrace,
              BeginClose, ReapAgain, Collect, KillTree, environmentFrame, Running
<1>3. CASE ~Spawn /\ UNCHANGED <<child, exit_code>>
  BY <1>3, CallFrame DEF Inv, Ended, ExitCodeTrue
<1> QED
  BY <1>1, <1>2, <1>3 DEF CallStart, CallStep, SpawnFails, BeginWrite, Write, SendEof, Kill,
       BeginWait, WaitDeadline, JoinOut, JoinErr, Join, WaitReturns, CloseReturns,
       DeadlinePasses, KillTree, pipeVars

LEMMA CallJoined ==
  ASSUME Inv, CallStart \/ CallStep \/ DeadlinePasses
  PROVE  Joined'
<1>1. CASE Spawn
  BY <1>1 DEF Inv, Joined, Spawn, Answer
<1>2. CASE JoinOut \/ JoinErr
  BY <1>2 DEF Inv, Joined, JoinOut, JoinErr, Join, Goto, pipeVars, readerVars
<1>3. CASE ~Spawn /\ UNCHANGED handles /\ (pc' \notin {"join_err", "finish"} \/ pc' = pc)
  BY <1>3, CallFrame DEF Inv, Joined
<1> QED
  BY <1>1, <1>2, <1>3 DEF CallStart, CallStep, SpawnFails, BeginWrite, Write, SendEof, IsAlive,
       Kill, BeginWait, BeginClose, WaitPoll, WaitDeadline, WaitGrace, Reap, ReapAgain,
       WaitReturns, CloseReturns, DeadlinePasses, Answer, Goto, callVars, Running

LEMMA CallWaiting ==
  ASSUME Inv, CallStart \/ CallStep \/ DeadlinePasses
  PROVE  Waiting'
<1> USE PipesAssumption
<1>0. /\ child # "absent" => child' # "absent"
      /\ exit_code # NoCode => exit_code' # NoCode
  BY CallFrame, CallCode DEF Spawn
<1>1. CASE Spawn \/ SpawnFails \/ SendEof \/ IsAlive \/ Kill \/ Write \/ WaitReturns
             \/ CloseReturns
  BY <1>0, <1>1 DEF Inv, Waiting, Spawn, SpawnFails, SendEof, IsAlive, Kill, Write,
                    WaitReturns, CloseReturns, Answer, callVars
<1>2. CASE BeginWrite \/ BeginWait \/ BeginClose
  BY <1>0, <1>2 DEF Inv, Waiting, BeginWrite, BeginWait, BeginClose, Answer, Goto, pipeVars
<1>3. CASE WaitPoll
  <2>1. child \in {"zombie", "reaped"} => exit_code' # NoCode
    BY <1>3 DEF Inv, Ended, WaitPoll, Collect, Statuses
  <2> QED
    BY <1>0, <1>3, <2>1 DEF Inv, Waiting, TypeOK, PipesTypeOK, WaitPoll, Goto, Running
<1>4. CASE WaitDeadline \/ WaitGrace \/ DeadlinePasses
  BY <1>0, <1>4 DEF Inv, Waiting, WaitDeadline, WaitGrace, DeadlinePasses, Goto
<1>5. CASE Reap \/ ReapAgain \/ JoinOut \/ JoinErr
  BY <1>0, <1>5 DEF Inv, Waiting, Reap, ReapAgain, JoinOut, JoinErr, Join, Goto
<1> QED
  BY <1>1, <1>2, <1>3, <1>4, <1>5 DEF CallStart, CallStep

LEMMA CallResult ==
  ASSUME Inv, CallStart \/ CallStep \/ DeadlinePasses
  PROVE  Result'
<1>1. CASE WaitReturns
  <2>1. \A s \in Streams : reader[s] = "done"
    BY <1>1 DEF Inv, Joined, Waiting, WaitReturns, Streams
  <2>2. own = written /\ combined = written
    BY <2>1 DEF Inv, Pipeline, TypeOK, PipesTypeOK, Buffers
  <2>3. late \/ (child = "reaped" /\ exit_code # NoCode /\ exit_code = status)
    BY <1>1 DEF Inv, Waiting, ExitCodeTrue, WaitReturns
  <2> QED
    BY <1>1, <2>1, <2>2, <2>3 DEF Result, WaitReturns, pipeVars, readerVars
<1>2. CASE IsAlive
  <2>1. ~Spawn
    BY <1>2 DEF IsAlive, Collect, Spawn
  <2> QED
    BY <1>2, <2>1, CallFrame DEF Inv, Result, IsAlive, callVars
<1>3. CASE ret' # "waited" \/ pc' # "ready"
  BY <1>3 DEF Result
<1> QED
  BY <1>1, <1>2, <1>3 DEF CallStart, CallStep, Spawn, SpawnFails, BeginWrite, Write, SendEof,
       Kill, BeginWait, BeginClose, WaitPoll, WaitDeadline, WaitGrace, Reap, ReapAgain,
       JoinOut, JoinErr, Join, CloseReturns, DeadlinePasses, Answer, Goto

-----------------------------------------------------------------------------
LEMMA InvInductive ==
  ASSUME Inv, [Next]_vars
  PROVE  Inv'
<1>1. CASE Background \/ ChildReads
  BY <1>1, BackgroundStep
<1>2. CASE \E s \in Streams : ReaderStep(s)
  BY <1>2, ReaderKeepsInv
<1>3. CASE CallStart \/ CallStep \/ DeadlinePasses
  BY <1>3, CallTypes, CallPipeline, CallCode, CallJoined, CallWaiting, CallResult DEF Inv
<1>4. CASE UNCHANGED vars
  BY <1>4 DEF vars, pipeVars, readerVars, callVars, Inv, TypeOK, PipesTypeOK, Pipeline,
              HoldsPipe, Running, Joined, Waiting, Ended, ExitCodeTrue, Result
<1> QED
  BY <1>1, <1>2, <1>3, <1>4 DEF Next

THEOREM InvHolds == Spec => []Inv
<1>1. Init => Inv
  BY InitInv
<1>2. Inv /\ [Next]_vars => Inv'
  BY InvInductive
<1> QED
  BY <1>1, <1>2, PTL DEF Spec

\* Every variable of the process session stays in its range.
THEOREM TypeCorrect == Spec => []TypeOK
<1>1. Inv => TypeOK
  BY DEF Inv
<1> QED
  BY <1>1, InvHolds, PTL

\* exit_code is never anything but the code or signal the child ended with,
\* whichever of is_alive, wait_with_timeout, kill_tree and close met its end first.
THEOREM ExitCodeAlwaysTrue == Spec => []ExitCodeTrue
<1>1. Inv => ExitCodeTrue
  BY DEF Inv
<1> QED
  BY <1>1, InvHolds, PTL

\* A ProcessWaitResult holds everything that was written to the pipes, and a wait
\* that did not have to kill the child holds its exit code.
THEOREM ResultAlwaysTrue == Spec => []ResultIsTrue
<1>1. Inv => ResultIsTrue
  BY DEF Inv, Result, ResultIsTrue
<1> QED
  BY <1>1, InvHolds, PTL

-----------------------------------------------------------------------------
(* CommandRun: what is answered of an external tool.                       *)

\* How far the caller is with the tool, and what it has done to it.
Supervised ==
  /\ caller = "start" => child = "absent" /\ \A s \in Streams : drains[s] = "none"
  /\ killed <=> timedOut
  /\ timedOut => waited = Timeout /\ caller \in {"wait", "join", "answer", "returned"}
  /\ caller = "sleep" => waited < Timeout
  /\ caller = "kill" => waited = Timeout
  /\ caller \in {"join", "answer"} => child = "reaped"

\* A drain thread that ended left nothing in its pipe, and nobody to write to it; the
\* caller has what both took.
Drained ==
  /\ \A s \in Streams : drains[s] = "ended" => AtEnd(s)
  /\ caller = "answer" \/ answer \in {Ok, Failed, TimedOut} =>
       /\ child = "reaped" /\ collected = written
       /\ \A s \in Streams : drains[s] = "ended"

Answered ==
  /\ answer # NoAnswer => caller = "returned"
  /\ answer \in {Ok, Failed} => ~timedOut /\ (answer = Ok <=> status = 0)
  /\ answer = TimedOut => timedOut

CommandInv == CommandTypeOK /\ Supervised /\ Drained /\ Answered

LEMMA CallerTypes ==
  ASSUME CommandInv, CallerStep
  PROVE  CommandTypeOK'
<1> USE DEF CommandInv, CommandTypeOK, PipesTypeOK, pipeVars, Return
<1>1. CASE SpawnTool \/ SpawnToolNotFound \/ SpawnToolFails
  BY <1>1 DEF SpawnTool, SpawnToolNotFound, SpawnToolFails
<1>2. CASE SeesExit \/ WaitForTool \/ SeesRunning
  BY <1>2 DEF SeesExit, WaitForTool, SeesRunning
<1>3. CASE Sleep
  <2>1. waited + 1 \in 0..Timeout
    BY <1>3, CommandAssumption DEF Sleep, Supervised
  <2> QED
    BY <1>3, <2>1 DEF Sleep
<1>4. CASE KillAtDeadline \/ Abandon
  BY <1>4 DEF KillAtDeadline, Abandon
<1>5. CASE JoinDrains
  BY <1>5 DEF JoinDrains
<1>6. CASE JudgeTool
  BY <1>6 DEF JudgeTool
<1> QED
  BY <1>1, <1>2, <1>3, <1>4, <1>5, <1>6 DEF CallerStep

LEMMA CallerKeepsCommandInv ==
  ASSUME CommandInv, CallerStep
  PROVE  CommandInv'
<1> USE DEF pipeVars, Return, AtEnd, HoldsPipe, Running, NoAnswer, Ok, Failed, TimedOut, Refused
<1>1. CommandTypeOK /\ Supervised /\ Drained /\ Answered /\ CommandTypeOK'
  BY CallerTypes DEF CommandInv
<1>2. Supervised'
  <2>1. CASE SpawnTool \/ SpawnToolNotFound \/ SpawnToolFails \/ Abandon
    BY <1>1, <2>1 DEF Supervised, SpawnTool, SpawnToolNotFound, SpawnToolFails, Abandon
  <2>2. CASE SeesExit \/ WaitForTool \/ JoinDrains \/ JudgeTool
    BY <1>1, <2>2 DEF Supervised, SeesExit, WaitForTool, JoinDrains, JudgeTool
  <2>3. CASE SeesRunning
    <3>1. waited >= Timeout => waited = Timeout
      BY <1>1, CommandAssumption DEF CommandTypeOK
    <3>2. waited \in Nat /\ Timeout \in Nat
      BY <1>1, CommandAssumption DEF CommandTypeOK
    <3> QED
      BY <1>1, <2>3, <3>1, <3>2 DEF Supervised, SeesRunning
  <2>4. CASE Sleep \/ KillAtDeadline
    BY <1>1, <2>4 DEF Supervised, Sleep, KillAtDeadline
  <2> QED
    BY <2>1, <2>2, <2>3, <2>4 DEF CallerStep
<1>3. Drained'
  <2>1. CASE SpawnTool
    <3>1. (\A s \in Streams : drains'[s] = "reading") /\ caller' = "poll" /\ answer' = answer
      BY <2>1 DEF SpawnTool
    <3>2. answer = NoAnswer
      BY <1>1, <2>1 DEF Answered, SpawnTool
    <3> QED
      BY <3>1, <3>2 DEF Drained
  <2>2. CASE SeesExit \/ WaitForTool
    BY <1>1, <2>2 DEF Drained, Answered, SeesExit, WaitForTool
  <2>3. CASE JoinDrains
    <3>1. taken = written
      BY <1>1, <2>3 DEF JoinDrains, Drained, CommandTypeOK, PipesTypeOK
    <3> QED
      BY <1>1, <2>3, <3>1 DEF Drained, Supervised, JoinDrains
  <2>4. CASE UNCHANGED <<child, holders, written, taken, drains, collected>> /\ caller' # "answer"
             /\ (answer' = answer \/ answer' = Refused \/ caller = "answer")
    BY <1>1, <2>4 DEF Drained
  <2> QED
    BY <2>1, <2>2, <2>3, <2>4 DEF CallerStep, SpawnToolNotFound, SpawnToolFails, SeesRunning,
       Sleep, KillAtDeadline, Abandon, JudgeTool
<1>4. Answered'
  <2>1. CASE JudgeTool
    BY <1>1, <2>1 DEF Answered, JudgeTool
  <2>2. CASE answer' = Refused /\ caller' = "returned"
    BY <2>2 DEF Answered
  <2>3. CASE answer' = answer /\ caller # "returned"
    BY <1>1, <2>3 DEF Answered
  <2> QED
    BY <2>1, <2>2, <2>3 DEF CallerStep, SpawnTool, SpawnToolNotFound, SpawnToolFails, SeesExit,
       SeesRunning, Sleep, KillAtDeadline, Abandon, WaitForTool, JoinDrains
<1> QED
  BY <1>1, <1>2, <1>3, <1>4 DEF CommandInv

\* Neither a drain nor the tool changes what the caller knows; nothing is written to a
\* stream whose drain has ended, and nobody touches a tool that was reaped.
LEMMA ThreadsKeepCommandInv ==
  ASSUME CommandInv, (\E s \in Streams : DrainStep(s)) \/ KilledDies \/ ToolStep
  PROVE  CommandInv'
<1> USE DEF CommandInv, toolVars, pipeVars
<1>1. CommandTypeOK'
  <2> USE DEF CommandTypeOK, PipesTypeOK
  <2>1. ASSUME NEW s \in Streams, DrainChunk(s)
        PROVE  CommandTypeOK'
    <3>1. PICK n \in (taken[s] + 1)..written[s] : taken' = [taken EXCEPT ![s] = n]
      BY <2>1 DEF DrainChunk, Pull
    <3>2. n \in Count
      BY PipesAssumption DEF Count
    <3> QED
      BY <2>1, <3>1, <3>2 DEF DrainChunk
  <2>2. ASSUME NEW s \in Streams, DrainEnd(s)
        PROVE  CommandTypeOK'
    BY <2>2 DEF DrainEnd
  <2>3. CASE KilledDies
    BY <2>3 DEF KilledDies, Statuses
  <2>4. ASSUME NEW s \in Streams, PipeWrite(s), ToolStep
        PROVE  CommandTypeOK'
    BY <2>4, PipesAssumption DEF PipeWrite, ToolStep, Count
  <2>5. ASSUME NEW s \in Streams, Release(s), ToolStep
        PROVE  CommandTypeOK'
    BY <2>5 DEF Release, ToolStep
  <2>6. CASE (Fork \/ ChildExits) /\ ToolStep
    BY <2>6 DEF Fork, ChildExits, ToolStep
  <2> QED
    BY <2>1, <2>2, <2>3, <2>4, <2>5, <2>6 DEF DrainStep, ToolStep, Environment
<1>2. /\ UNCHANGED <<killed, caller, waited, timedOut, collected, answer>>
      /\ child' = "absent" <=> child = "absent"
      /\ child = "reaped" => child' = child /\ status' = status
      /\ Running' => Running
  BY DEF DrainStep, DrainChunk, DrainEnd, KilledDies, ToolStep, Environment, PipeWrite, Release,
     Fork, ChildExits, Running
<1>3. \A s \in Streams :
        /\ drains[s] = "ended" => drains'[s] = "ended"
        /\ drains[s] = "none" => drains'[s] = "none"
  BY DEF CommandTypeOK, DrainStep, DrainChunk, DrainEnd, KilledDies, ToolStep
<1>4. \A s \in Streams : drains[s] = "ended" => AtEnd(s)' /\ written'[s] = written[s]
  <2> SUFFICES ASSUME NEW s \in Streams, drains[s] = "ended"
               PROVE  AtEnd(s)' /\ written'[s] = written[s]
    OBVIOUS
  <2>1. ~Running /\ s \notin holders /\ taken[s] = written[s]
    BY DEF Drained, AtEnd, HoldsPipe
  <2>2. s \notin holders'
    BY <2>1 DEF DrainStep, DrainChunk, DrainEnd, KilledDies, ToolStep, Environment, PipeWrite,
       Release, Fork, ChildExits
  <2>3. written'[s] = written[s]
    BY <2>1 DEF DrainStep, DrainChunk, DrainEnd, KilledDies, ToolStep, Environment, PipeWrite,
       Release, Fork, ChildExits, HoldsPipe, CommandTypeOK, PipesTypeOK
  <2>4. taken'[s] = taken[s]
    BY <2>1 DEF DrainStep, DrainChunk, Pull, DrainEnd, KilledDies, ToolStep, Environment,
       PipeWrite, Release, Fork, ChildExits, CommandTypeOK, PipesTypeOK
  <2> QED
    BY <1>2, <2>1, <2>2, <2>3, <2>4 DEF AtEnd, HoldsPipe
<1>5. \A s \in Streams : drains'[s] = "ended" => AtEnd(s)'
  <2> SUFFICES ASSUME NEW s \in Streams, drains'[s] = "ended", drains[s] # "ended"
               PROVE  AtEnd(s)'
    BY <1>4
  <2>1. DrainEnd(s)
    BY DEF DrainStep, DrainChunk, DrainEnd, KilledDies, ToolStep, CommandTypeOK
  <2> QED
    BY <2>1 DEF DrainEnd, AtEnd, HoldsPipe, Running
<1>6. (\A s \in Streams : drains[s] = "ended") => written' = written
  BY <1>1, <1>4 DEF CommandTypeOK, PipesTypeOK
<1>7. Supervised'
  BY <1>2, <1>3 DEF Supervised
<1>8. Drained'
  BY <1>2, <1>3, <1>5, <1>6 DEF Drained
<1>9. Answered'
  <2>1. answer \in {Ok, Failed} => child = "reaped"
    BY DEF Drained
  <2> QED
    BY <1>2, <2>1 DEF Answered
<1> QED
  BY <1>1, <1>7, <1>8, <1>9

\* An answer about a tool is true of it: a verdict is of a tool that ended by itself, a
\* timeout of one that had its time, and the output that comes with it is all of it.
THEOREM AnswersAreTrue == CommandSpec => [](CommandTypeOK /\ AnswerTrue)
<1>1. CommandInit => CommandInv
  <2> SUFFICES ASSUME CommandInit PROVE CommandInv
    OBVIOUS
  <2> USE DEF CommandInit, PipesInit, CallInit, NoAnswer, Ok, Failed, TimedOut, Refused
  <2>1. CommandTypeOK
    <3>1. 0 \in Count /\ 0 \in 0..Timeout
      BY PipesAssumption, CommandAssumption DEF Count
    <3> QED
      BY <3>1 DEF CommandTypeOK, PipesTypeOK
  <2>2. Supervised /\ Drained /\ Answered
    BY DEF Supervised, Drained, Answered
  <2> QED
    BY <2>1, <2>2 DEF CommandInv
<1>2. CommandInv /\ [CommandNext]_commandVars => CommandInv'
  <2> SUFFICES ASSUME CommandInv, [CommandNext]_commandVars
               PROVE  CommandInv'
    OBVIOUS
  <2>1. CASE UNCHANGED commandVars
    BY <2>1 DEF commandVars, pipeVars, toolVars, CommandInv, CommandTypeOK, PipesTypeOK,
       Supervised, Drained, Answered, AtEnd, HoldsPipe, Running
  <2> QED
    BY <2>1, CallerKeepsCommandInv, ThreadsKeepCommandInv DEF CommandNext
<1>3. CommandInv => CommandTypeOK /\ AnswerTrue
  BY DEF CommandInv, Supervised, Drained, Answered, AnswerTrue, NoAnswer, Ok, Failed, TimedOut
<1> QED
  BY <1>1, <1>2, <1>3, PTL DEF CommandSpec

=============================================================================

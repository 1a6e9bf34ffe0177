-------------------------- MODULE ScriptedRunProofs --------------------------
(***************************************************************************)
(* Proofs about PtySession, for any number of spawns, any amount of output *)
(* and any tty buffer, and about the ScriptedRun that drives it, for       *)
(* recipes of any length. A run uses its session only through the calls of *)
(* PtySession, so what is proved of every session holds in every run; a    *)
(* verdict of "passed" is earned by the child, agrees with what the waits  *)
(* found and is borne out by the recording; and no child is left running.  *)
(* Spec is the session's, RunSpec the run's.                               *)
(***************************************************************************)
EXTENDS ScriptedRun, TLAPS

-----------------------------------------------------------------------------
(* Types.                                                                  *)

LEMMA CountFacts ==
  /\ 0 \in Count
  /\ \A m, n \in Count : m \in Nat /\ (m < MaxOut => m + 1 \in Count)
                         /\ \A k \in (m + 1)..n : k \in Count
BY PtyAssumption DEF Count

\* The steps of the environment and of the reader keep every variable in its
\* range.
LEMMA ThreadTypes ==
  ASSUME TypeOK, NEW g \in Gens, Environment(g) \/ ReaderStep(g)
  PROVE  TypeOK'
<1> USE DEF TypeOK, envVars, childVars, readerVars, textVars, readerFrame, ownVars, snapVars,
      timeVars
<1>0. CASE ReadInput(g)
  BY <1>0, PtyAssumption DEF ReadInput
<1>1. CASE TtyWrite(g)
  BY <1>1, CountFacts DEF TtyWrite
<1>2. CASE Fork(g)
  BY <1>2 DEF Fork
<1>3. CASE DescendantExits(g)
  BY <1>3 DEF DescendantExits
<1>4. CASE ChildExits(g)
  BY <1>4 DEF ChildExits, ChildStates
<1>5. CASE ReadChunk(g)
  BY <1>5, CountFacts DEF ReadChunk, ReaderSteps
<1>6. CASE ReadEnd(g)
  BY <1>6 DEF ReadEnd, ReaderSteps
<1>7. CASE AppendRaw(g)
  BY <1>7 DEF AppendRaw, ReaderSteps
<1>8. CASE FeedScreen(g)
  BY <1>8 DEF FeedScreen, ReaderSteps
<1>9. CASE RecordOutput(g)
  <2>1. /\ cast' \in {cast, [cast EXCEPT ![g] = taken[g]]}
        /\ spoiled' \in {spoiled, [spoiled EXCEPT ![g] = TRUE]}
        /\ reader' = [reader EXCEPT ![g] = "read"]
        /\ UNCHANGED <<readerFrame, taken, raw, screen, textVars>>
    BY <1>9 DEF RecordOutput
  <2>2. cast' \in [Gens -> Count] /\ spoiled' \in [Gens -> BOOLEAN]
    BY <2>1
  <2>3. reader' \in [Gens -> ReaderSteps]
    BY <2>1 DEF ReaderSteps
  <2> QED
    BY <2>1, <2>2, <2>3
<1> QED
  BY <1>0, <1>1, <1>2, <1>3, <1>4, <1>5, <1>6, <1>7, <1>8, <1>9 DEF Environment, ReaderStep

\* A handle or a child belongs to an attempt that was made.
Attempted == hasChild \/ handle => gen \in Gens

LEMMA CallFacts ==
  ASSUME TypeOK, Attempted
  PROVE  /\ CollectExit => exit_code' \in MaybeCode
         /\ Nothing \in [Gens -> Count]
         /\ [screen |-> screen, raw |-> raw]
              \in [screen : [Gens -> Count], raw : [Gens -> Count]]
         /\ Unseen \in [screen : [Gens -> Count], raw : [Gens -> Count]]
         /\ [Unseen EXCEPT !.screen = screen]
              \in [screen : [Gens -> Count], raw : [Gens -> Count]]
         /\ gen < MaxSpawns => gen + 1 \in Gens /\ gen + 1 \in 0..MaxSpawns
<1>1. /\ CollectExit => exit_code' \in MaybeCode
      /\ Nothing \in [Gens -> Count]
      /\ gen < MaxSpawns => gen + 1 \in Gens /\ gen + 1 \in 0..MaxSpawns
  BY PtyAssumption, CountFacts
     DEF TypeOK, Attempted, CollectExit, MaybeCode, Nothing, Gens
<1>2. [Unseen EXCEPT !.screen = screen] = [screen |-> screen, raw |-> Nothing]
  BY DEF Unseen
<1> QED
  BY <1>1, <1>2 DEF Unseen, TypeOK

LEMMA StartTypes ==
  ASSUME TypeOK, Attempted, CallStart
  PROVE  TypeOK' /\ Attempted'
<1> USE CallFacts DEF TypeOK, Attempted, envVars, childVars, readerVars, textVars, ownVars,
      snapVars, timeVars, Answer, SyncAndAnswer, SyncWith, Now, Goto, Continue
<1>1. CASE Spawn
  BY <1>1 DEF Spawn, NewAttempt, Finished, ChildStates, ReaderSteps, CallSteps, Answers
<1>2. CASE SpawnFails
  BY <1>2 DEF SpawnFails, NewAttempt, Finished, ChildStates, CallSteps, Answers
<1>3. CASE Send
  BY <1>3 DEF Send, CallSteps, Answers
<1>10. CASE SendEof
  BY <1>10 DEF SendEof, CallSteps, Answers
<1>11. CASE ReadAvailable
  BY <1>11 DEF ReadAvailable, CallSteps, Answers
<1>4. CASE IsAlive
  BY <1>4 DEF IsAlive
<1>5. CASE Terminate
  BY <1>5 DEF Terminate, KillChild, CallSteps, Answers
<1>6. CASE BeginWaitForText
  BY <1>6 DEF BeginWaitForText, BeginWait, CallSteps, Answers
<1>7. CASE BeginWaitForIdle
  BY <1>7 DEF BeginWaitForIdle, BeginWait, CallSteps, Answers
<1>8. CASE BeginWaitForExit
  BY <1>8 DEF BeginWaitForExit, BeginWait, CallSteps, Answers
<1>9. CASE BeginClose
  BY <1>9 DEF BeginClose, callFrame, CallSteps, Answers
<1> QED
  BY <1>1, <1>2, <1>3, <1>4, <1>5, <1>6, <1>7, <1>8, <1>9, <1>10, <1>11 DEF CallStart

LEMMA StepTypes ==
  ASSUME TypeOK, Attempted, CallStep \/ DeadlinePasses \/ StableWindowPasses
  PROVE  TypeOK' /\ Attempted'
<1> USE CallFacts DEF TypeOK, Attempted, envVars, childVars, readerVars, textVars, ownVars,
      snapVars, timeVars, callFrame, Answer, SyncAndAnswer, SyncWith, Now, Goto, Continue
<1>14. CASE SendPart \/ SendWrite \/ EofWrite
  <2>1. unread' \in [Gens -> 0..InCap]
    <3>1. unread' = [unread EXCEPT ![gen] = @ + 1] /\ unread[gen] < InCap
      BY <1>14 DEF SendPart, SendWrite, EofWrite, TakeInput, Writable
    <3>2. gen \in Gens => unread[gen] + 1 \in 0..InCap
      BY <3>1, PtyAssumption
    <3> QED
      BY <3>1, <3>2
  <2>2. spoiled' \in [Gens -> BOOLEAN]
    BY <1>14 DEF SendPart, SendWrite, EofWrite, RecordInput
  <2>3. /\ UNCHANGED <<childVars, produced, reader, taken, raw, screen, cast, textVars, recorder,
                      gen, hasChild, handle, detached, exit_code, snapVars>>
        /\ pc' \in CallSteps /\ ret' \in Answers /\ lastSeen' \in {lastSeen, Unseen}
    BY <1>14 DEF SendPart, SendWrite, EofWrite, TakeInput, CallSteps, Answers
  <2>4. writer' \in BOOLEAN /\ expired' \in BOOLEAN /\ settled' \in BOOLEAN
    BY <1>14 DEF SendPart, SendWrite, EofWrite
  <2> QED
    BY <2>1, <2>2, <2>3, <2>4
<1>15. CASE WriteFails
  <2>1. /\ UNCHANGED <<envVars, readerVars, recorder, ownVars, exit_code, snapVars, expired, settled>>
        /\ pc' = "ready" /\ ret' = "err" /\ lastSeen' = Unseen
    BY <1>15 DEF WriteFails
  <2> QED
    BY <2>1 DEF CallSteps, Answers
<1>1. CASE TextPoll
  <2>1. /\ UNCHANGED <<envVars, readerVars, recorder, ownVars, exit_code, snapVars>>
        /\ pc' \in CallSteps /\ ret' \in Answers
        /\ lastSeen' \in {lastSeen, Unseen, FoundAt}
    BY <1>1 DEF TextPoll, CallSteps, Answers
  <2>2. expired' \in BOOLEAN /\ settled' \in BOOLEAN
    BY <1>1 DEF TextPoll
  <2>3. lastSeen' \in [screen : [Gens -> Count], raw : [Gens -> Count]]
    BY <2>1 DEF FoundAt
  <2> QED
    BY <2>1, <2>2, <2>3
<1>12. CASE TextDrain
  <2>1. /\ UNCHANGED <<envVars, readerVars, recorder, ownVars, exit_code, snapVars>>
        /\ pc' \in CallSteps /\ ret' \in Answers
        /\ lastSeen' \in {Unseen, FoundAt} /\ expired' = FALSE /\ settled' = FALSE
    BY <1>12 DEF TextDrain, CallSteps, Answers
  <2>2. lastSeen' \in [screen : [Gens -> Count], raw : [Gens -> Count]]
    BY <2>1 DEF FoundAt
  <2> QED
    BY <2>1, <2>2
<1>2. CASE TextAlive
  BY <1>2 DEF TextAlive, CallSteps, Answers
<1>3. CASE IdlePoll
  BY <1>3 DEF IdlePoll, CallSteps, Answers
<1>4. CASE IdleAlive
  BY <1>4 DEF IdleAlive, CallSteps, Answers
<1>5. CASE ExitPoll
  BY <1>5 DEF ExitPoll, CallSteps, Answers
<1>6. CASE CloseKill
  BY <1>6 DEF CloseKill, KillChild, CallSteps, Answers
<1>7. CASE CloseWait
  BY <1>7 DEF CloseWait, CallSteps, Answers
<1>8. CASE CloseJoin
  BY <1>8 DEF CloseJoin, CallSteps, Answers
<1>9. CASE CloseDrop
  BY <1>9 DEF CloseDrop, Finished, CallSteps, Answers
<1>10. CASE SyncScreen \/ SyncRaw
  BY <1>10 DEF SyncScreen, SyncRaw, CallSteps, Answers
<1>11. CASE DeadlinePasses
  BY <1>11 DEF DeadlinePasses
<1>13. CASE StableWindowPasses
  BY <1>13 DEF StableWindowPasses
<1> QED
  BY <1>1, <1>2, <1>3, <1>4, <1>5, <1>6, <1>7, <1>8, <1>9, <1>10, <1>11,
     <1>12, <1>13, <1>14, <1>15 DEF CallStep

\* Every variable of the session, its child and its reader stays in its range.
THEOREM TypeCorrect == Spec => [](TypeOK /\ Attempted)
<1>1. Init => TypeOK /\ Attempted
  <2> SUFFICES ASSUME Init PROVE TypeOK /\ Attempted
    OBVIOUS
  <2>1. Nothing \in [Gens -> Count] /\ NoCode \in MaybeCode /\ gen \in 0..MaxSpawns
    BY PtyAssumption, CountFacts DEF Init, Nothing, MaybeCode
  <2>2. /\ child \in [Gens -> ChildStates] /\ status \in [Gens -> MaybeCode]
        /\ holder \in [Gens -> BOOLEAN] /\ killed \in [Gens -> BOOLEAN]
        /\ reader \in [Gens -> ReaderSteps]
        /\ recorder \in [Gens -> {"none", "open", "finished"}]
        /\ spoiled \in [Gens -> BOOLEAN]
    BY <2>1 DEF Init, ChildStates, ReaderSteps
  <2>5. unread \in [Gens -> 0..InCap]
    BY PtyAssumption DEF Init
  <2>3. lastSeen \in [screen : [Gens -> Count], raw : [Gens -> Count]]
    BY <2>1 DEF Init, Unseen
  <2>4. /\ pc \in CallSteps /\ ret \in Answers /\ detached \in SUBSET Gens
        /\ hasChild \in BOOLEAN /\ writer \in BOOLEAN /\ handle \in BOOLEAN
        /\ expired \in BOOLEAN /\ settled \in BOOLEAN /\ Attempted
        /\ rawText \in BOOLEAN /\ screenText \in BOOLEAN
        /\ rawTextSeen \in BOOLEAN /\ screenTextSeen \in BOOLEAN
    BY DEF Init, CallSteps, Answers, Attempted
  <2> QED
    BY <2>1, <2>2, <2>3, <2>4, <2>5 DEF Init, TypeOK
<1>2. TypeOK /\ Attempted /\ [Next]_vars => TypeOK' /\ Attempted'
  <2> SUFFICES ASSUME TypeOK, Attempted, [Next]_vars
               PROVE  TypeOK' /\ Attempted'
    OBVIOUS
  <2>1. ASSUME NEW g \in Gens, Environment(g) \/ ReaderStep(g)
        PROVE  TypeOK' /\ Attempted'
    <3>1. TypeOK'
      BY <2>1, ThreadTypes
    <3>2. UNCHANGED <<hasChild, handle, gen>>
      BY <2>1 DEF Environment, ReaderStep, TtyWrite, ReadInput, Fork, DescendantExits, ChildExits,
                  ReadChunk, ReadEnd, AppendRaw, FeedScreen, RecordOutput, readerFrame, ownVars
    <3> QED
      BY <3>1, <3>2 DEF Attempted
  <2>2. CASE CallStart
    BY <2>2, StartTypes
  <2>3. CASE CallStep \/ DeadlinePasses \/ StableWindowPasses
    BY <2>3, StepTypes
  <2>4. CASE UNCHANGED vars
    BY <2>4 DEF TypeOK, Attempted, vars, envVars, childVars, readerVars, textVars, ownVars,
                snapVars, timeVars
  <2> QED
    BY <2>1, <2>2, <2>3, <2>4 DEF Next
<1> QED
  BY <1>1, <1>2, PTL DEF Spec

-----------------------------------------------------------------------------
(* How far the stages of the reader are apart, and what an attempt owns.   *)

\* A chunk reaches the raw log before the screen, and a reader that is not in
\* the middle of one holds none back.
Pipeline ==
  \A g \in Gens :
    /\ screen[g] <= raw[g] /\ raw[g] <= taken[g] /\ taken[g] <= produced[g]
    /\ reader[g] # "raw" => raw[g] = taken[g]
    /\ reader[g] \notin {"raw", "screen"} => screen[g] = taken[g]
    /\ reader[g] \in {"raw", "screen"} => screen[g] < taken[g]

\* An attempt not made yet has nothing; a reader that ended left nothing behind.
Attempts ==
  \A g \in Gens :
    /\ g > gen => /\ child[g] = "absent" /\ ~holder[g] /\ reader[g] = "absent"
                  /\ recorder[g] = "none" /\ produced[g] = 0 /\ cast[g] = 0
    /\ reader[g] = "done" => ~HoldsSlave(g) /\ taken[g] = produced[g]

\* The recorder of an attempt is open only while it is the latest one and is
\* in step with its reader; where it is finished, the reader had ended before,
\* unless a close gave it up. A call that closed holds no handle any more.
Recording ==
  /\ handle => hasChild
  /\ pc = "close_drop" => ~handle
  /\ ret = "closed" => /\ pc \in {"sync_screen", "sync_raw", "ready"} /\ ~handle
                       /\ \A g \in Gens : recorder[g] # "open"
  /\ \A g \in Gens :
       /\ recorder[g] = "open" => g = gen
       /\ recorder[g] = "open" /\ ~hasChild => reader[g] = "absent"
       /\ recorder[g] = "open" /\ reader[g] \in {"read", "done"}
            => cast[g] = taken[g] \/ spoiled[g]
       /\ recorder[g] = "finished" /\ reader[g] # "absent" /\ g \notin detached
            => reader[g] = "done" /\ (cast[g] = taken[g] \/ spoiled[g])
       /\ g # gen \/ ~handle =>
            reader[g] \in {"absent", "done"} \/ g \in detached

\* What the reader has read and stored.
storedVars == <<reader, taken, raw, screen, cast, rawText, screenText>>
CastsSpoil == \A g \in Gens : spoiled[g] => spoiled'[g]

\* Only a spawn, the environment and the reader touch the child's output, and
\* only a spawn that fails late leaves a child besides; a lost line stays lost.
LEMMA CallFrame ==
  ASSUME TypeOK,
         CallStart \/ CallStep \/ DeadlinePasses \/ StableWindowPasses \/ UNCHANGED vars,
         ~Spawn
  PROVE  /\ SpawnFails \/ UNCHANGED child
         /\ UNCHANGED <<holder, produced, storedVars>>
         /\ CastsSpoil
<1> USE DEF envVars, childVars, readerVars, textVars, storedVars, callFrame, CastsSpoil
<1>1. CASE CallStart
  BY <1>1 DEF CallStart, SpawnFails, Send, SendEof, ReadAvailable, IsAlive, Terminate,
      BeginWaitForText, BeginWaitForIdle, BeginWaitForExit, BeginWait, BeginClose
<1>2. CASE SendPart \/ SendWrite \/ EofWrite \/ WriteFails
  BY <1>2 DEF SendPart, SendWrite, EofWrite, WriteFails, TakeInput, RecordInput, TypeOK
<1>3. CASE CallStep /\ ~(SendPart \/ SendWrite \/ EofWrite \/ WriteFails)
  BY <1>3 DEF CallStep, TextPoll, TextAlive, TextDrain, IdlePoll, IdleAlive, ExitPoll,
      CloseKill, CloseWait, CloseJoin, CloseDrop, SyncScreen, SyncRaw
<1>4. CASE DeadlinePasses \/ StableWindowPasses
  BY <1>4 DEF DeadlinePasses, StableWindowPasses
<1>5. CASE UNCHANGED vars
  BY <1>5 DEF vars
<1> QED
  BY <1>1, <1>2, <1>3, <1>4, <1>5

LEMMA PipelineStep ==
  ASSUME TypeOK, Pipeline, Attempts, [Next]_vars
  PROVE  Pipeline'
<1> USE DEF Pipeline
<1>0. \A g \in Gens : /\ produced[g] \in Nat /\ taken[g] \in Nat
                      /\ raw[g] \in Nat /\ screen[g] \in Nat
  BY CountFacts DEF TypeOK
<1>1. ASSUME NEW g \in Gens, Environment(g)
      PROVE  Pipeline'
  <2>1. UNCHANGED readerVars /\ (UNCHANGED produced \/ TtyWrite(g))
    BY <1>1 DEF Environment, TtyWrite, ReadInput, Fork, DescendantExits, ChildExits
  <2>2. \A h \in Gens : produced'[h] >= produced[h] /\ produced'[h] \in Nat
    BY <2>1, <1>0, <1>1 DEF TtyWrite, TypeOK
  <2> QED
    BY <2>1, <2>2, <1>0 DEF readerVars
<1>2. ASSUME NEW g \in Gens, ReaderStep(g)
      PROVE  Pipeline'
  <2> USE <1>0 DEF TypeOK, readerFrame, envVars
  <2>1. CASE ReadChunk(g)
    BY <2>1, CountFacts DEF ReadChunk
  <2>2. CASE ReadEnd(g)
    BY <2>2 DEF ReadEnd
  <2>3. CASE AppendRaw(g)
    BY <2>3 DEF AppendRaw
  <2>4. CASE FeedScreen(g)
    BY <2>4 DEF FeedScreen
  <2>5. CASE RecordOutput(g)
    BY <2>5 DEF RecordOutput
  <2> QED
    BY <1>2, <2>1, <2>2, <2>3, <2>4, <2>5 DEF ReaderStep
<1>3. CASE Spawn
  BY <1>3, <1>0, PtyAssumption DEF Spawn, NewAttempt, Finished, Attempts, TypeOK, Gens
<1>4. CASE UNCHANGED <<holder, produced, storedVars>>
  BY <1>4 DEF storedVars
<1> QED
  BY <1>1, <1>2, <1>3, <1>4, CallFrame DEF Next

LEMMA AttemptsStep ==
  ASSUME TypeOK, Pipeline, Attempts, [Next]_vars
  PROVE  Attempts'
<1> USE DEF Attempts, HoldsSlave
<1>0. \A g \in Gens : produced[g] \in Nat /\ taken[g] \in Nat
  BY CountFacts DEF TypeOK
<1>1. ASSUME NEW g \in Gens, Environment(g)
      PROVE  Attempts'
  <2> USE DEF TypeOK, childVars, readerVars, ownVars
  <2>1. CASE TtyWrite(g)
    BY <2>1 DEF TtyWrite
  <2>2. CASE Fork(g)
    BY <2>2 DEF Fork
  <2>3. CASE DescendantExits(g)
    BY <2>3 DEF DescendantExits
  <2>4. CASE ChildExits(g)
    BY <2>4 DEF ChildExits
  <2>5. CASE ReadInput(g)
    BY <2>5 DEF ReadInput
  <2> QED
    BY <1>1, <2>1, <2>2, <2>3, <2>4, <2>5 DEF Environment
<1>2. ASSUME NEW g \in Gens, ReaderStep(g)
      PROVE  Attempts'
  <2> USE DEF TypeOK, readerFrame, envVars, childVars, ownVars
  <2>1. CASE ReadChunk(g)
    BY <2>1 DEF ReadChunk
  <2>2. CASE ReadEnd(g)
    BY <2>2 DEF ReadEnd
  <2>3. CASE AppendRaw(g)
    BY <2>3 DEF AppendRaw
  <2>4. CASE FeedScreen(g)
    BY <2>4 DEF FeedScreen
  <2>5. CASE RecordOutput(g)
    BY <2>5 DEF RecordOutput
  <2> QED
    BY <1>2, <2>1, <2>2, <2>3, <2>4, <2>5 DEF ReaderStep
<1>3. CASE Spawn
  BY <1>3, PtyAssumption DEF Spawn, NewAttempt, Finished, TypeOK, Gens
<1>4. CASE SpawnFails
  BY <1>4, PtyAssumption DEF SpawnFails, NewAttempt, Finished, TypeOK, Gens, envVars, childVars, readerVars
<1>5. CASE CloseDrop
  BY <1>5 DEF CloseDrop, Finished, TypeOK, envVars, childVars, readerVars
<1>6. CASE UNCHANGED <<child, holder, produced, storedVars, gen, recorder>>
  BY <1>6 DEF storedVars
<1>7. \/ CallStart \/ CallStep \/ DeadlinePasses \/ StableWindowPasses \/ UNCHANGED vars
      => \/ Spawn \/ SpawnFails \/ CloseDrop
         \/ UNCHANGED <<gen, recorder>>
  BY DEF CallStart, Send, SendEof, ReadAvailable, IsAlive, Terminate,
      BeginWaitForText, BeginWaitForIdle, BeginWaitForExit, BeginWait, BeginClose,
      CallStep, SendPart, SendWrite, EofWrite, WriteFails, TakeInput, TextPoll, TextAlive, TextDrain, IdlePoll, IdleAlive, ExitPoll,
      CloseKill, CloseWait, CloseJoin, SyncScreen, SyncRaw, DeadlinePasses,
      StableWindowPasses, ownVars, callFrame, vars
<1> QED
  BY <1>1, <1>2, <1>3, <1>4, <1>5, <1>6, <1>7, CallFrame DEF Next, storedVars

\* A call that neither spawns nor lets go of the reader leaves the recorders and
\* their owner alone, and does not answer "closed".
Bystander ==
  /\ UNCHANGED <<gen, hasChild, handle, detached, recorder>>
  /\ pc' = "close_drop" => pc = "close_drop"
  /\ ret' = "closed" => ret = "closed" /\ pc' \in {"sync_screen", "sync_raw", "ready"}

LEMMA Bystanders ==
  ASSUME CallStart \/ CallStep \/ DeadlinePasses \/ StableWindowPasses \/ UNCHANGED vars,
         ~Spawn, ~SpawnFails, ~CloseJoin, ~CloseDrop, Recording
  PROVE  Bystander
<1> USE DEF Bystander, Recording, ownVars, callFrame, Answer, SyncAndAnswer,
      SyncWith, Goto, Continue
<1>1. CASE CallStart
  BY <1>1 DEF CallStart, Send, SendEof, ReadAvailable, IsAlive, Terminate,
      BeginWaitForText, BeginWaitForIdle, BeginWaitForExit, BeginWait, BeginClose
<1>2. CASE TextPoll \/ TextAlive \/ TextDrain \/ IdlePoll \/ IdleAlive \/ ExitPoll
  BY <1>2 DEF TextPoll, TextAlive, TextDrain, IdlePoll, IdleAlive, ExitPoll
<1>3. CASE CloseKill \/ CloseWait \/ SyncScreen \/ SyncRaw
  BY <1>3 DEF CloseKill, CloseWait, SyncScreen, SyncRaw
<1>4. CASE DeadlinePasses \/ StableWindowPasses \/ UNCHANGED vars
  BY <1>4 DEF DeadlinePasses, StableWindowPasses, vars
<1>5. CASE SendPart \/ SendWrite \/ EofWrite \/ WriteFails
  BY <1>5 DEF SendPart, SendWrite, EofWrite, WriteFails, TakeInput
<1> QED
  BY <1>1, <1>2, <1>3, <1>4, <1>5 DEF CallStep

LEMMA RecordingStep ==
  ASSUME TypeOK, Attempted, Pipeline, Attempts, Recording, [Next]_vars
  PROVE  Recording'
<1> USE DEF Recording
<1>0. \A g \in Gens : /\ reader[g] \in ReaderSteps
                      /\ recorder[g] \in {"none", "open", "finished"}
  BY DEF TypeOK
<1>1. ASSUME NEW g \in Gens, Environment(g)
      PROVE  Recording'
  BY <1>1 DEF Environment, TtyWrite, ReadInput, Fork, DescendantExits, ChildExits, readerVars,
      ownVars
<1>2. ASSUME NEW g \in Gens, ReaderStep(g)
      PROVE  Recording'
  <2> USE <1>0 DEF TypeOK, readerFrame, envVars, ownVars
  <2>1. CASE ReadChunk(g)
    BY <2>1 DEF ReadChunk
  <2>2. CASE ReadEnd(g)
    BY <2>2 DEF ReadEnd
  <2>3. CASE AppendRaw(g)
    BY <2>3 DEF AppendRaw
  <2>4. CASE FeedScreen(g)
    BY <2>4 DEF FeedScreen
  <2>5. CASE RecordOutput(g)
    BY <2>5 DEF RecordOutput
  <2> QED
    BY <1>2, <2>1, <2>2, <2>3, <2>4, <2>5 DEF ReaderStep
<1>3. CASE Spawn
  <2>1. /\ gen \in Nat /\ gen' = gen + 1 /\ gen' \in Gens /\ gen' > gen
        /\ ~handle /\ ~hasChild
    BY <1>3, CallFacts DEF Spawn, NewAttempt, Finished, TypeOK
  <2>2. cast[gen'] = 0 /\ taken[gen'] = 0 /\ recorder[gen'] = "none"
    <3>1. cast[gen'] = 0 /\ recorder[gen'] = "none" /\ produced[gen'] = 0
      BY <2>1 DEF Attempts
    <3>2. taken[gen'] \in Nat /\ taken[gen'] <= produced[gen']
      BY <2>1, CountFacts DEF Pipeline, TypeOK
    <3> QED
      BY <3>1, <3>2
  <2>3. /\ \A g \in Gens \ {gen'} : /\ recorder'[g] # "open"
                                    /\ reader'[g] = reader[g]
                                    /\ recorder'[g] = "finished" =>
                                         recorder[g] \in {"open", "finished"}
        /\ recorder'[gen'] \in {"none", "open"} /\ reader'[gen'] = "read"
    BY <1>3, <2>1 DEF Spawn, NewAttempt, Finished, TypeOK
  <2>4. /\ UNCHANGED <<taken, cast, spoiled, detached>> /\ ret' = "ok" /\ pc' = "ready"
        /\ handle' /\ hasChild'
    BY <1>3 DEF Spawn, Answer
  <2> QED
    BY <2>1, <2>2, <2>3, <2>4, <1>0
<1>4. CASE SpawnFails
  <2>1. /\ gen \in Nat /\ gen' = gen + 1 /\ gen' \in Gens /\ gen' > gen
        /\ ~handle /\ ~hasChild
    BY <1>4, CallFacts DEF SpawnFails, NewAttempt, Finished, TypeOK
  <2>2. reader[gen'] = "absent"
    BY <2>1 DEF Attempts
  <2>3. /\ \A g \in Gens \ {gen'} : /\ recorder'[g] # "open"
                                    /\ recorder'[g] = "finished" =>
                                         recorder[g] \in {"open", "finished"}
        /\ recorder'[gen'] \in {"none", "open"}
    BY <1>4, <2>1 DEF SpawnFails, NewAttempt, Finished, TypeOK
  <2>4. /\ UNCHANGED <<reader, taken, cast, spoiled, detached, hasChild, handle>>
        /\ ret' = "err" /\ pc' = "ready"
    BY <1>4 DEF SpawnFails, Answer, readerVars
  <2> QED
    BY <2>1, <2>2, <2>3, <2>4, <1>0
<1>5. CASE CloseJoin
  BY <1>5, <1>0 DEF CloseJoin, Continue, Goto, envVars, readerVars
<1>6. CASE CloseDrop
  BY <1>6, <1>0 DEF CloseDrop, Finished, SyncAndAnswer, SyncWith, envVars, readerVars, TypeOK
<1>7. CASE Bystander /\ UNCHANGED storedVars /\ CastsSpoil
  BY <1>7 DEF Bystander, storedVars, CastsSpoil
<1> QED
  BY <1>1, <1>2, <1>3, <1>4, <1>5, <1>6, <1>7, Bystanders, CallFrame DEF Next

Stages == TypeOK /\ Attempted /\ Pipeline /\ Attempts /\ Recording

\* The stages stay in order: what is on the screen is in the raw log, what is in
\* the raw log was read, what was read was written, and a reader that ended or a
\* recorder that was finished has left nothing behind.
THEOREM StagesInOrder == Spec => []Stages
<1>1. Init => Pipeline /\ Attempts /\ Recording
  BY DEF Init, Nothing, Pipeline, Attempts, Recording, HoldsSlave
<1>2. Pipeline /\ Attempts /\ Recording /\ TypeOK /\ Attempted /\ [Next]_vars
      => Pipeline' /\ Attempts' /\ Recording'
  BY PipelineStep, AttemptsStep, RecordingStep
<1> QED
  BY <1>1, <1>2, TypeCorrect, PTL DEF Spec, Stages

\* A finished recorder stays finished and its cast is never added to, whoever
\* still reads: no step reopens it, and only an open one is written to.
THEOREM CastsFrozen == Spec => CastFrozen
<1> DEFINE Frozen == \A g \in Gens : recorder[g] = "finished" =>
                       recorder'[g] = "finished" /\ cast'[g] = cast[g]
<1>1. Stages /\ [Next]_vars => Frozen
  <2> SUFFICES ASSUME Stages, [Next]_vars PROVE Frozen
    OBVIOUS
  <2>1. ASSUME NEW h \in Gens, Environment(h)
        PROVE  Frozen
    BY <2>1 DEF Environment, TtyWrite, ReadInput, Fork, DescendantExits, ChildExits, readerVars
  <2>2. ASSUME NEW h \in Gens, ReaderStep(h)
        PROVE  Frozen
    <3>1. UNCHANGED recorder
      BY <2>2 DEF ReaderStep, ReadChunk, ReadEnd, AppendRaw, FeedScreen, RecordOutput, readerFrame
    <3>2. UNCHANGED cast \/ (recorder[h] = "open" /\ cast' = [cast EXCEPT ![h] = taken[h]])
      BY <2>2 DEF ReaderStep, ReadChunk, ReadEnd, AppendRaw, FeedScreen, RecordOutput
    <3> QED
      BY <3>1, <3>2 DEF Stages, TypeOK
  <2>3. CASE Spawn \/ SpawnFails
    <3>1. gen \in Nat /\ recorder[gen + 1] = "none" /\ UNCHANGED cast
      BY <2>3, CallFacts DEF Spawn, SpawnFails, NewAttempt, Finished, Stages, Attempts, TypeOK,
         readerVars
    <3> QED
      BY <2>3, <3>1 DEF Spawn, SpawnFails, NewAttempt, Finished, Stages, TypeOK
  <2>4. CASE CloseDrop
    BY <2>4 DEF CloseDrop, Finished, readerVars
  <2>5. CASE CloseJoin
    BY <2>5 DEF CloseJoin, readerVars
  <2>6. CASE Bystander /\ UNCHANGED storedVars
    BY <2>6 DEF Bystander, storedVars
  <2> QED
    BY <2>1, <2>2, <2>3, <2>4, <2>5, <2>6, Bystanders, CallFrame DEF Next, Stages
<1>2. Stages /\ [Next]_vars => [Frozen]_vars
  BY <1>1
<1> QED
  BY <1>2, StagesInOrder, PTL DEF Spec, CastFrozen

-----------------------------------------------------------------------------
(* What a caller reads: the snapshots of sync_snapshot().                  *)

\* A text is there: in the log, or on the screen, or the screen has been drawn on
\* since it was found.
Kept(inLog, onScreen, at, drawn) == inLog \/ onScreen \/ \E g \in Gens : at[g] < drawn[g]

\* The snapshots lag the screen and the raw log in the right order, and an
\* answer still to be delivered is backed by what the next snapshot copies.
Snapshots ==
  /\ \A g \in Gens :
       /\ screen_snapshot[g] <= screen[g]
       /\ pc # "sync_raw" => screen_snapshot[g] <= raw_snapshot[g]
  /\ ret = "found" /\ lastSeen.raw # Nothing => IF pc = "ready" THEN rawTextSeen ELSE rawText
  /\ ret = "found" =>
       \/ /\ pc = "sync_screen" /\ Kept(rawText, screenText, lastSeen.screen, screen)
          /\ \A g \in Gens : lastSeen.screen[g] <= screen[g]
       \/ /\ \/ pc = "sync_raw" /\ Kept(rawText, screenTextSeen, lastSeen.screen, screen_snapshot)
             \/ pc = "ready" /\ Kept(rawTextSeen, screenTextSeen, lastSeen.screen, screen_snapshot)
          /\ \A g \in Gens : lastSeen.screen[g] <= screen_snapshot[g]
  /\ ret = "closed" /\ gen \in Gens \ detached /\ reader[gen] # "absent" =>
       /\ pc \in {"sync_raw", "ready"} =>
            /\ screen_snapshot[gen] = produced[gen]
            /\ detached = {} => screenTextSeen = screenText
       /\ pc = "ready" =>
            /\ raw_snapshot[gen] = produced[gen]
            /\ detached = {} => rawTextSeen = rawText

\* A step that is neither part of the refresh nor decides on an answer the
\* snapshots must back.
Silent ==
  /\ UNCHANGED snapVars
  /\ pc' = "sync_raw" <=> pc = "sync_raw"
  /\ ret' \in {"found", "closed"} =>
       UNCHANGED <<pc, ret, lastSeen, gen, detached, produced, storedVars>>

LEMMA SilentSteps ==
  ASSUME CallStart \/ CallStep \/ DeadlinePasses \/ StableWindowPasses \/ UNCHANGED vars,
         ~TextPoll, ~TextDrain, ~CloseDrop, ~SyncScreen, ~SyncRaw
  PROVE  Silent
<1> USE DEF Silent, envVars, readerVars, textVars, storedVars, ownVars, callFrame, Answer,
      SyncAndAnswer, SyncWith, Goto, Continue
<1>1. CASE Spawn \/ SpawnFails
  BY <1>1 DEF Spawn, SpawnFails, NewAttempt, Finished
<1>2. CASE Send \/ SendEof \/ ReadAvailable \/ Terminate \/ BeginClose
  BY <1>2 DEF Send, SendEof, ReadAvailable, Terminate, BeginClose
<1>3. CASE IsAlive
  BY <1>3 DEF IsAlive, timeVars
<1>4. CASE BeginWaitForText \/ BeginWaitForIdle \/ BeginWaitForExit
  BY <1>4 DEF BeginWaitForText, BeginWaitForIdle, BeginWaitForExit, BeginWait
<1>5. CASE TextAlive \/ IdlePoll \/ IdleAlive \/ ExitPoll
  BY <1>5 DEF TextAlive, IdlePoll, IdleAlive, ExitPoll
<1>6. CASE CloseKill \/ CloseWait \/ CloseJoin
  BY <1>6 DEF CloseKill, CloseWait, CloseJoin
<1>7. CASE DeadlinePasses \/ StableWindowPasses \/ UNCHANGED vars
  BY <1>7 DEF DeadlinePasses, StableWindowPasses, vars, timeVars
<1>8. CASE SendPart \/ SendWrite \/ EofWrite \/ WriteFails
  BY <1>8 DEF SendPart, SendWrite, EofWrite, WriteFails, Writing, TakeInput
<1> QED
  BY <1>1, <1>2, <1>3, <1>4, <1>5, <1>6, <1>7, <1>8 DEF CallStart, CallStep

\* Nothing that was stored is ever taken back, and the text of a screen changes only
\* when it is drawn on.
LEMMA StoredGrows ==
  ASSUME Stages, Stages', [Next]_vars
  PROVE  /\ \A g \in Gens : /\ screen[g] \in Nat /\ screen'[g] \in Nat
                            /\ raw[g] \in Nat /\ raw'[g] \in Nat
                            /\ screen[g] <= screen'[g] /\ raw[g] <= raw'[g]
         /\ rawText => rawText'
         /\ UNCHANGED screenText \/ \E g \in Gens : screen[g] < screen'[g]
<1>0. \A g \in Gens : /\ screen[g] \in Nat /\ screen'[g] \in Nat
                      /\ raw[g] \in Nat /\ raw'[g] \in Nat /\ taken[g] \in Nat
  BY CountFacts DEF Stages, TypeOK
<1>1. ASSUME NEW h \in Gens, Environment(h)
      PROVE  UNCHANGED storedVars
  BY <1>1 DEF Environment, TtyWrite, ReadInput, Fork, DescendantExits, ChildExits, readerVars,
     textVars, storedVars
<1>2. ASSUME NEW h \in Gens, ReaderStep(h)
      PROVE  /\ \A g \in Gens : screen[g] <= screen'[g] /\ raw[g] <= raw'[g]
             /\ rawText => rawText'
             /\ UNCHANGED screenText \/ screen[h] < screen'[h]
  <2> USE <1>0 DEF Stages, TypeOK, Pipeline, textVars
  <2>1. CASE ReadChunk(h) \/ ReadEnd(h) \/ RecordOutput(h)
    BY <2>1 DEF ReadChunk, ReadEnd, RecordOutput
  <2>2. CASE AppendRaw(h)
    <3>1. rawText => rawText'
      BY <2>2 DEF AppendRaw
    <3>2. UNCHANGED <<screen, screenText>> /\ raw' = [raw EXCEPT ![h] = taken[h]]
      BY <2>2 DEF AppendRaw
    <3> QED
      BY <3>1, <3>2
  <2>3. CASE FeedScreen(h)
    BY <2>3 DEF FeedScreen
  <2> QED
    BY <1>2, <2>1, <2>2, <2>3 DEF ReaderStep
<1>3. Spawn => UNCHANGED <<raw, screen, rawText, screenText>>
  BY DEF Spawn, textVars
<1> QED
  BY <1>0, <1>1, <1>2, <1>3, CallFrame DEF Next, storedVars, Stages

\* Once it can be read, a text stays in the log, on the screen, or was on a screen that
\* has been drawn on.
LEMMA KeptByDrawing ==
  ASSUME Stages, Stages', [Next]_vars, NEW at \in [Gens -> Count],
         \A g \in Gens : at[g] <= screen[g]
  PROVE  /\ Kept(rawText, screenText, at, screen) => Kept(rawText', screenText', at, screen')
         /\ \A g \in Gens : at[g] <= screen'[g]
<1>1. \A g \in Gens : at[g] \in Nat
  BY CountFacts
<1> QED
  BY <1>1, StoredGrows DEF Kept

LEMMA SnapshotsStep ==
  ASSUME Stages, Stages', Snapshots, [Next]_vars
  PROVE  Snapshots'
<1> USE DEF Snapshots
<1>0. /\ \A g \in Gens :
           /\ screen_snapshot[g] \in Nat /\ raw_snapshot[g] \in Nat
           /\ produced[g] \in Nat /\ taken[g] \in Nat
      /\ lastSeen.screen \in [Gens -> Count]
  BY CountFacts DEF Stages, TypeOK
<1>a. lastSeen' = lastSeen /\ (\A g \in Gens : lastSeen.screen[g] <= screen[g]) =>
        /\ Kept(rawText, screenText, lastSeen.screen, screen)
             => Kept(rawText, screenText, lastSeen.screen, screen)'
        /\ \A g \in Gens : lastSeen'.screen[g] <= screen'[g]
  BY <1>0, KeptByDrawing DEF Kept
<1>b. /\ \A g \in Gens : screen_snapshot[g] <= screen'[g]
      /\ rawText => rawText'
  BY StoredGrows, <1>0
\* Nothing is written any more once a close has seen the reader end, nor drawn once no
\* reader is left.
<1>c. ret = "closed" /\ gen \in Gens \ detached /\ reader[gen] # "absent" =>
        /\ ~HoldsSlave(gen) /\ reader[gen] = "done"
        /\ raw[gen] = produced[gen] /\ screen[gen] = produced[gen]
        /\ detached = {} => \A g \in Gens : reader[g] \in {"absent", "done"}
  BY <1>0 DEF Stages, Pipeline, Attempts, Recording
<1>1. ASSUME NEW h \in Gens, Environment(h)
      PROVE  Snapshots'
  <2>1. UNCHANGED <<snapVars, pc, ret, lastSeen, gen, detached, storedVars>>
    BY <1>1 DEF Environment, TtyWrite, ReadInput, Fork, DescendantExits, ChildExits, readerVars,
       textVars, storedVars, ownVars, timeVars
  <2>2. \A g \in Gens : produced'[g] = produced[g] \/ HoldsSlave(g)
    BY <1>1 DEF Environment, TtyWrite, ReadInput, Fork, DescendantExits, ChildExits, Stages, TypeOK
  <2> QED
    BY <2>1, <2>2, <1>c DEF snapVars, storedVars, Kept
<1>2. ASSUME NEW h \in Gens, ReaderStep(h)
      PROVE  Snapshots'
  <2>1. UNCHANGED <<snapVars, pc, ret, lastSeen, gen, detached, produced>>
    BY <1>2 DEF ReaderStep, ReadChunk, ReadEnd, AppendRaw, FeedScreen, RecordOutput,
       readerFrame, envVars, ownVars, timeVars
  <2>2. /\ \A g \in Gens : \/ reader'[g] = reader[g]
                           \/ g = h /\ reader[g] # "done" /\ reader[g] # "absent"
        /\ reader[h] \notin {"done", "absent"}
    BY <1>2 DEF ReaderStep, ReadChunk, ReadEnd, AppendRaw, FeedScreen, RecordOutput,
       Stages, TypeOK
  <2>3. \A g \in Gens : /\ screen_snapshot'[g] <= screen'[g]
                        /\ pc' # "sync_raw" => screen_snapshot'[g] <= raw_snapshot'[g]
    BY <2>1, <1>b DEF snapVars
  <2>4. ret = "found" =>
         \/ /\ pc' = "sync_screen" /\ Kept(rawText, screenText, lastSeen.screen, screen)'
            /\ \A g \in Gens : lastSeen'.screen[g] <= screen'[g]
         \/ /\ \/ pc' = "sync_raw" /\ Kept(rawText, screenTextSeen, lastSeen.screen, screen_snapshot)'
               \/ pc' = "ready" /\ Kept(rawTextSeen, screenTextSeen, lastSeen.screen, screen_snapshot)'
            /\ \A g \in Gens : lastSeen'.screen[g] <= screen_snapshot'[g]
    BY <2>1, <1>a, <1>b DEF snapVars, Kept
  <2>5. ret = "closed" /\ gen \in Gens \ detached /\ reader[gen] # "absent" =>
          detached # {}
    BY <2>2, <1>c
  <2>6. ret = "found" /\ lastSeen.raw # Nothing =>
          IF pc = "ready" THEN rawTextSeen ELSE rawText'
    BY <1>b
  <2> QED
    BY <2>1, <2>2, <2>3, <2>4, <2>5, <2>6, <1>c DEF snapVars
<1>3. CASE TextPoll \/ TextDrain
  <2>1. /\ UNCHANGED <<snapVars, storedVars>> /\ pc' # "sync_raw"
        /\ ret' # "closed"
        /\ ret' = "found" => /\ TextSeen /\ pc' = "sync_screen" /\ lastSeen'.screen = screen
                             /\ lastSeen'.raw # Nothing => rawText
    BY <1>3 DEF TextPoll, TextDrain, SyncAndAnswer, SyncWith, Continue, Goto, FoundAt, callFrame,
       readerVars, textVars, storedVars
  <2>2. pc # "sync_raw"
    BY <1>3 DEF TextPoll, TextDrain
  <2> QED
    BY <2>1, <2>2, <1>0, StoredGrows DEF snapVars, storedVars, Kept, TextSeen
<1>5. CASE CloseDrop
  BY <1>5, <1>b, <1>0 DEF CloseDrop, Finished, SyncAndAnswer, SyncWith, snapVars
<1>6. CASE SyncScreen
  <2>1. /\ screen_snapshot' = screen /\ screenTextSeen' = screenText
        /\ UNCHANGED <<storedVars, raw_snapshot, rawTextSeen, lastSeen>>
        /\ pc = "sync_screen" /\ pc' = "sync_raw"
        /\ UNCHANGED <<ret, gen, detached, produced>>
    BY <1>6 DEF SyncScreen, readerVars, textVars, storedVars, envVars, ownVars, timeVars
  <2> QED
    BY <2>1, <1>c, <1>0, StoredGrows DEF storedVars, Kept
<1>7. CASE SyncRaw
  <2>1. /\ raw_snapshot' = raw /\ rawTextSeen' = rawText
        /\ UNCHANGED <<storedVars, screen_snapshot, screenTextSeen, lastSeen>>
        /\ pc = "sync_raw" /\ pc' = "ready"
        /\ UNCHANGED <<ret, gen, detached, produced>>
    BY <1>7 DEF SyncRaw, readerVars, textVars, storedVars, envVars, ownVars, timeVars
  <2>2. \A g \in Gens : screen_snapshot[g] <= raw[g]
    BY StoredGrows, <1>0 DEF Stages, Pipeline
  <2> QED
    BY <2>1, <2>2, <1>c, <1>0 DEF storedVars, Kept
<1>8. CASE Silent
  <2>1. \A g \in Gens : /\ screen_snapshot'[g] <= screen'[g]
                        /\ pc' # "sync_raw" => screen_snapshot'[g] <= raw_snapshot'[g]
    BY <1>8, <1>b DEF Silent, snapVars
  <2>2. ASSUME ret' \in {"found", "closed"}
        PROVE  UNCHANGED <<snapVars, pc, ret, lastSeen, gen, detached, produced, storedVars>>
    BY <1>8, <2>2 DEF Silent
  <2> QED
    BY <2>1, <2>2 DEF snapVars, storedVars, Kept
<1> QED
  BY <1>1, <1>2, <1>3, <1>5, <1>6, <1>7, <1>8, SilentSteps DEF Next

\* The snapshots a caller reads are in order and back the answer it was given.
THEOREM SnapshotsInOrder == Spec => [](Stages /\ Snapshots)
<1>1. Init => Snapshots
  BY DEF Init, Nothing, Snapshots
<1>2. Snapshots /\ Stages /\ Stages' /\ [Next]_vars => Snapshots'
  BY SnapshotsStep
<1> QED
  BY <1>1, <1>2, StagesInOrder, PTL DEF Spec

\* The screen a caller reads is explained by the raw log it reads.
THEOREM ScreenAlwaysExplained == Spec => []ScreenExplained
<1>1. Snapshots => ScreenExplained
  BY DEF Snapshots, ScreenExplained
<1> QED
  BY <1>1, SnapshotsInOrder, PTL

\* A text that was found can be read back from the snapshots, unless the screen it was
\* found on was drawn on before they were taken.
THEOREM FoundAlwaysReadable == Spec => []FoundIsReadable
<1>1. Snapshots => FoundIsReadable
  BY DEF Snapshots, FoundIsReadable, Kept
<1> QED
  BY <1>1, SnapshotsInOrder, PTL

\* A close that saw its reader end has all the evidence, on the screen, in the
\* raw log and in the cast, as far as the cast could be written.
THEOREM EvidenceAlwaysComplete == Spec => []EvidenceComplete
<1>1. Stages /\ Snapshots => EvidenceComplete
  <2> SUFFICES ASSUME Stages, Snapshots, pc = "ready", ret = "closed",
                      gen \in Gens \ detached, reader[gen] # "absent"
               PROVE  /\ raw_snapshot[gen] = produced[gen]
                      /\ screen_snapshot[gen] = produced[gen]
                      /\ detached = {} => rawTextSeen = rawText /\ screenTextSeen = screenText
                      /\ recorder[gen] = "finished" /\ ~spoiled[gen] => cast[gen] = produced[gen]
    BY DEF EvidenceComplete
  <2>1. reader[gen] = "done" /\ taken[gen] = produced[gen]
    BY DEF Stages, Recording, Attempts
  <2> QED
    BY <2>1 DEF Stages, Recording, Snapshots
<1> QED
  BY <1>1, SnapshotsInOrder, PTL

-----------------------------------------------------------------------------
(* Who answers for a child that runs.                                      *)

\* A child that runs belongs to the session, was killed, or never had a reader, and
\* then its output went nowhere; a close kills the one it finds and lets it go.
Children ==
  /\ \A g \in Gens :
       /\ reader[g] = "absent" => produced[g] = 0
       /\ child[g] = "running" => killed[g] \/ reader[g] = "absent" \/ (hasChild /\ g = gen)
  /\ pc \in {"close_wait", "close_join", "close_drop"} /\ Alive => killed[gen]
  /\ ret = "closed" => ~hasChild

\* A step that has nothing to do with the child.
Unrelated ==
  /\ UNCHANGED <<child, killed, produced, reader, gen, hasChild>>
  /\ pc' \in {"close_wait", "close_join", "close_drop"} =>
       pc \in {"close_wait", "close_join", "close_drop"}
  /\ ret' = "closed" => ret = "closed"

LEMMA UnrelatedSteps ==
  ASSUME CallStart \/ CallStep \/ DeadlinePasses \/ StableWindowPasses \/ UNCHANGED vars,
         ~Spawn, ~SpawnFails, ~Terminate, ~CloseKill, ~CloseDrop
  PROVE  Unrelated
<1> USE DEF Unrelated, envVars, childVars, readerVars, ownVars, callFrame, Answer, SyncAndAnswer,
      SyncWith, Goto, Continue
<1>1. CASE CallStart
  BY <1>1 DEF CallStart, Send, SendEof, ReadAvailable, IsAlive,
      BeginWaitForText, BeginWaitForIdle, BeginWaitForExit, BeginWait, BeginClose
<1>2. CASE TextPoll \/ TextAlive \/ TextDrain \/ IdlePoll \/ IdleAlive \/ ExitPoll
  BY <1>2 DEF TextPoll, TextAlive, TextDrain, IdlePoll, IdleAlive, ExitPoll
<1>3. CASE CloseWait \/ CloseJoin \/ SyncScreen \/ SyncRaw
  BY <1>3 DEF CloseWait, CloseJoin, SyncScreen, SyncRaw
<1>4. CASE DeadlinePasses \/ StableWindowPasses \/ UNCHANGED vars
  BY <1>4 DEF DeadlinePasses, StableWindowPasses, vars
<1>5. CASE SendPart \/ SendWrite \/ EofWrite \/ WriteFails
  BY <1>5 DEF SendPart, SendWrite, EofWrite, WriteFails, TakeInput
<1> QED
  BY <1>1, <1>2, <1>3, <1>4, <1>5 DEF CallStep

LEMMA ChildrenStep ==
  ASSUME Stages, Stages', Children, [Next]_vars
  PROVE  Children'
<1> USE DEF Children, Alive
<1>0. /\ child \in [Gens -> ChildStates] /\ killed \in [Gens -> BOOLEAN]
      /\ produced \in [Gens -> Count] /\ reader \in [Gens -> ReaderSteps]
      /\ hasChild => gen \in Gens
  BY DEF Stages, TypeOK, Attempted
<1>1. ASSUME NEW h \in Gens, Environment(h)
      PROVE  Children'
  <2>1. UNCHANGED <<killed, reader, gen, hasChild, pc, ret>>
    BY <1>1 DEF Environment, TtyWrite, ReadInput, Fork, DescendantExits, ChildExits, childVars, readerVars, ownVars
  <2>2. \A g \in Gens : /\ child'[g] = "running" => child[g] = "running"
                        /\ reader[g] = "absent" => produced'[g] = produced[g]
    BY <1>0, <1>1 DEF Environment, TtyWrite, ReadInput, Fork, DescendantExits, ChildExits, childVars
  <2> QED
    BY <1>0, <2>1, <2>2
<1>2. ASSUME NEW h \in Gens, ReaderStep(h)
      PROVE  Children'
  <2>1. UNCHANGED <<child, killed, produced, gen, hasChild, pc, ret>>
    BY <1>2 DEF ReaderStep, ReadChunk, ReadEnd, AppendRaw, FeedScreen, RecordOutput,
       readerFrame, envVars, childVars, ownVars
  <2>2. \A g \in Gens : reader'[g] = "absent" <=> reader[g] = "absent"
    BY <1>0, <1>2 DEF ReaderStep, ReadChunk, ReadEnd, AppendRaw, FeedScreen, RecordOutput
  <2> QED
    BY <1>0, <2>1, <2>2
<1>3. CASE Spawn \/ SpawnFails
  <2>1. /\ gen' = gen + 1 /\ gen' \in Gens /\ gen' > gen /\ ~hasChild
        /\ pc' = "ready" /\ ret' # "closed"
    BY <1>3, CallFacts DEF Spawn, SpawnFails, NewAttempt, Answer, Stages, TypeOK
  <2>2. /\ UNCHANGED <<killed, produced>>
        /\ \A g \in Gens \ {gen'} : UNCHANGED <<child[g], reader[g]>>
    BY <1>0, <1>3, <2>1 DEF Spawn, SpawnFails, readerVars
  <2>3. hasChild' \/ reader'[gen'] = "absent"
    BY <1>3, <2>1 DEF Spawn, SpawnFails, readerVars, Stages, Attempts
  <2>4. produced[gen'] = 0
    BY <2>1 DEF Stages, Attempts
  <2> QED
    BY <1>0, <2>1, <2>2, <2>3, <2>4
<1>4. CASE Terminate \/ CloseKill
  <2>1. /\ UNCHANGED <<child, produced, reader, gen, hasChild>> /\ KillChild
        /\ ret' # "closed" /\ (pc' = "ready" \/ CloseKill)
    BY <1>4 DEF Terminate, CloseKill, Answer, Continue, Goto, readerVars, ownVars
  <2>2. /\ \A g \in Gens : killed[g] => killed'[g]
        /\ Alive => killed'[gen]
    BY <1>0, <2>1 DEF KillChild
  <2> QED
    BY <1>0, <2>1, <2>2
<1>5. CASE CloseDrop
  BY <1>0, <1>5 DEF CloseDrop, SyncAndAnswer, SyncWith, envVars, childVars, readerVars
<1>6. CASE Unrelated
  BY <1>6 DEF Unrelated
<1> QED
  BY <1>1, <1>2, <1>3, <1>4, <1>5, <1>6, UnrelatedSteps DEF Next

\* However a session is used, a child of it that still runs after a close was killed.
THEOREM ChildrenAccountedFor == Spec => [](Stages /\ Children)
<1>1. Init => Children
  BY DEF Init, Children, Nothing
<1>2. Children /\ Stages /\ Stages' /\ [Next]_vars => Children'
  BY ChildrenStep
<1> QED
  BY <1>1, <1>2, StagesInOrder, PTL DEF Spec

-----------------------------------------------------------------------------
(* The run.                                                                *)

\* What a step of the run is to its session: a call, or nothing at all.
LEMMA RunStepIsCall ==
  ASSUME RunStep
  PROVE  CallStart \/ UNCHANGED vars
<1>1. CASE Create
  BY <1>1 DEF Create, CallStart
<1>2. CASE Drop \/ Close
  BY <1>2 DEF Drop, Close, CallStart
<1>3. CASE StartStep
  <2>1. PICK a \in {"text", "idle", "send", "sleep"} : StepCall(a)
    BY <1>3 DEF StartStep
  <2> QED
    BY <2>1 DEF StepCall, CallStart
<1>4. CASE RegexPoll
  BY <1>4 DEF RegexPoll, CallStart
<1>5. CASE RegexLook
  BY <1>5 DEF RegexLook, CallStart
<1>6. CASE Quiesce
  BY <1>6 DEF Quiesce, CallStart
<1>7. CASE Dropped \/ StartRegex \/ MalformedStep \/ FinishStep \/ NoMoreSteps
            \/ Judge \/ Deliver
  BY <1>7 DEF Dropped, StartRegex, MalformedStep, FinishStep, NoMoreSteps, Judge, Deliver
<1> QED
  BY <1>1, <1>2, <1>3, <1>4, <1>5, <1>6, <1>7 DEF RunStep

LEMMA RunNextIsNext ==
  ASSUME [RunNext]_runVars
  PROVE  [Next]_vars
<1>1. CASE RunStep
  BY <1>1, RunStepIsCall DEF Next
<1>2. CASE RegexDeadlinePasses
  BY <1>2 DEF RegexDeadlinePasses
<1>3. CASE Background
  BY <1>3 DEF Background, Next
<1>4. CASE UNCHANGED runVars
  BY <1>4 DEF runVars
<1> QED
  BY <1>1, <1>2, <1>3, <1>4 DEF RunNext

\* A run uses its session as any caller may: every behaviour of a run is one of
\* the session.
THEOREM RunUsesSession == RunSpec => Spec
<1>1. RunInit => Init
  BY DEF RunInit
<1>2. [RunNext]_runVars => [Next]_vars
  BY RunNextIsNext
<1> QED
  BY <1>1, <1>2, PTL DEF RunSpec, Spec

\* The evidence of a run is what the session promises, by composition: the text
\* a wait found is readable and a close that was not given up leaves all of it.
THEOREM RunEvidence ==
  RunSpec => [](ScreenExplained /\ FoundIsReadable /\ EvidenceComplete)
BY RunUsesSession, ScreenAlwaysExplained, FoundAlwaysReadable, EvidenceAlwaysComplete, PTL

-----------------------------------------------------------------------------
(* What the session reports goes back to what a child did.                 *)

ChildEnded(code) == \E g \in Gens : child[g] = "exited" /\ status[g] = code

\* An exit code was the status of a child, and a snapshot was in the raw log, its text
\* too; a screen that was not drawn on since has the text that its snapshot has.
Reported ==
  /\ exit_code # NoCode => ChildEnded(exit_code)
  /\ \A g \in Gens : raw_snapshot[g] <= raw[g] /\ screen_snapshot[g] <= screen[g]
  /\ rawTextSeen => rawText
  /\ (\A g \in Gens : screen[g] = screen_snapshot[g]) => screenTextSeen = screenText

\* No step takes back an exit, or anything a child wrote.
LEMMA ExitsStay ==
  ASSUME Stages, Stages', [Next]_vars
  PROVE  /\ \A g \in Gens : child[g] = "exited" => child'[g] = "exited" /\ status'[g] = status[g]
         /\ \A g \in Gens : produced[g] <= produced'[g]
<1>0. \A g \in Gens : produced[g] \in Nat
  BY CountFacts DEF Stages, TypeOK
<1>1. ASSUME NEW h \in Gens, Environment(h)
      PROVE  /\ \A g \in Gens : child[g] = "exited" =>
                  child'[g] = "exited" /\ status'[g] = status[g]
             /\ \A g \in Gens : produced[g] <= produced'[g]
  BY <1>0, <1>1 DEF Environment, TtyWrite, ReadInput, Fork, DescendantExits, ChildExits, childVars, Stages, TypeOK
<1>2. ASSUME NEW h \in Gens, ReaderStep(h)
      PROVE  UNCHANGED <<child, status, produced>>
  BY <1>2 DEF ReaderStep, ReadChunk, ReadEnd, AppendRaw, FeedScreen, RecordOutput, readerFrame, envVars,
     childVars
<1>3. CASE Spawn \/ SpawnFails
  <2>1. child[gen + 1] = "absent" /\ gen + 1 \in Gens
    BY <1>3, CallFacts DEF Spawn, SpawnFails, NewAttempt, Finished, Stages, Attempts, TypeOK
  <2> QED
    BY <1>0, <1>3, <2>1 DEF Spawn, SpawnFails, Stages, TypeOK
<1>4. \/ CallStart \/ CallStep \/ DeadlinePasses \/ StableWindowPasses \/ UNCHANGED vars
      => Spawn \/ SpawnFails \/ UNCHANGED <<child, status, produced>>
  BY DEF CallStart, Send, SendEof, ReadAvailable, IsAlive, Terminate,
      BeginWaitForText, BeginWaitForIdle, BeginWaitForExit, BeginWait, BeginClose,
      CallStep, SendPart, SendWrite, EofWrite, WriteFails, TakeInput, TextPoll, TextAlive, TextDrain, IdlePoll, IdleAlive, ExitPoll,
      CloseKill, CloseWait, CloseJoin, CloseDrop, SyncScreen, SyncRaw, DeadlinePasses,
      StableWindowPasses, callFrame, envVars, childVars, vars
<1>5. CASE UNCHANGED <<child, status, produced>>
  BY <1>0, <1>5
<1> QED
  BY <1>1, <1>2, <1>3, <1>4, <1>5 DEF Next

\* The exit code is only ever set by CollectExit, the snapshots by the refresh.
LEMMA ReportSteps ==
  ASSUME [Next]_vars
  PROVE  /\ CollectExit \/ UNCHANGED exit_code
         /\ SyncRaw \/ UNCHANGED <<raw_snapshot, rawTextSeen>>
         /\ SyncScreen \/ UNCHANGED <<screen_snapshot, screenTextSeen>>
<1>1. ASSUME NEW h \in Gens, Environment(h) \/ ReaderStep(h)
      PROVE  UNCHANGED <<exit_code, snapVars>>
  BY <1>1 DEF Environment, TtyWrite, ReadInput, Fork, DescendantExits, ChildExits, ReaderStep,
     ReadChunk, ReadEnd, AppendRaw, FeedScreen, RecordOutput, readerFrame, snapVars
<1>2. CASE CallStart
  BY <1>2 DEF CallStart, Spawn, SpawnFails, Send, SendEof, ReadAvailable, IsAlive,
     Terminate, BeginWaitForText, BeginWaitForIdle, BeginWaitForExit, BeginWait,
     BeginClose, callFrame, snapVars
<1>3. CASE CallStep
  BY <1>3 DEF CallStep, SendPart, SendWrite, EofWrite, WriteFails, TakeInput, TextPoll, TextAlive, TextDrain, IdlePoll, IdleAlive, ExitPoll,
     CloseKill, CloseWait, CloseJoin, CloseDrop, SyncScreen, callFrame, snapVars, SyncRaw
<1>4. CASE DeadlinePasses \/ StableWindowPasses \/ UNCHANGED vars
  BY <1>4 DEF DeadlinePasses, StableWindowPasses, vars, snapVars
<1> QED
  BY <1>1, <1>2, <1>3, <1>4 DEF Next, snapVars

LEMMA ReportedStep ==
  ASSUME Stages, Stages', Reported, [Next]_vars
  PROVE  Reported'
<1>1. exit_code' # NoCode => ChildEnded(exit_code)'
  <2>1. CASE UNCHANGED exit_code
    BY <2>1, ExitsStay DEF Reported, ChildEnded
  <2>2. CASE CollectExit /\ ~UNCHANGED exit_code
    <3>1. child[gen] = "exited" /\ exit_code' = status[gen] /\ gen \in Gens
      BY <2>2 DEF CollectExit, Stages, Attempted
    <3> QED
      BY <3>1, ExitsStay DEF ChildEnded
  <2> QED
    BY <2>1, <2>2, ReportSteps
<1>2. /\ \A g \in Gens : raw_snapshot'[g] <= raw'[g]
      /\ rawTextSeen' => rawText'
  <2>1. \A g \in Gens : raw_snapshot[g] \in Nat /\ raw[g] \in Nat
    BY CountFacts DEF Stages, TypeOK
  <2>2. SyncRaw => raw_snapshot' = raw /\ rawTextSeen' = rawText
    BY DEF SyncRaw
  <2> QED
    BY <2>1, <2>2, ReportSteps, StoredGrows DEF Reported
<1>3. /\ \A g \in Gens : screen_snapshot'[g] <= screen'[g]
      /\ (\A g \in Gens : screen'[g] = screen_snapshot'[g]) => screenTextSeen' = screenText'
  <2>1. \A g \in Gens : screen_snapshot[g] \in Nat /\ screen[g] \in Nat
    BY CountFacts DEF Stages, TypeOK
  <2>2. CASE SyncScreen
    BY <2>2, <2>1 DEF SyncScreen, readerVars, textVars
  <2>3. CASE UNCHANGED <<screen_snapshot, screenTextSeen>>
    BY <2>1, <2>3, StoredGrows DEF Reported
  <2> QED
    BY <2>2, <2>3, ReportSteps
<1> QED
  BY <1>1, <1>2, <1>3 DEF Reported

\* What the session reports of a child, it has seen of one.
THEOREM ReportsAreTrue == Spec => [](Stages /\ Reported)
<1>1. Init => Reported
  <2> SUFFICES ASSUME Init PROVE Reported
    OBVIOUS
  <2>1. /\ exit_code = NoCode /\ ~rawTextSeen
        /\ \A g \in Gens : raw_snapshot[g] <= raw[g] /\ screen_snapshot[g] <= screen[g]
    BY DEF Init, Nothing
  <2>2. screenTextSeen = screenText
    BY Zenon DEF Init
  <2> QED
    BY <2>1, <2>2 DEF Reported
<1>2. Reported /\ Stages /\ Stages' /\ [Next]_vars => Reported'
  BY ReportedStep
<1> QED
  BY <1>1, <1>2, StagesInOrder, PTL DEF Spec

-----------------------------------------------------------------------------
(* The run's own variables, and the results of its steps.                  *)

Stepping == {"step", "regex", "regex_look", "regex_drain", "regex_last"}

\* A run that is still at its steps has not failed one, and has room for the result of
\* the one in progress.
StepsInOrder ==
  /\ RunTypeOK
  /\ stage \in Stepping \cup {"create", "steps"} => \A i \in 1..Len(steps) : steps[i].passed
  /\ stage \in Stepping => Len(steps) < MaxSteps
  /\ stage = "step" => action \in {"text", "idle", "send", "sleep"}
  /\ stage \in Stepping \ {"step"} => action = "regex"
  /\ stage \notin Stepping => action = "none"

LEMMA ResultsFacts ==
  ASSUME NEW q \in Seq(Results), NEW r \in Results
  PROVE  /\ Append(q, r) \in Seq(Results)
         /\ Len(q) \in Nat /\ Len(Append(q, r)) = Len(q) + 1
         /\ \A i \in 1..Len(q) : Append(q, r)[i] = q[i]
         /\ Append(q, r)[Len(q) + 1] = r
OBVIOUS

\* The result that Record adds.
New(passed) == [action |-> action, passed |-> passed, at |-> lastSeen]

LEMMA RecordFacts ==
  ASSUME Stages, StepsInOrder, NEW passed \in BOOLEAN, Record(passed)
  PROVE  /\ steps' \in Seq(Results) /\ Len(steps) \in Nat /\ Len(steps') = Len(steps) + 1
         /\ \A i \in 1..Len(steps) : steps'[i] = steps[i]
         /\ steps'[Len(steps) + 1] = New(passed)
         /\ New(passed).action = action /\ New(passed).passed = passed
         /\ New(passed).at = lastSeen
         /\ lastSeen \in [screen : [Gens -> Count], raw : [Gens -> Count]]
<1>1. /\ steps \in Seq(Results) /\ New(passed) \in Results
      /\ steps' = Append(steps, New(passed))
  BY DEF StepsInOrder, RunTypeOK, Results, Record, New, Stages, TypeOK
<1> QED
  BY <1>1, ResultsFacts DEF New, Stages, TypeOK

LEMMA RecordKeepsOrder ==
  ASSUME Stages, StepsInOrder, stage \in Stepping \cup {"steps"}, Len(steps) < MaxSteps,
         NEW passed \in BOOLEAN, Record(passed), UNCHANGED <<fixed, judged>>
  PROVE  StepsInOrder'
<1>2. /\ steps' \in Seq(Results) /\ Len(steps) \in Nat /\ Len(steps') = Len(steps) + 1
      /\ \A i \in 1..Len(steps) : steps'[i] = steps[i]
      /\ steps'[Len(steps) + 1].passed = passed
  BY RecordFacts
<1>3. /\ \A i \in 1..Len(steps') - 1 : steps'[i].passed
      /\ passed => \A i \in 1..Len(steps') : steps'[i].passed
  <2>1. \A i \in 1..Len(steps) : steps[i].passed
    BY DEF StepsInOrder
  <2>2. Len(steps') - 1 = Len(steps) /\ \A i \in 1..Len(steps') : i = Len(steps) + 1 \/ i \in 1..Len(steps)
    BY <1>2
  <2> QED
    BY <1>2, <2>1, <2>2
<1>4. Len(steps') <= MaxSteps
  BY <1>2, RunAssumption
<1> QED
  BY <1>2, <1>3, <1>4 DEF StepsInOrder, RunTypeOK, Record, Enter, RunStages, Actions, Stepping,
     fixed

\* Judge is given what the snapshots hold.
Verdicts == [raw : [Gens -> Count], screen : [Gens -> Count],
             inRaw : BOOLEAN, onScreen : BOOLEAN, code : MaybeCode]

LEMMA StepsInOrderStep ==
  ASSUME Stages, StepsInOrder, [RunNext]_runVars
  PROVE  StepsInOrder'
<1> USE DEF Enter, RunStages, Stepping, fixed
<1>1. CASE MalformedStep
  BY <1>1, RecordKeepsOrder DEF MalformedStep
<1>2. CASE FinishStep
  <2>1. /\ stage \in Stepping /\ Record(ret \in Honoured[action])
        /\ UNCHANGED <<fixed, judged>>
    BY <1>2 DEF FinishStep
  <2>2. (ret \in Honoured[action]) \in BOOLEAN
    OBVIOUS
  <2> QED
    BY <2>1, <2>2, RecordKeepsOrder DEF StepsInOrder
<1>3. CASE RegexLook
  <2>1. ASSUME NEW matches \in BOOLEAN, Record(matches), UNCHANGED <<vars, fixed, judged>>
        PROVE  StepsInOrder'
    <3>1. stage \in Stepping
      BY <1>3 DEF RegexLook
    <3> QED
      BY <2>1, <3>1, RecordKeepsOrder DEF StepsInOrder
  <2>2. CASE /\ stage \in {"regex_look", "regex_last"} /\ stage' \in {"regex", "regex_drain"}
             /\ UNCHANGED <<fixed, action, steps, overdue, judged>>
    BY <2>2 DEF StepsInOrder, RunTypeOK
  <2> QED
    BY <1>3, <2>1, <2>2 DEF RegexLook
<1>4. CASE StartStep \/ StartRegex
  BY <1>4 DEF StartStep, StartRegex, StepsInOrder, RunTypeOK, Actions
<1>5. CASE RegexPoll
  BY <1>5 DEF RegexPoll, StepsInOrder, RunTypeOK
<1>6. CASE Judge
  <2>1. judged' \in Verdicts
    BY <1>6 DEF Judge, Stages, TypeOK, Verdicts
  <2>2. UNCHANGED <<fixed, action, steps, overdue>> /\ stage' = "close" /\ stage = "quiesce"
    BY <1>6 DEF Judge
  <2> QED
    BY <2>1, <2>2 DEF StepsInOrder, RunTypeOK, Verdicts
<1>7. CASE Create
  BY <1>7 DEF Create, StepsInOrder, RunTypeOK
<1>8. CASE Drop \/ Dropped \/ NoMoreSteps \/ Quiesce \/ Close \/ Deliver
  BY <1>8 DEF Drop, Dropped, NoMoreSteps, Quiesce, Close, Deliver, StepsInOrder, RunTypeOK
<1>9. CASE RegexDeadlinePasses
  BY <1>9 DEF RegexDeadlinePasses, StepsInOrder, RunTypeOK
<1>10. CASE Background
  <2>1. UNCHANGED <<expected, stateVars>> /\ spoke' \in {spoke, TRUE}
    BY <1>10 DEF Background, Speaks
  <2> QED
    BY <2>1 DEF stateVars, StepsInOrder, RunTypeOK
<1>11. CASE UNCHANGED runVars
  BY <1>11 DEF runVars, stateVars, StepsInOrder, RunTypeOK
<1> QED
  BY <1>1, <1>2, <1>3, <1>4, <1>5, <1>6, <1>7, <1>8, <1>9, <1>10, <1>11 DEF RunNext, RunStep

\* The variables of a run keep their types, recipes are not left before their last step
\* unless one failed, and only the last step of a run can have failed.
THEOREM RunTypeCorrect == RunSpec => [](StepsInOrder /\ RunTypeOK)
<1>1. RunInit => StepsInOrder
  <2> SUFFICES ASSUME RunInit PROVE StepsInOrder
    OBVIOUS
  <2>1. judged \in Verdicts
    BY CountFacts DEF RunInit, Unjudged, Nothing, MaybeCode, Verdicts
  <2>2. steps \in Seq(Results) /\ Len(steps) = 0
    BY DEF RunInit
  <2>3. /\ Len(steps) <= MaxSteps
        /\ \A i \in 1..Len(steps) : steps[i].passed
        /\ \A i \in 1..Len(steps) - 1 : steps[i].passed
    BY <2>2, RunAssumption
  <2>4. stage = "create" /\ action = "none" /\ overdue = FALSE
        /\ expected \in MaybeCode /\ spoke = FALSE
    BY DEF RunInit
  <2> QED
    BY <2>1, <2>2, <2>3, <2>4 DEF StepsInOrder, RunTypeOK, RunStages, Actions, Stepping, Verdicts
<1>2. StepsInOrder /\ Stages /\ [RunNext]_runVars => StepsInOrder'
  BY StepsInOrderStep
<1>3. StepsInOrder => RunTypeOK
  BY DEF StepsInOrder
<1> QED
  BY <1>1, <1>2, <1>3, RunUsesSession, StagesInOrder, PTL DEF RunSpec

\* The only steps that add a result are the three that end a step of the recipe; nothing
\* but Judge gives the assertions anything.
LEMMA ResultSteps ==
  ASSUME StepsInOrder, [RunNext]_runVars, ~UNCHANGED steps
  PROVE  /\ \E passed \in BOOLEAN :
              /\ Record(passed)
              /\ passed /\ action = "text" => pc = "ready" /\ ret = "found"
         /\ stage \in Stepping \cup {"steps"} /\ stage' \in {"steps", "finish"}
         /\ UNCHANGED <<vars, fixed, judged>>
<1>1. MalformedStep \/ FinishStep \/ (RegexLook /\ ~UNCHANGED steps)
  BY DEF RunNext, RunStep, Create, Drop, Dropped, StartStep, StartRegex, NoMoreSteps,
     RegexPoll, Quiesce, Judge, Close, Deliver, RegexDeadlinePasses, Background, fixed, stateVars,
     runVars
<1>2. ASSUME NEW passed \in BOOLEAN, Record(passed)
      PROVE  stage' \in {"steps", "finish"}
  BY <1>2 DEF Record, Enter
<1>3. CASE MalformedStep
  BY <1>2, <1>3 DEF MalformedStep
<1>4. CASE FinishStep
  <2>1. (ret \in Honoured[action]) \in BOOLEAN
    OBVIOUS
  <2>2. action = "text" /\ ret \in Honoured[action] => ret = "found"
    BY DEF Honoured
  <2> QED
    BY <1>2, <1>4, <2>1, <2>2 DEF FinishStep, Stepping
<1>5. CASE RegexLook /\ ~UNCHANGED steps
  <2>1. PICK matches \in BOOLEAN : Record(matches) /\ UNCHANGED <<vars, fixed, judged>>
    BY <1>5 DEF RegexLook
  <2>2. action = "regex" /\ stage \in Stepping
    BY <1>5 DEF RegexLook, StepsInOrder, Stepping
  <2> QED
    BY <1>2, <2>1, <2>2
<1> QED
  BY <1>1, <1>3, <1>4, <1>5

LEMMA JudgeSteps ==
  ASSUME [RunNext]_runVars
  PROVE  Judge \/ UNCHANGED judged
BY DEF RunNext, RunStep, Create, Drop, Dropped, StartStep, StartRegex, MalformedStep,
   FinishStep, NoMoreSteps, RegexPoll, RegexLook, Quiesce, Close, Deliver,
   RegexDeadlinePasses, Background, stateVars, runVars

-----------------------------------------------------------------------------
(* The verdict.                                                            *)

Written == \E g \in Gens : produced[g] # 0

\* What the assertions were given goes back to a child as well: its exit, and what came
\* out of its tty, which it wrote unless the run had sent something to be echoed.
Judgement ==
  /\ judged.code # NoCode => ChildEnded(judged.code)
  /\ \/ Written
     \/ ~rawText /\ ~screenText /\ ~rawTextSeen /\ ~screenTextSeen
        /\ ~judged.inRaw /\ ~judged.onScreen
  /\ Written => spoke \/ Sent

\* Nothing that was sent is taken back.
LEMMA SentStays ==
  ASSUME Stages, StepsInOrder, [RunNext]_runVars, spoke \/ Sent
  PROVE  (spoke \/ Sent)'
<1>1. ASSUME NEW passed \in BOOLEAN, Record(passed), UNCHANGED spoke
      PROVE  (spoke \/ Sent)'
  <2>1. /\ Len(steps) \in Nat /\ Len(steps') = Len(steps) + 1
        /\ \A i \in 1..Len(steps) : steps'[i] = steps[i]
        /\ steps'[Len(steps) + 1].action = action
    BY <1>1, RecordFacts
  <2> QED
    BY <1>1, <2>1 DEF Sent
<1>2. CASE MalformedStep \/ FinishStep
  <2>1. (ret \in Honoured[action]) \in BOOLEAN
    OBVIOUS
  <2> QED
    BY <1>1, <1>2, <2>1 DEF MalformedStep, FinishStep, fixed
<1>3. CASE UNCHANGED steps /\ (UNCHANGED action \/ action = "none") /\ (spoke => spoke')
  BY <1>3 DEF Sent
<1>4. CASE RegexLook
  BY <1>1, <1>3, <1>4 DEF RegexLook, fixed
<1>5. CASE StartStep \/ StartRegex
  BY <1>3, <1>5 DEF StartStep, StartRegex, StepsInOrder, Stepping, fixed
<1>6. CASE Background
  BY <1>3, <1>6 DEF Background, Speaks, stateVars
<1>7. ASSUME [RunNext]_runVars, ~MalformedStep, ~FinishStep, ~RegexLook, ~StartStep, ~StartRegex,
             ~Background
      PROVE  UNCHANGED <<steps, action, spoke>>
  BY <1>7 DEF RunNext, RunStep, Create, Drop, Dropped, NoMoreSteps, RegexPoll, Quiesce, Judge, Close,
     Deliver, RegexDeadlinePasses, fixed, stateVars, runVars
<1> QED
  BY <1>2, <1>3, <1>4, <1>5, <1>6, <1>7

\* Text gets into the log and onto the screen by what was read of a tty, and only
\* something or somebody writes to one.
LEMMA TextIsWritten ==
  ASSUME Stages, [Next]_vars
  PROVE  /\ Written \/ UNCHANGED <<rawText, screenText>>
         /\ Written => Written'
<1>0. \A g \in Gens : produced[g] \in Nat /\ taken[g] \in Nat /\ raw[g] \in Nat /\ screen[g] \in Nat
  BY CountFacts DEF Stages, TypeOK
<1>1. ASSUME NEW h \in Gens, Environment(h)
      PROVE  UNCHANGED <<rawText, screenText>> /\ (Written => Written')
  BY <1>0, <1>1 DEF Environment, TtyWrite, ReadInput, Fork, DescendantExits, ChildExits, readerVars,
     textVars, Written, Stages, TypeOK
<1>2. ASSUME NEW h \in Gens, ReaderStep(h)
      PROVE  /\ Written \/ UNCHANGED <<rawText, screenText>>
             /\ Written => Written'
  <2>1. UNCHANGED produced
    BY <1>2 DEF ReaderStep, ReadChunk, ReadEnd, AppendRaw, FeedScreen, RecordOutput, readerFrame,
       envVars
  <2>2. reader[h] \in {"raw", "screen"} => produced[h] # 0
    BY <1>0 DEF Stages, Pipeline
  <2>3. reader[h] \in {"raw", "screen"} \/ UNCHANGED <<rawText, screenText>>
    BY <1>2 DEF ReaderStep, ReadChunk, ReadEnd, AppendRaw, FeedScreen, RecordOutput, textVars
  <2> QED
    BY <2>1, <2>2, <2>3 DEF Written
<1>3. CASE Spawn
  BY <1>3 DEF Spawn, textVars, Written
<1> QED
  BY <1>1, <1>2, <1>3, CallFrame DEF Next, Stages, storedVars, Written

LEMMA JudgementStep ==
  ASSUME Stages, Stages', Reported, StepsInOrder, Judgement, [RunNext]_runVars
  PROVE  Judgement'
<1>1. \A g \in Gens : child[g] = "exited" => child'[g] = "exited" /\ status'[g] = status[g]
  BY ExitsStay, RunNextIsNext
<1>2. judged'.code # NoCode => ChildEnded(judged.code)'
  <2>1. CASE UNCHANGED judged
    BY <1>1, <2>1 DEF Judgement, ChildEnded
  <2>2. CASE Judge
    <3>1. judged'.code = exit_code
      BY <2>2 DEF Judge
    <3> QED
      BY <1>1, <3>1 DEF Reported, ChildEnded
  <2> QED
    BY <2>1, <2>2, JudgeSteps
<1>3. Written' \/ (/\ ~rawText' /\ ~screenText' /\ ~rawTextSeen' /\ ~screenTextSeen'
                   /\ ~judged'.inRaw /\ ~judged'.onScreen)
  <2>1. CASE Written
    BY <2>1, TextIsWritten, RunNextIsNext
  <2>2. CASE ~Written
    <3>1. UNCHANGED <<rawText, screenText>>
      BY <2>2, TextIsWritten, RunNextIsNext
    <3>2. ~rawText /\ ~screenText /\ ~rawTextSeen /\ ~screenTextSeen
          /\ ~judged.inRaw /\ ~judged.onScreen
      BY <2>2 DEF Judgement
    <3>3. (rawTextSeen' => rawText \/ rawTextSeen) /\ (screenTextSeen' => screenText \/ screenTextSeen)
      BY ReportSteps, RunNextIsNext DEF SyncRaw, SyncScreen
    <3>4. (judged'.inRaw => rawTextSeen \/ judged.inRaw)
          /\ (judged'.onScreen => screenTextSeen \/ judged.onScreen)
      BY JudgeSteps DEF Judge
    <3> QED
      BY <3>1, <3>2, <3>3, <3>4
  <2> QED
    BY <2>1, <2>2
<1>4. Written' => (spoke \/ Sent)'
  <2>1. CASE Written
    BY <2>1, SentStays DEF Judgement
  <2>2. CASE ~Written /\ Background
    <3>1. CASE UNCHANGED produced
      BY <2>2, <3>1 DEF Written
    <3>2. CASE ~UNCHANGED produced
      BY <2>2, <3>2, SentStays DEF Background, Speaks
    <3> QED
      BY <3>1, <3>2
  <2>3. CASE ~Written /\ ~Background
    <3>1. UNCHANGED produced
      <4>1. CallStart \/ UNCHANGED vars
        BY <2>3, RunStepIsCall DEF RunNext, RegexDeadlinePasses, runVars
      <4>2. CallStart => Spawn \/ UNCHANGED produced
        BY CallFrame DEF Stages
      <4> QED
        BY <4>1, <4>2 DEF Spawn, vars, envVars
    <3> QED
      BY <2>3, <3>1 DEF Written
  <2> QED
    BY <2>1, <2>2, <2>3
<1> QED
  BY <1>2, <1>3, <1>4 DEF Judgement

\* A run that passed has a child that ended with the expected code, and one that wrote
\* the asserted text, unless the run has sent what its tty may have echoed.
THEOREM PassAlwaysEarned == RunSpec => []PassIsEarned
<1>1. RunInit => Judgement
  BY CountFacts DEF RunInit, Init, Unjudged, Nothing, Judgement, Written
<1>2. Judgement /\ StepsInOrder /\ Stages /\ Stages' /\ Reported /\ [RunNext]_runVars => Judgement'
  BY JudgementStep
<1>3. Judgement /\ StepsInOrder => PassIsEarned
  <2> SUFFICES ASSUME Judgement, StepsInOrder, stage = "done", NEW kind \in Kinds, Passed(kind)
               PROVE  /\ expected # NoCode => ChildEnded(expected)
                      /\ kind # "none" => spoke \/ \E i \in 1..Len(steps) : steps[i].action = "send"
    BY DEF PassIsEarned, ChildEnded
  <2>1. expected # NoCode => ChildEnded(expected)
    BY DEF Passed, Judgement
  <2>2. kind # "none" => judged.inRaw \/ judged.onScreen
    BY DEF Passed, Kinds
  <2>3. action # "send"
    BY DEF StepsInOrder, Stepping
  <2> QED
    BY <2>1, <2>2, <2>3 DEF Judgement, Sent
<1> QED
  BY <1>1, <1>2, <1>3, RunUsesSession, ReportsAreTrue, RunTypeCorrect, PTL DEF RunSpec

-----------------------------------------------------------------------------
(* A text that was found stays found, or its screen was drawn on.          *)

Judging == {"close", "closing", "done"}
PassedText(i) == steps[i].passed /\ steps[i].action = "text"

FoundStays ==
  \A i \in 1..Len(steps) : PassedText(i) =>
    /\ steps[i].at.screen \in [Gens -> Count]
    /\ \A g \in Gens : steps[i].at.screen[g] <= screen_snapshot[g]
    /\ steps[i].at.raw # Nothing => rawTextSeen
    /\ Kept(rawTextSeen, screenTextSeen, steps[i].at.screen, screen_snapshot)
    /\ stage \in Judging =>
         /\ steps[i].at.raw # Nothing => judged.inRaw
         /\ Kept(judged.inRaw, judged.onScreen, steps[i].at.screen, judged.screen)

\* What can be read once can be read again, or the screen that showed it was drawn on.
LEMMA ReadableStays ==
  ASSUME Stages, Stages', Reported, [Next]_vars, NEW at \in [Gens -> Count],
         \A g \in Gens : at[g] <= screen_snapshot[g],
         Kept(rawTextSeen, screenTextSeen, at, screen_snapshot)
  PROVE  /\ rawTextSeen => rawTextSeen'
         /\ \A g \in Gens : at[g] <= screen_snapshot'[g]
         /\ Kept(rawTextSeen', screenTextSeen', at, screen_snapshot')
<1>1. \A g \in Gens : /\ at[g] \in Nat /\ screen_snapshot[g] \in Nat /\ screen[g] \in Nat
                      /\ screen_snapshot[g] <= screen[g]
  BY CountFacts DEF Stages, TypeOK, Reported
<1>2. rawTextSeen => rawTextSeen'
  BY ReportSteps DEF SyncRaw, Reported
<1>3. CASE UNCHANGED <<screen_snapshot, screenTextSeen>>
  BY <1>2, <1>3 DEF Kept
<1>4. CASE SyncScreen
  <2>1. screen_snapshot' = screen /\ screenTextSeen' = screenText
    BY <1>4 DEF SyncScreen
  <2>2. CASE \E g \in Gens : at[g] < screen[g]
    BY <1>1, <1>2, <2>1, <2>2 DEF Kept
  <2>3. CASE \A g \in Gens : ~(at[g] < screen[g])
    <3>1. \A g \in Gens : screen[g] = screen_snapshot[g]
      BY <1>1, <2>3
    <3>2. screenTextSeen = screenText
      BY <3>1 DEF Reported
    <3> QED
      BY <1>1, <1>2, <2>1, <3>1, <3>2 DEF Kept
  <2> QED
    BY <2>2, <2>3
<1> QED
  BY <1>2, <1>3, <1>4, ReportSteps

LEMMA FoundStaysStep ==
  ASSUME Stages, Stages', Snapshots, Reported, StepsInOrder, FoundStays, [RunNext]_runVars
  PROVE  FoundStays'
<1>1. ASSUME NEW i \in 1..Len(steps), PassedText(i)
      PROVE  /\ \A g \in Gens : steps[i].at.screen[g] <= screen_snapshot'[g]
             /\ steps[i].at.raw # Nothing => rawTextSeen'
             /\ Kept(rawTextSeen', screenTextSeen', steps[i].at.screen, screen_snapshot')
  BY <1>1, ReadableStays, RunNextIsNext DEF FoundStays
<1>2. CASE ~UNCHANGED steps
  <2>1. PICK passed \in BOOLEAN :
          Record(passed) /\ (passed /\ action = "text" => pc = "ready" /\ ret = "found")
    BY <1>2, ResultSteps
  <2>2. /\ Len(steps) \in Nat /\ Len(steps') = Len(steps) + 1
        /\ \A i \in 1..Len(steps) : steps'[i] = steps[i]
        /\ steps'[Len(steps) + 1] = New(passed)
        /\ New(passed).action = action /\ New(passed).passed = passed
        /\ New(passed).at = lastSeen
        /\ lastSeen \in [screen : [Gens -> Count], raw : [Gens -> Count]]
    BY <2>1, RecordFacts
  <2>3. UNCHANGED <<screen_snapshot, rawTextSeen, screenTextSeen, judged>> /\ stage' \notin Judging
    BY <1>2, ResultSteps DEF vars, snapVars, Judging
  <2>4. ASSUME NEW i \in 1..Len(steps'), PassedText(i)'
        PROVE  /\ steps'[i].at.screen \in [Gens -> Count]
               /\ \A g \in Gens : steps'[i].at.screen[g] <= screen_snapshot[g]
               /\ steps'[i].at.raw # Nothing => rawTextSeen
               /\ Kept(rawTextSeen, screenTextSeen, steps'[i].at.screen, screen_snapshot)
    <3>1. CASE i \in 1..Len(steps)
      BY <2>2, <2>4, <3>1 DEF FoundStays, PassedText
    <3>2. CASE i = Len(steps) + 1
      <4>1. steps'[i].at = lastSeen /\ passed /\ action = "text"
        BY <2>2, <2>4, <3>2 DEF PassedText
      <4>2. pc = "ready" /\ ret = "found"
        BY <2>1, <4>1
      <4> QED
        BY <2>2, <4>1, <4>2 DEF Snapshots
    <3> QED
      BY <2>2, <3>1, <3>2
  <2> QED
    BY <2>3, <2>4 DEF FoundStays, Kept
<1>3. CASE UNCHANGED steps
  <2>1. CASE Judge
    <3>1. /\ judged'.inRaw = rawTextSeen /\ judged'.onScreen = screenTextSeen
          /\ judged'.screen = screen_snapshot
      BY <2>1 DEF Judge
    <3> QED
      BY <1>1, <1>3, <3>1 DEF FoundStays, PassedText, Kept
  <2>2. CASE UNCHANGED judged /\ (stage' \in Judging => stage \in Judging)
    BY <1>1, <1>3, <2>2 DEF FoundStays, PassedText, Kept
  <2>3. Judge \/ (UNCHANGED judged /\ (stage' \in Judging => stage \in Judging))
    BY DEF RunNext, RunStep, Create, Drop, Dropped, StartStep, StartRegex, MalformedStep,
       FinishStep, Record, NoMoreSteps, RegexPoll, RegexLook, Quiesce, Close, Deliver, Enter,
       RegexDeadlinePasses, Background, stateVars, runVars, Judging
  <2> QED
    BY <2>1, <2>2, <2>3
<1> QED
  BY <1>2, <1>3

\* A text that a wait of the run has found is there to be judged, unless it was found on
\* the screen alone and drawn over.
THEOREM FoundAlwaysJudged == RunSpec => []FoundIsJudged
<1>1. RunInit => FoundStays
  BY DEF RunInit, FoundStays
<1>2. /\ FoundStays /\ Stages /\ Stages' /\ Snapshots /\ Reported /\ StepsInOrder
      /\ [RunNext]_runVars
      => FoundStays'
  BY FoundStaysStep
<1>3. FoundStays => FoundIsJudged
  BY DEF FoundStays, FoundIsJudged, PassedText, Judging, Kept
<1> QED
  BY <1>1, <1>2, <1>3, RunUsesSession, SnapshotsInOrder, ReportsAreTrue, RunTypeCorrect, PTL
  DEF RunSpec

-----------------------------------------------------------------------------
(* What was judged is in the recording.                                    *)

\* The screen that was judged was in the raw log that was, and that one still is.
Drawn ==
  \A g \in Gens : /\ judged.screen[g] <= judged.raw[g] /\ judged.raw[g] <= raw[g]
                  /\ judged.screen[g] \in Nat /\ judged.raw[g] \in Nat

LEMMA DrawnStep ==
  ASSUME Stages, Stages', Snapshots, Reported, Drawn, [RunNext]_runVars
  PROVE  Drawn'
<1>1. \A g \in Gens : raw[g] \in Nat /\ raw'[g] \in Nat /\ raw[g] <= raw'[g]
  BY StoredGrows, RunNextIsNext
<1>2. CASE Judge
  <2>1. /\ judged'.raw = raw_snapshot /\ judged'.screen = screen_snapshot /\ pc = "ready"
    BY <1>2 DEF Judge
  <2>2. \A g \in Gens : /\ screen_snapshot[g] <= raw_snapshot[g] /\ raw_snapshot[g] <= raw[g]
                        /\ screen_snapshot[g] \in Nat /\ raw_snapshot[g] \in Nat
    BY <2>1, CountFacts DEF Snapshots, Reported, Stages, TypeOK
  <2> QED
    BY <1>1, <2>1, <2>2 DEF Drawn
<1>3. CASE UNCHANGED judged
  BY <1>1, <1>3 DEF Drawn
<1> QED
  BY <1>2, <1>3, JudgeSteps

\* What a verdict was based on is in the recording that is delivered with it, although
\* the reader goes on between the judgement and the end of the recording - if all of the
\* recording could be written.
THEOREM VerdictAlwaysRecorded == RunSpec => []VerdictRecorded
<1>1. RunInit => Drawn
  BY DEF RunInit, Init, Unjudged, Nothing, Drawn
<1>2. /\ Drawn /\ Stages /\ Stages' /\ Snapshots /\ Reported /\ [RunNext]_runVars
      => Drawn'
  BY DrawnStep
<1>3. Drawn /\ Stages /\ Children => VerdictRecorded
  <2> SUFFICES ASSUME Drawn, Stages, Children,
                      NEW g \in Gens \ detached, recorder[g] = "finished",
                      ~spoiled[g]
               PROVE  judged.raw[g] <= cast[g] /\ judged.screen[g] <= judged.raw[g]
    BY DEF VerdictRecorded
  <2>1. /\ raw[g] \in Nat /\ taken[g] \in Nat /\ produced[g] \in Nat /\ cast[g] \in Nat
        /\ raw[g] <= taken[g] /\ taken[g] <= produced[g]
        /\ judged.raw[g] \in Nat /\ judged.screen[g] <= judged.raw[g] /\ judged.raw[g] <= raw[g]
    BY CountFacts DEF Stages, TypeOK, Pipeline, Drawn
  <2>2. CASE reader[g] = "absent"
    <3>1. produced[g] = 0
      BY <2>2 DEF Children
    <3> QED
      BY <2>1, <3>1
  <2>3. CASE reader[g] # "absent"
    <3>1. cast[g] = taken[g]
      BY <2>3 DEF Stages, Recording
    <3> QED
      BY <2>1, <3>1
  <2> QED
    BY <2>2, <2>3
<1> QED
  BY <1>1, <1>2, <1>3, RunUsesSession, SnapshotsInOrder, ReportsAreTrue, ChildrenAccountedFor,
     PTL DEF RunSpec

-----------------------------------------------------------------------------
(* What a run leaves behind.                                               *)

Closings == {"close_kill", "close_wait", "close_join", "close_drop"}

\* A run that closes its session is in the close, or has its answer; one that has ended
\* has its answer.
LetGo ==
  /\ stage \in {"closing", "dropping"} => pc \in Closings \/ ret = "closed"
  /\ stage \in Ended => ret = "closed"

\* A close is not left before it answers, and its answer stays until the next call.
LEMMA CloseGoesOn ==
  ASSUME Stages, Background
  PROVE  /\ pc \in Closings => pc' \in Closings \/ ret' = "closed"
         /\ ret = "closed" => ret' = "closed"
<1> USE DEF Closings, Stages, Recording
<1>1. ASSUME NEW h \in Gens, Environment(h) \/ ReaderStep(h)
      PROVE  UNCHANGED <<pc, ret>>
  BY <1>1 DEF Environment, TtyWrite, ReadInput, Fork, DescendantExits, ChildExits, ReaderStep,
     ReadChunk, ReadEnd, AppendRaw, FeedScreen, RecordOutput, readerFrame
<1>2. CASE CallStep
  BY <1>2 DEF CallStep, SendPart, SendWrite, EofWrite, WriteFails, Writing, TextPoll,
     TextAlive, TextDrain, IdlePoll, IdleAlive, ExitPoll,
     CloseKill, CloseWait, CloseJoin, CloseDrop, SyncScreen, SyncRaw, Answer, SyncAndAnswer,
     SyncWith, Continue, Goto
<1>3. CASE DeadlinePasses \/ StableWindowPasses
  BY <1>3 DEF DeadlinePasses, StableWindowPasses
<1> QED
  BY <1>1, <1>2, <1>3 DEF Background

LEMMA LetGoStep ==
  ASSUME Stages, LetGo, [RunNext]_runVars
  PROVE  LetGo'
<1> USE DEF Ended, Closings
<1>1. CASE Drop \/ Close
  BY <1>1 DEF Drop, Close, BeginClose, Continue, Goto, Enter, LetGo
<1>2. CASE Dropped \/ Deliver
  BY <1>2 DEF Dropped, Deliver, Enter, LetGo, vars
<1>3. CASE Background \/ RegexDeadlinePasses \/ UNCHANGED runVars
  <2>1. UNCHANGED stage
    BY <1>3 DEF Background, RegexDeadlinePasses, stateVars, runVars
  <2>2. /\ pc \in Closings => pc' \in Closings \/ ret' = "closed"
        /\ ret = "closed" => ret' = "closed"
    <3>1. CASE Background
      BY <3>1, CloseGoesOn
    <3>2. CASE UNCHANGED vars
      BY <3>2 DEF vars
    <3> QED
      BY <1>3, <3>1, <3>2 DEF RegexDeadlinePasses, runVars
  <2> QED
    BY <2>1, <2>2 DEF LetGo
<1>4. CASE stage' \notin {"closing", "dropping", "done", "error"}
  BY <1>4 DEF LetGo
<1>5. RunStep => \/ Drop \/ Close \/ Dropped \/ Deliver
                 \/ stage' \notin {"closing", "dropping", "done", "error"}
  BY DEF RunStep, Create, StartStep, StartRegex, MalformedStep, FinishStep, Record,
     NoMoreSteps, RegexPoll, RegexLook, Quiesce, Judge, Enter
<1> QED
  BY <1>1, <1>2, <1>3, <1>4, <1>5 DEF RunNext

\* However a run ends, each child that still runs was killed, or was never its session's.
THEOREM NoChildIsLeft == RunSpec => []NoChildLeft
<1>1. RunInit => LetGo
  BY DEF RunInit, LetGo, Ended
<1>2. LetGo /\ Stages /\ [RunNext]_runVars => LetGo'
  BY LetGoStep
<1>3. LetGo /\ Children => NoChildLeft
  BY DEF LetGo, Children, NoChildLeft
<1> QED
  BY <1>1, <1>2, <1>3, RunUsesSession, ChildrenAccountedFor, PTL DEF RunSpec
=============================================================================

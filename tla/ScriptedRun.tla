----------------------------- MODULE ScriptedRun -----------------------------
(***************************************************************************)
(* One run of a recipe: ScriptedPtyMode::execute of                        *)
(* crates/termproof/src/execution.rs, the steps it dispatches (steps.rs)   *)
(* and the verdict the runner draws (runner.rs), over a PtySession whose   *)
(* child, descendants and reader thread go on by themselves.               *)
(*                                                                         *)
(* A recipe is abstracted to what its run depends on: which kind of step   *)
(* comes next and the exit code it expects. What it asserts is looked at   *)
(* when all is done, so each kind of assertion about the text that the     *)
(* waits look for is judged of each run. A regex may be any, so nothing    *)
(* but its own look says whether it matches.                               *)
(***************************************************************************)
EXTENDS PtySession, Sequences

CONSTANTS MaxSteps   \* bound on the steps of a recipe

ASSUME RunAssumption == MaxSteps \in Nat

VARIABLES
  expected,  \* recipe.expect_exit_code
  spoke,     \* history: the child, or a descendant, wrote to its tty
  stage,     \* where execute() is
  action,    \* action of the step in progress
  steps,     \* step results: the action of each and whether it passed; history:
             \* the screen and log in which a text wait found its text
  overdue,   \* the deadline of a wait_for_regex has passed
  judged     \* raw_output, screen and exit_code the assertions were given, and
             \* whether the text is in the two

stateVars == <<stage, action, steps, overdue, judged>>
fixed == <<expected, spoke>>
runVars == <<vars, fixed, stateVars>>

RunStages == {"create", "steps", "step", "regex", "regex_look", "regex_drain",
              "regex_last", "finish", "quiesce", "close", "closing", "done",
              "drop", "dropping", "error"}
Actions == {"none", "text", "idle", "send", "sleep", "regex"}
Ended == {"done", "error"}
Unjudged == [raw |-> Nothing, screen |-> Nothing, inRaw |-> FALSE, onScreen |-> FALSE,
             code |-> NoCode]

RunInit ==
  /\ Init
  /\ expected \in MaybeCode /\ spoke = FALSE
  /\ stage = "create" /\ action = "none" /\ steps = <<>>
  /\ overdue = FALSE
  /\ judged = Unjudged

Enter(s) == stage' = s

-----------------------------------------------------------------------------
(* create_session(): a session that fails to spawn is dropped, and so closed. *)

Create ==
  /\ stage = "create"
  /\ \/ Spawn /\ Enter("steps")
     \/ SpawnFails /\ Enter("drop")
  /\ UNCHANGED <<fixed, action, steps, overdue, judged>>

Drop ==
  /\ stage = "drop"
  /\ BeginClose /\ Enter("dropping")
  /\ UNCHANGED <<fixed, action, steps, overdue, judged>>

Dropped ==
  /\ stage = "dropping" /\ pc = "ready"
  /\ Enter("error")
  /\ UNCHANGED <<vars, fixed, action, steps, overdue, judged>>

-----------------------------------------------------------------------------
(* The steps, up to the first that fails.                                  *)

StepCall(a) ==
  CASE a = "text" -> BeginWaitForText
    [] a = "idle" -> BeginWaitForIdle
    [] a = "send" -> Send
    [] a = "sleep" -> ReadAvailable

StartStep ==
  /\ stage = "steps" /\ Len(steps) < MaxSteps
  /\ \E a \in {"text", "idle", "send", "sleep"} : StepCall(a) /\ action' = a
  /\ Enter("step")
  /\ UNCHANGED <<fixed, steps, overdue, judged>>

StartRegex ==
  /\ stage = "steps" /\ Len(steps) < MaxSteps
  /\ action' = "regex" /\ overdue' = FALSE
  /\ Enter("regex")
  /\ UNCHANGED <<vars, fixed, steps, judged>>

Record(passed) ==
  /\ steps' = Append(steps, [action |-> action, passed |-> passed, at |-> lastSeen])
  /\ action' = "none" /\ overdue' = FALSE
  /\ Enter(IF passed THEN "steps" ELSE "finish")

\* A malformed step fails before it reaches the session.
MalformedStep ==
  /\ stage = "steps" /\ Len(steps) < MaxSteps
  /\ Record(FALSE)
  /\ UNCHANGED <<vars, fixed, judged>>

\* Faulty: a wait passes when it did not fail.
HonouredLax == [text |-> {"found", "gone", "timeout"}, idle |-> {"idle"}, send |-> {"ok"},
                sleep |-> Answers]

\* sleep passes whatever its read_available() answers.
Honoured == [text |-> {"found"}, idle |-> {"idle"}, send |-> {"ok"}, sleep |-> Answers]

FinishStep ==
  /\ stage = "step" /\ pc = "ready"
  /\ Record(ret \in Honoured[action])
  /\ UNCHANGED <<vars, fixed, judged>>

NoMoreSteps ==
  /\ stage = "steps"
  /\ Enter("finish")
  /\ UNCHANGED <<vars, fixed, action, steps, overdue, judged>>

-----------------------------------------------------------------------------
(* wait_for_regex polls the snapshots itself.                              *)

RegexPoll ==
  /\ \/ stage = "regex" /\ Enter("regex_look")
     \/ stage = "regex_drain" /\ Enter("regex_last")
  /\ ReadAvailable
  /\ UNCHANGED <<fixed, action, steps, overdue, judged>>

RegexDeadlinePasses ==
  /\ action = "regex" /\ ~overdue
  /\ overdue' = TRUE
  /\ UNCHANGED <<vars, fixed, stage, action, steps, judged>>

\* Faulty: only a match or a dead child ends the loop.
RegexDecidedLate(matches) == stage = "regex_last" \/ matches

\* The match or the deadline decides; otherwise whether the child is alive.
RegexDecided(matches) == stage = "regex_last" \/ matches \/ overdue

RegexLook ==
  /\ stage \in {"regex_look", "regex_last"} /\ pc = "ready"
  /\ \E matches \in BOOLEAN :
       \/ /\ RegexDecided(matches)
          /\ Record(matches)
          /\ UNCHANGED <<vars, fixed, judged>>
       \/ /\ ~RegexDecided(matches)
          /\ IsAlive
          /\ Enter(IF Alive THEN "regex" ELSE "regex_drain")
          /\ UNCHANGED <<fixed, action, steps, overdue, judged>>

-----------------------------------------------------------------------------
(* After the steps: wait, judge, close.                                    *)

Quiesce ==
  /\ stage = "finish"
  /\ IF expected # NoCode THEN BeginWaitForExit ELSE BeginWaitForIdle
  /\ Enter("quiesce")
  /\ UNCHANGED <<fixed, action, steps, overdue, judged>>

\* The answer of the wait is ignored; what the session holds by now is judged.
Judge ==
  /\ stage = "quiesce" /\ pc = "ready"
  /\ judged' = [raw |-> raw_snapshot, screen |-> screen_snapshot,
                inRaw |-> rawTextSeen, onScreen |-> screenTextSeen, code |-> exit_code]
  /\ Enter("close")
  /\ UNCHANGED <<vars, fixed, action, steps, overdue>>

Close ==
  /\ stage = "close"
  /\ BeginClose /\ Enter("closing")
  /\ UNCHANGED <<fixed, action, steps, overdue, judged>>

Deliver ==
  /\ stage = "closing" /\ pc = "ready"
  /\ Enter("done")
  /\ UNCHANGED <<vars, fixed, action, steps, overdue, judged>>

\* What a recipe may assert of the text: nothing, output_contains, screen_contains.
Kinds == {"none", "output", "screen"}

\* RunResult.passed: every step and every assertion, the implicit one included.
Passed(kind) ==
  /\ \A i \in 1..Len(steps) : steps[i].passed
  /\ expected # NoCode => judged.code = expected
  /\ kind = "output" => judged.inRaw
  /\ kind = "screen" => judged.onScreen

RunStep ==
  \/ Create \/ Drop \/ Dropped
  \/ StartStep \/ StartRegex \/ MalformedStep \/ FinishStep \/ NoMoreSteps
  \/ RegexPoll \/ RegexLook
  \/ Quiesce \/ Judge \/ Close \/ Deliver

Sent == action = "send" \/ \E i \in 1..Len(steps) : steps[i].action = "send"

\* What is written to the tty is from the child, or is the tty's echo of what was sent.
Speaks ==
  \/ produced' = produced /\ UNCHANGED spoke
  \/ produced' # produced /\ spoke' = TRUE
  \/ produced' # produced /\ Sent /\ UNCHANGED spoke

Background ==
  /\ \/ \E g \in Gens : Environment(g) \/ ReaderStep(g)
     \/ DeadlinePasses \/ StableWindowPasses
     \/ CallStep
  /\ Speaks
  /\ UNCHANGED <<expected, stateVars>>

RunNext == RunStep \/ RegexDeadlinePasses \/ Background

RunSpec == RunInit /\ [][RunNext]_runVars

\* The thread that executes the recipe is scheduled, and its clock goes on.
FairRun ==
  RunSpec /\ Fairness /\ WF_runVars(RunStep) /\ WF_runVars(RegexDeadlinePasses)

-----------------------------------------------------------------------------
Results == [action : Actions, passed : BOOLEAN, at : [screen : [Gens -> Count], raw : [Gens -> Count]]]

\* Every variable of the run stays in its range; a step that failed is the last.
RunTypeOK ==
  /\ expected \in MaybeCode /\ spoke \in BOOLEAN
  /\ stage \in RunStages /\ action \in Actions
  /\ steps \in Seq(Results) /\ Len(steps) <= MaxSteps
  /\ \A i \in 1 .. Len(steps) - 1 : steps[i].passed
  /\ overdue \in BOOLEAN
  /\ judged \in [raw : [Gens -> Count], screen : [Gens -> Count],
                 inRaw : BOOLEAN, onScreen : BOOLEAN, code : MaybeCode]

\* A run that passed has a child that ended with the expected code, and one that
\* wrote the asserted text - or it is the echo of what the run itself has sent,
\* which the assertion cannot tell from it. All the run ever saw are snapshots,
\* taken while the child and its reader went on.
PassIsEarned ==
  stage = "done" =>
    \A kind \in Kinds : Passed(kind) =>
      /\ expected # NoCode => \E g \in Gens : child[g] = "exited" /\ status[g] = expected
      /\ kind # "none" => spoke \/ \E i \in 1..Len(steps) : steps[i].action = "send"

\* A wait that found its text leaves it for the assertions to judge, whatever
\* happened to the child in between: in the log, if it was found there; and if it was
\* found on the screen alone on either, unless that has been drawn on since.
FoundIsJudged ==
  stage = "done" =>
    \A i \in 1..Len(steps) :
      steps[i].passed /\ steps[i].action = "text" =>
        /\ steps[i].at.raw # Nothing => judged.inRaw
        /\ \/ judged.inRaw \/ judged.onScreen
           \/ \E g \in Gens : steps[i].at.screen[g] < judged.screen[g]

\* The recording a run delivers shows everything its verdict was based on,
\* although the verdict is drawn while the reader is still at work - unless a
\* line of it could not be written, which nobody is told.
VerdictRecorded ==
  stage = "done" =>
    \A g \in Gens \ detached : recorder[g] = "finished" /\ ~spoiled[g] =>
      judged.raw[g] <= cast[g] /\ judged.screen[g] <= judged.raw[g]

\* However the run went, a child its session was given has ended or been killed.
\* Only one whose spawn failed after the fork, before it had a reader, may run on.
NoChildLeft ==
  stage \in Ended =>
    \A g \in Gens : child[g] = "running" => killed[g] \/ reader[g] = "absent"

\* A run always ends: no step, no wait and no close can be held up for ever by
\* what the child or its descendants do - but for a send to a child that does not
\* read and whose tty is full of input.
RunEnds == <>(stage \in Ended) \/ <>[]Stuck

=============================================================================

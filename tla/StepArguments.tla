----------------------------- MODULE StepArguments -----------------------------
(***************************************************************************)
(* The steps of crates/termproof/src/steps.rs and what they make of their  *)
(* arguments, on the session that repeats what it is sent,                 *)
(* terminal/inmemory.rs. How they wait on a real one is ScriptedRun.       *)
(*                                                                         *)
(* An argument is a number by its class, or one of another type.           *)
(***************************************************************************)
EXTENDS Naturals, Sequences, FiniteSets

CONSTANT MaxCalls   \* bound on the steps of a recipe

ASSUME StepAssumption == MaxCalls \in Nat

VARIABLES
  calls,     \* the steps: action, text (or key, or pattern), and two durations
  echoed,    \* what the session's screen and raw output show
  heard,     \* the log of the session
  running,   \* the session is alive
  outcomes   \* the StepResults: "passed", "failed", "timed_out", "panic" or "never"

stepVars == <<calls, echoed, heard, running, outcomes>>

\* "soon" is a while, "century" past FAR_FUTURE and "eon" past MAX_SLEEP_SECONDS, which no
\* Duration holds; as texts, numbers are what float() reads.
Numbers == {"nan", "-inf", "minus", "zero", "soon", "century", "eon", "inf"}
Durations == Numbers \cup {"absent", "true", "word", "null"}
Texts == {"absent", "null", "x", "y", ""}
KeyNames == {"absent", "null", "enter", "ctrl-c", "hyper"}
Patterns == {"absent", "null", "x", "y", "["}

-----------------------------------------------------------------------------
(* Durations.                                                              *)

CoerceFloat(v) == IF v = "true" THEN "soon" ELSE IF v \in Numbers THEN v ELSE "rejected"
ValueOr(v, default) == IF v = "absent" THEN default ELSE CoerceFloat(v)
Finite(f) == f \notin {"nan", "inf", "-inf"}

\* Faulty: NaN is not less than zero.
DurationOrPanic(f) ==
  IF f \in {"-inf", "minus", "zero"} THEN "zero"
  ELSE IF f \in {"century", "eon", "inf"} THEN "far" ELSE IF f = "nan" THEN "panic" ELSE "soon"

DurationFromSecs(f) ==
  IF f \in {"nan", "-inf", "minus", "zero"} THEN "zero"
  ELSE IF f \in {"century", "eon", "inf"} THEN "far" ELSE "soon"

StableWindowFromSecs(f) == IF Finite(f) THEN DurationFromSecs(f) ELSE "zero"
ValidateRegexTimeout(f) ==
  IF f = "rejected" \/ ~Finite(f) \/ f \in {"minus", "zero"} THEN "rejected" ELSE f

-----------------------------------------------------------------------------
(* The session.                                                            *)

Shows(text) == text = "" \/ \E i \in 1..Len(echoed) : echoed[i] = text
KnownKey(key) == key \in {"enter", "ctrl-c"}

-----------------------------------------------------------------------------
(* The steps: an outcome, and what the session hears and echoes.           *)

Only(outcome) == [is |-> outcome, hears |-> <<>>, echoes |-> <<>>]
Failed == Only("failed")
Or(condition, otherwise) == IF condition THEN Only("passed") ELSE Only(otherwise)
IsText(text) == text \notin {"absent", "null"}

WaitForText(c) ==
  LET timeout == ValueOr(c.timeout, "soon") IN
  IF ~IsText(c.text) \/ timeout = "rejected" THEN Failed
  ELSE IF DurationFromSecs(timeout) = "panic" THEN Only("panic")
  ELSE Or(Shows(c.text), "timed_out")

\* The fixture is always idle.
WaitForIdle(c) ==
  LET stable == ValueOr(c.other, "soon")
      timeout == ValueOr(c.timeout, "soon")
  IN  IF stable = "rejected" \/ timeout = "rejected" THEN Failed
      ELSE IF "panic" \in {StableWindowFromSecs(stable), DurationFromSecs(timeout)}
      THEN Only("panic") ELSE Only("passed")

SendText(c) ==
  IF ~IsText(c.text) THEN Failed
  ELSE [is |-> "passed", hears |-> <<"text">>, echoes |-> <<c.text>>]

SendLine(c) ==
  IF c.text = "null" THEN Failed
  ELSE [is |-> "passed", hears |-> <<"line">>,
        echoes |-> <<IF c.text = "absent" THEN "" ELSE c.text, "return">>]

Press(c) ==
  IF IsText(c.text) /\ KnownKey(c.text)
  THEN [is |-> "passed", hears |-> <<"key">>, echoes |-> <<>>] ELSE Failed

Sleep(c) ==
  LET seconds == ValueOr(c.other, "soon") IN
  IF seconds \in {"rejected", "minus", "eon"} \/ ~Finite(seconds) THEN Failed
  ELSE IF seconds = "century" THEN Only("never") ELSE Only("passed")

\* A pattern is searched for in texts that are not empty; a session that has ended is
\* looked at once more, and one that goes on until the deadline.
WaitForRegex(c) ==
  LET timeout == ValidateRegexTimeout(ValueOr(c.timeout, "soon")) IN
  IF ~IsText(c.text) \/ c.text = "[" \/ timeout = "rejected" THEN Failed
  ELSE IF Shows(c.text) /\ \E i \in 1..Len(echoed) : echoed[i] # "" THEN Only("passed")
  ELSE IF running /\ DurationFromSecs(timeout) = "far" THEN Only("never")
  ELSE Only("timed_out")

DispatchStep(c) ==
  CASE c.action = "wait_for_text" -> WaitForText(c)
    [] c.action = "wait_for_idle" -> WaitForIdle(c)
    [] c.action = "send_text" -> SendText(c)
    [] c.action = "send_line" -> SendLine(c)
    [] c.action = "press" -> Press(c)
    [] c.action = "sleep" -> Sleep(c)
    [] c.action = "wait_for_regex" -> WaitForRegex(c)
    [] OTHER -> Failed

StepInit(recipes) ==
  /\ calls \in recipes /\ Len(calls) <= MaxCalls
  /\ running \in BOOLEAN
  /\ echoed = <<>> /\ heard = <<>> /\ outcomes = <<>>

\* run_steps, up to the first that does not pass.
RunStep ==
  /\ Len(outcomes) < Len(calls)
  /\ outcomes # <<>> => outcomes[Len(outcomes)] = "passed"
  /\ LET result == DispatchStep(calls[Len(outcomes) + 1]) IN
       /\ outcomes' = Append(outcomes, result.is)
       /\ heard' = heard \o result.hears
       /\ echoed' = echoed \o result.echoes
  /\ UNCHANGED <<calls, running>>

Actions == {"wait_for_text", "wait_for_idle", "send_text", "send_line", "press", "sleep",
            "wait_for_regex", "unknown"}
AnyCall == [action : Actions, text : Texts \cup KeyNames \cup Patterns,
            timeout : Durations, other : Durations]

StepSpec == StepInit(Seq(AnyCall)) /\ [][RunStep]_stepVars

-----------------------------------------------------------------------------
IsSend(c) == c.action \in {"send_text", "send_line"}
PassedInputs ==
  {k \in 1..Len(outcomes) :
     outcomes[k] = "passed" /\ (IsSend(calls[k]) \/ calls[k].action = "press")}
PlaceOf(k) == Cardinality({j \in PassedInputs : j <= k})

\* What an outcome may be, of the k-th step.
OutcomeOf(k) ==
  LET c == calls[k]  outcome == outcomes[k] IN
  /\ outcome # "panic"
  /\ outcome = "timed_out" => c.action \in {"wait_for_text", "wait_for_regex"}
  /\ outcome = "never" => {c.timeout, c.other} \cap {"century", "eon"} # {}
  /\ outcome = "passed" /\ c.action \in {"wait_for_text", "wait_for_regex"} =>
       c.text = "" \/ \E j \in 1..(k - 1) : IsSend(calls[j]) /\ calls[j].text = c.text
  /\ c.action = "wait_for_text" /\ IsText(c.text) /\ c.timeout \in Numbers => outcome # "failed"
  /\ c.action = "wait_for_idle" /\ {c.timeout, c.other} \subseteq Numbers => outcome = "passed"
  /\ c.action = "sleep" /\ c.other \in {"nan", "inf", "-inf", "minus"} => outcome = "failed"
  /\ c.action = "wait_for_regex" /\ c.timeout \in {"nan", "inf", "-inf", "minus", "zero"} =>
       outcome = "failed"

\* The session hears exactly the input steps that passed, in their order; nothing panics;
\* only what waits for a condition times out, and a step never ends only if its deadline is
\* past reach; a wait that passed was for what an earlier step had sent; a negative, missing
\* or infinite duration fails a sleep and a regex, and no other wait for its own sake.
StepsAreHeard ==
  /\ Len(heard) = Cardinality(PassedInputs)
  /\ \A k \in PassedInputs :
       heard[PlaceOf(k)] = [send_text |-> "text", send_line |-> "line", press |-> "key"]
                             [calls[k].action]
  /\ \A k \in 1..Len(outcomes) : (outcomes[k] = "passed" \/ k = Len(outcomes)) /\ OutcomeOf(k)

===============================================================================

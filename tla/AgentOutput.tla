------------------------------ MODULE AgentOutput ------------------------------
(***************************************************************************)
(* What is made of the output of an agent: crates/termproof/src/agent.rs.  *)
(* An output is a sequence of pieces: words, ends of lines, fences, lone   *)
(* braces, and JSON objects, each of which stands on one line or, in two   *)
(* halves, on two.                                                         *)
(***************************************************************************)
EXTENDS Naturals, Sequences, SequencesExt

CONSTANTS
  MaxBytes,   \* MAX_AGENT_OUTPUT_BYTES, in pieces
  MaxContext  \* MAX_PROMPT_CONTEXT_CHARS

ASSUME AgentAssumption == MaxBytes \in Nat \ {0} /\ MaxContext \in Nat

VARIABLES
  context,   \* the size of the recipe in the prompt
  prompt,    \* what the prompt says of the recipe
  said,      \* the output
  inside,    \* the cut, if there is one, falls inside a piece
  candidates, objects,
  parsed,    \* the ParsedAgentOutput
  parsing    \* "prompting", "given", "bounded", "collected", "decoded", "parsed" or "panicked"

agentVars == <<context, prompt, said, inside, candidates, objects, parsed, parsing>>

\* Objects by what they have: "assertions" with the check true, false or of another type,
\* or a list instead of a map; a transcript; or neither.
Objects == {"yes", "no", "odd", "list", "told", "other"}
Keyed == Objects \ {"other"}
Brackets == Objects \cup {"<", ">", "{", "}", "cut"}
Opens(piece) == piece \in Objects \cup {"<", "{", "cut"}
Closes(piece) == piece \in Objects \cup {">", "}", "cut"}

\* The halves "<" and ">" are of one object, that has "yes"; "cut" is the start of an
\* object up to the end of its assertions, and these, alone, are an object that has neither.
Decoded(pieces) ==
  IF pieces = <<"<", "nl", ">">> THEN {"yes"}
  ELSE IF Len(pieces) = 1 THEN {pieces[1]} \cap Objects ELSE {}

AgentInit(outputs) ==
  /\ context \in 0..MaxContext + 1 /\ prompt = "none"
  /\ said \in outputs /\ inside \in BOOLEAN
  /\ candidates = <<>> /\ objects = <<>> /\ parsed = "none"
  /\ parsing = "prompting"

-----------------------------------------------------------------------------
\* String::truncate panics inside a character. The marked data is the longer of the two,
\* so what is cut once is cut twice.
BuildAgentPrompt ==
  /\ parsing = "prompting"
  /\ IF context <= MaxContext
     THEN prompt' = "whole" /\ parsing' = "given"
     ELSE \/ prompt' = "marked" /\ parsing' = "given"
          \/ prompt' = "none" /\ parsing' = "panicked"
  /\ UNCHANGED <<context, said, inside, candidates, objects, parsed>>

\* The cut is made in bytes: inside an object it leaves its start, here the longest one,
\* and inside a character of a word it panics.
Bounded ==
  IF Len(said) <= MaxBytes THEN said
  ELSE LET last == said[MaxBytes] IN
       SubSeq(said, 1, MaxBytes - 1) \o
         <<IF ~inside \/ last \notin Objects THEN last
           ELSE IF last \in {"yes", "no", "odd"} THEN "cut" ELSE "{">>

Bound ==
  /\ parsing = "given"
  /\ \/ said' = Bounded /\ parsing' = "bounded"
     \/ /\ Len(said) > MaxBytes /\ inside /\ said[MaxBytes] = "w"
        /\ parsing' = "panicked" /\ UNCHANGED said
  /\ UNCHANGED <<context, prompt, inside, candidates, objects, parsed>>

-----------------------------------------------------------------------------
(* load_json.                                                              *)

Trim(pieces) ==
  LET kept == {i \in 1..Len(pieces) : pieces[i] # "nl"}
  IN  IF kept = {} THEN <<>>
      ELSE SubSeq(pieces, Min(kept), Max(kept))

\* What stands between a mark and the one before it, of which there is one at each end.
SplitBy(pieces, mark) ==
  LET Before(i) == Max({0} \cup {j \in 1..i - 1 : pieces[j] = mark})
  IN  FlattenSeq([i \in 1..Len(pieces) + 1 |->
        IF i = Len(pieces) + 1 \/ pieces[i] = mark
        THEN <<SubSeq(pieces, Before(i) + 1, i - 1)>> ELSE <<>>])

WithoutTag(chunk) == IF chunk # <<>> /\ chunk[1] = "json" THEN Trim(Tail(chunk)) ELSE chunk
Chunks ==
  IF "fence" \notin {said[i] : i \in 1..Len(said)} THEN <<>>
  ELSE LET chunks == Reverse(SplitBy(said, "fence"))
       IN  [k \in 1..Len(chunks) |-> WithoutTag(Trim(chunks[k]))]

NotEmpty(sequences) ==
  FlattenSeq([k \in 1..Len(sequences) |->
                IF sequences[k] = <<>> THEN <<>> ELSE <<sequences[k]>>])

\* The whole, the lines from the last to the first, and the fenced chunks likewise.
Collect ==
  /\ parsing = "bounded" /\ parsing' = "collected"
  /\ candidates' = NotEmpty(<<Trim(said)>> \o Reverse(SplitBy(said, "nl")) \o Chunks)
  /\ UNCHANGED <<context, prompt, said, inside, objects, parsed>>

\* From each brace, the last first: all that follows, or that up to the last brace that
\* closes. Of an object that is cut off, only what is inside of it can be decoded.
FromBrace(i) ==
  LET slice == SubSeq(said, i, Len(said))
      closing == {j \in i..Len(said) : Closes(said[j])}
      upTo == IF closing = {} THEN i - 1 ELSE Max(closing)
      whole == Decoded(Trim(slice))
  IN  IF said[i] = "cut" THEN IF upTo = i THEN {"other"} ELSE {}
      ELSE IF whole # {} THEN whole ELSE Decoded(SubSeq(said, i, upTo))

OneOf(set) == IF set = {} THEN <<>> ELSE <<CHOOSE x \in set : TRUE>>

Decode ==
  /\ parsing = "collected" /\ parsing' = "decoded"
  /\ objects' =
       FlattenSeq([k \in 1..Len(candidates) |-> OneOf(Decoded(candidates[k]))])
       \o FlattenSeq([k \in 1..Len(said) |->
            LET i == Len(said) + 1 - k IN IF Opens(said[i]) THEN OneOf(FromBrace(i)) ELSE <<>>])
  /\ UNCHANGED <<context, prompt, said, inside, candidates, parsed>>

\* Faulty: the first object, whatever it has.
FirstValue == objects[1]

Preferred ==
  LET keyed == {i \in 1..Len(objects) : objects[i] \in Keyed}
  IN  IF keyed = {} THEN objects[1] ELSE objects[Min(keyed)]

\* Checks that are no booleans fail; a map that is missing is empty.
ParseAgentOutput ==
  /\ parsing = "decoded" /\ parsing' = "parsed"
  /\ LET map == IF objects = <<>> THEN "nothing" ELSE Preferred IN
       parsed' = [check |-> CASE map = "yes" -> "passed"
                              [] map \in {"no", "odd"} -> "failed"
                              [] OTHER -> "not reported",
                  transcript |-> IF map = "told" THEN "told" ELSE "output"]
  /\ UNCHANGED <<context, prompt, said, inside, candidates, objects>>

AgentStep == BuildAgentPrompt \/ Bound \/ Collect \/ Decode \/ ParseAgentOutput

-----------------------------------------------------------------------------
Stands(piece) == \E i \in 1..Len(said) : said[i] = piece

\* A check passes only if an object of the output says so, and fails or is missing
\* otherwise; an object alone on its line is found, and of several with a verdict or a
\* transcript the last such line decides, unless the output is that of a single object;
\* a prompt that leaves part of the recipe out says so.
AnswerIsSaid ==
  /\ parsing = "parsed" =>
       LET lines == SplitBy(said, "nl")
           alone == {k \in 1..Len(lines) : Len(lines[k]) = 1 /\ lines[k][1] \in Keyed}
           last == lines[Max(alone)][1]
       IN  /\ parsed.check = "passed" => Stands("yes") \/ Stands("<")
           /\ parsed.check = "failed" => Stands("no") \/ Stands("odd")
           /\ parsed.transcript = "told" => Stands("told")
           /\ alone # {} => /\ parsed.check = "passed" <=> last = "yes"
                            /\ parsed.check = "failed" <=> last \in {"no", "odd"}
                            /\ parsed.transcript = "told" <=> last = "told"
  /\ prompt = "whole" => context <= MaxContext
  /\ parsing \notin {"prompting", "panicked"} /\ context > MaxContext => prompt = "marked"

===============================================================================

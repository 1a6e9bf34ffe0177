------------------------------ MODULE CastRecord ------------------------------
(***************************************************************************)
(* The recording of a session: the reader thread of terminal/pty.rs feeds  *)
(* each chunk to the live screen and to the recorder of terminal/cast.rs,  *)
(* and replay_cast draws the screen again from the file.                   *)
(*                                                                         *)
(* The program writes bytes: "a" is a character, "hi" and "lo" are the two *)
(* halves of one. A screen is the characters drawn on it, "?" for bytes    *)
(* that are none. A write to the file may fail, which nobody is told.      *)
(***************************************************************************)
EXTENDS Naturals, Sequences, SequencesExt

CONSTANTS
  MaxOutput,  \* bound on the characters the program writes
  MaxTyped,   \* bound on the texts that are sent
  NoRecorder

ASSUME CastAssumption == NoRecorder \notin {"writing", "finished"}

VARIABLES
  output,    \* what the program writes, in bytes
  readUpTo,  \* how many of them the reader thread has read
  live,      \* the bytes the live screen was fed
  recorder,  \* "writing", "finished", or NoRecorder
  castLines, \* the lines of the file below its header, and how each was written
  sent,      \* how many texts were sent
  cuts,      \* history: where the chunks that were recorded end
  gone,      \* history: the bytes of the chunks of which nothing was written
  replayed   \* what the last replay_cast drew

castVars == <<output, readUpTo, live, recorder, castLines, sent, cuts, gone, replayed>>

Characters == {<<"a">>, <<"hi", "lo">>}
Outputs == {FlattenSeq(text) : text \in UNION {[1..n -> Characters] : n \in 0..MaxOutput}}

\* A recorder that cannot be made, for its directory or its file, is done without.
CastInit ==
  /\ output \in Outputs
  /\ recorder \in {"writing", NoRecorder}
  /\ readUpTo = 0 /\ live = <<>> /\ castLines = <<>> /\ sent = 0
  /\ cuts = {} /\ gone = {} /\ replayed = "nothing"

-----------------------------------------------------------------------------
(* What bytes are drawn as.                                                *)

Whole(bytes, i) == bytes[i] = "hi" /\ i < Len(bytes) /\ bytes[i + 1] = "lo"

\* Both from_utf8_lossy and the parser of the screen; the parser keeps a half that is
\* last for the bytes that follow.
Drawn(bytes) ==
  LET At(i) ==
        IF bytes[i] = "a" THEN <<"a">>
        ELSE IF Whole(bytes, i) THEN <<"c">>
        ELSE IF i > 1 /\ Whole(bytes, i - 1) THEN <<>> ELSE <<"?">>
  IN  FlattenSeq([i \in 1..Len(bytes) |-> At(i)])

Shown == Drawn(IF live # <<>> /\ Last(live) = "hi" THEN Front(live) ELSE live)

-----------------------------------------------------------------------------
(* CastRecorder.                                                           *)

\* How the write of a line may end: "open" is all of it but the end of the line, "cut" a
\* part of it. The next line then begins where this one stops.
Fates == {"written", "open", "cut", "lost"}

RecordLine(kind, data, fate) ==
  castLines' = IF recorder = "writing" /\ data # <<>> /\ fate # "lost"
               THEN Append(castLines, [kind |-> kind, data |-> data, fate |-> fate])
               ELSE castLines

\* One round of the reader thread, which may outlive close() and so the recorder.
ReadChunk ==
  \E upTo \in readUpTo + 1..Len(output), fate \in Fates :
    LET chunk == SubSeq(output, readUpTo + 1, upTo) IN
      /\ readUpTo' = upTo
      /\ live' = live \o chunk
      /\ RecordLine("o", Drawn(chunk), fate)
      /\ cuts' = IF recorder = "writing" THEN cuts \cup {upTo} ELSE cuts
      /\ gone' = IF recorder = "writing" /\ fate = "lost" THEN gone \cup (readUpTo + 1..upTo)
                 ELSE gone
      /\ UNCHANGED <<output, recorder, sent, replayed>>

\* send_bytes, once the bytes are written to the terminal.
SendBytes ==
  /\ sent < MaxTyped
  /\ sent' = sent + 1
  /\ \E fate \in Fates : RecordLine("i", <<"a">>, fate)
  /\ UNCHANGED <<output, readUpTo, live, recorder, cuts, gone, replayed>>

FinishCast ==
  /\ recorder = "writing"
  /\ recorder' = "finished"
  /\ UNCHANGED <<output, readUpTo, live, castLines, sent, cuts, gone, replayed>>

\* Faulty: draws every event.
ReplayAll == FlattenSeq([i \in 1..Len(castLines) |-> castLines[i].data])

Replay ==
  FlattenSeq([i \in 1..Len(castLines) |->
                IF castLines[i].kind = "o" THEN castLines[i].data ELSE <<>>])

\* A line that is no JSON ends the replay: one that was cut, or two that run together.
Broken ==
  \E i \in 1..Len(castLines) :
    castLines[i].fate = "cut" \/ (castLines[i].fate = "open" /\ i < Len(castLines))

\* The header was there before the program; every line is flushed, so also a session
\* that goes on, or was killed, can be replayed.
ReplayCast ==
  /\ replayed' = IF recorder = NoRecorder \/ Broken THEN "error" ELSE Replay
  /\ UNCHANGED <<output, readUpTo, live, recorder, castLines, sent, cuts, gone>>

CastStep == ReadChunk \/ SendBytes \/ FinishCast \/ ReplayCast

-----------------------------------------------------------------------------
Recorded == IF cuts = {} THEN 0 ELSE CHOOSE n \in cuts : \A m \in cuts : m <= n

\* A replay that ends without an error has drawn what the live screen showed when the last
\* chunk was recorded, of all and only the program's output, but for the characters that
\* two reads split, of which either half is drawn as no character, and for the chunks whose
\* write failed before it began: of these nobody is told. If there are none of either, it
\* is what the live screen shows.
ReplayShowsScreen ==
  LET Split(i) == i \in cuts /\ Whole(output, i)
      At(i) == IF i \in gone THEN <<>>
               ELSE IF output[i] = "a" THEN <<"a">>
               ELSE IF output[i] = "hi" THEN IF Split(i) THEN <<"?">> ELSE <<"c">>
               ELSE IF Split(i - 1) THEN <<"?">> ELSE <<>>
      UpTo(n) == FlattenSeq([i \in 1..n |-> At(i)])
      AllRecorded == gone = {} /\ (recorder = "writing" \/ readUpTo = Recorded)
  IN  /\ recorder = NoRecorder => castLines = <<>>
      /\ recorder # NoRecorder /\ ~Broken => Replay = UpTo(Recorded)
      /\ recorder = "writing" => Recorded = readUpTo
      /\ (\A i \in cuts : ~Whole(output, i)) /\ AllRecorded /\ recorder # NoRecorder /\ ~Broken =>
           Replay = Shown

===============================================================================

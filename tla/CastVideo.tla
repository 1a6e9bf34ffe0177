------------------------------ MODULE CastVideo ------------------------------
(***************************************************************************)
(* CastVideoConverter of crates/termproof/src/evidence/cast_video.rs: the  *)
(* events of a cast are replayed one line at a time, the screen is sampled *)
(* at a fixed rate, every sample is drawn by one tool and all of them are  *)
(* encoded by another. Time is counted in ticks; the emulator is external, *)
(* so a screen is a member of a small set.                                 *)
(***************************************************************************)
EXTENDS Integers, Sequences

CONSTANTS
  Interval,        \* 1 / fps
  IdleLimit,       \* idle_time_limit
  Stamps,          \* the timestamps an event may carry, in any order
  Screens, Blank,  \* what the emulator may show, and at first
  MaxLines,        \* bound on the lines of a cast
  NoVideo

ASSUME VideoAssumption ==
  /\ Interval \in Nat \ {0} /\ IdleLimit \in Nat /\ Stamps \subseteq Nat
  /\ Blank \in Screens /\ MaxLines \in Nat

VARIABLES
  phase, linesRead,
  castTime,      \* previous_cast_time
  playback,      \* playback_time
  nextFrame,     \* next_frame_at
  screen,        \* what the emulator shows
  frames,
  drawn,         \* the frames drawn to files, of those sampled
  video,         \* what is at the output path
  shown          \* history: every screen and its playback time, in order

videoVars ==
  <<phase, linesRead, castTime, playback, nextFrame, screen, frames, drawn, video, shown>>

VideoInit ==
  /\ phase = "open" /\ linesRead = 0
  /\ castTime = 0 /\ playback = 0 /\ nextFrame = 0
  /\ screen = Blank /\ frames = <<>> /\ drawn = 0 /\ video = NoVideo
  /\ shown = <<>>

Goto(s) == phase' = s
Smaller(a, b) == IF a < b THEN a ELSE b
Larger(a, b) == IF a < b THEN b ELSE a

\* The file is not there, is empty, or its first line is no JSON.
OpenFails ==
  /\ phase = "open" /\ Goto("failed")
  /\ UNCHANGED <<linesRead, castTime, playback, nextFrame, screen, frames, drawn, video, shown>>

ReadHeader ==
  /\ phase = "open" /\ Goto("events")
  /\ UNCHANGED <<linesRead, castTime, playback, nextFrame, screen, frames, drawn, video, shown>>

\* A line that is no JSON ends the conversion: what came before is lost.
BadLine ==
  /\ phase = "events" /\ linesRead < MaxLines /\ linesRead' = linesRead + 1
  /\ Goto("failed")
  /\ UNCHANGED <<castTime, playback, nextFrame, screen, frames, drawn, video, shown>>

\* An empty line, one that is no event, and an event that is not of output.
SkipLine ==
  /\ phase = "events" /\ linesRead < MaxLines /\ linesRead' = linesRead + 1
  /\ UNCHANGED <<phase, castTime, playback, nextFrame, screen, frames, drawn, video, shown>>

\* Faulty: a clock that was set back takes the playback with it.
ElapsedSigned(timestamp) == Smaller(timestamp - castTime, IdleLimit)

\* A pause counts up to the limit, and a clock that was set back counts nothing.
Elapsed(timestamp) == Smaller(Larger(timestamp - castTime, 0), IdleLimit)

\* How many frames are due at a playback time.
Due(time) == IF time < nextFrame THEN 0 ELSE (time - nextFrame) \div Interval + 1

\* The time goes on, the screen changes, and only then the frames due are taken: all of
\* them show the screen after the event.
Output ==
  /\ phase = "events" /\ linesRead < MaxLines /\ linesRead' = linesRead + 1
  /\ \E timestamp \in Stamps, after \in Screens :
       LET time == playback + Elapsed(timestamp) IN
       /\ playback' = time /\ castTime' = timestamp /\ screen' = after
       /\ frames' = frames \o [i \in 1..Due(time) |-> after]
       /\ nextFrame' = nextFrame + Due(time) * Interval
       /\ shown' = Append(shown, [at |-> time, screen |-> after])
  /\ UNCHANGED <<phase, drawn, video>>

\* The final screen is a frame, unless the last one shows it.
EndOfCast ==
  /\ phase = "events" /\ Goto("draw")
  /\ frames' = IF frames = <<>> \/ frames[Len(frames)] # screen
               THEN Append(frames, screen) ELSE frames
  /\ UNCHANGED <<linesRead, castTime, playback, nextFrame, screen, drawn, video, shown>>

DrawFrame ==
  /\ phase = "draw" /\ drawn < Len(frames)
  /\ drawn' = drawn + 1
  /\ UNCHANGED <<phase, linesRead, castTime, playback, nextFrame, screen, frames, video, shown>>

\* A tool that fails or outlives its time ends the conversion; the encoder may have
\* begun to write the output.
ToolFails ==
  /\ phase = "draw"
  /\ IF drawn < Len(frames) THEN UNCHANGED video ELSE video' \in {NoVideo, <<>>}
  /\ Goto("failed")
  /\ UNCHANGED <<linesRead, castTime, playback, nextFrame, screen, frames, drawn, shown>>

Encode ==
  /\ phase = "draw" /\ drawn = Len(frames)
  /\ video' = SubSeq(frames, 1, drawn) /\ Goto("done")
  /\ UNCHANGED <<linesRead, castTime, playback, nextFrame, screen, frames, drawn, shown>>

VideoStep ==
  \/ OpenFails \/ ReadHeader \/ BadLine \/ SkipLine \/ Output \/ EndOfCast
  \/ DrawFrame \/ ToolFails \/ Encode

VideoSpec == VideoInit /\ [][VideoStep]_videoVars

-----------------------------------------------------------------------------
\* One place of `shown` for each frame, in order.
InOrder(fs) ==
  \E place \in [1..Len(fs) -> 1..Len(shown)] :
    /\ \A k \in 1..Len(fs) : shown[place[k]].screen = fs[k]
    /\ \A k \in 1..(Len(fs) - 1) : place[k] <= place[k + 1]

\* Whatever the timestamps: playback never goes back and spends no more than the limit on
\* a pause, the frames sampled are as many as it is long, and a video that was made shows
\* screens of the cast in their order and ends with the last of them.
VideoIsWhole ==
  /\ \A i \in 1..Len(shown) :
       LET before == IF i = 1 THEN 0 ELSE shown[i - 1].at
       IN  before <= shown[i].at /\ shown[i].at <= before + IdleLimit
  /\ phase = "events" /\ shown # <<>> =>
       (Len(frames) - 1) * Interval <= playback /\ playback < Len(frames) * Interval
  /\ phase = "done" =>
       /\ video # <<>> /\ video[Len(video)] = screen
       /\ shown # <<>> => InOrder(video)

=============================================================================

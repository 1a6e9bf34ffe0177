------------------------------- MODULE Artifacts -------------------------------
(***************************************************************************)
(* How one file of the evidence is made: by the renderers of               *)
(* evidence/render.rs, by ScreenshotRenderer (evidence/screenshot.rs)      *)
(* through rsvg-convert, or by render_mp4 (evidence/video.rs) through agg  *)
(* and ffmpeg. The process may be killed between any two steps.            *)
(***************************************************************************)
EXTENDS Naturals

VARIABLES
  maker,     \* "svg", "png", "screenshot" or "mp4"
  tools,     \* the external programs that are installed
  wanted,    \* render_video, for an "mp4"
  earlier,   \* history: what was there at the call, "none" or "old"
  target,    \* the file asked for: "none", "old", "damaged" or "new"
  between,   \* the file it is made from or by: "none", "part" or "whole"
  making,    \* where the maker is
  made       \* "nothing_yet", "ok", "skipped", "error" or "killed"

artifactVars == <<maker, tools, wanted, earlier, target, between, making, made>>

Atomic == {"svg", "png"}
call == <<maker, tools, wanted, earlier>>

ArtifactInit ==
  /\ maker \in Atomic \cup {"screenshot", "mp4"}
  /\ tools \in SUBSET {"rsvg-convert", "agg", "ffmpeg"}
  /\ wanted \in BOOLEAN
  /\ earlier \in {"none", "old"} /\ target = earlier
  /\ between = "none" /\ making = "called" /\ made = "nothing_yet"

At(place) == making = place /\ made = "nothing_yet"
Proceed(place) == making' = place /\ UNCHANGED made
Return(answer) == made' = answer /\ UNCHANGED making

-----------------------------------------------------------------------------
(* render_svg and render_png: a temporary file beside the target.          *)

\* A directory, a temporary file or a write that fails; what was written goes.
GiveUp ==
  /\ At("called") \/ At("filling")
  /\ maker \in Atomic \cup {"screenshot"}
  /\ between' = "none" /\ Return("error")
  /\ UNCHANGED <<call, target>>

CreateTemporary ==
  /\ At("called") /\ maker \in Atomic \cup {"screenshot"}
  /\ between' = "part" /\ Proceed("filling")
  /\ UNCHANGED <<call, target>>

\* Faulty: fills the target.
FillTarget ==
  /\ At("filling")
  /\ target' = "damaged" /\ between' = "whole"
  /\ Proceed(IF maker \in Atomic THEN "persisting" ELSE "rasterizing")
  /\ UNCHANGED call

Fill ==
  /\ At("filling")
  /\ between' = "whole"
  /\ Proceed(IF maker \in Atomic THEN "persisting" ELSE "rasterizing")
  /\ UNCHANGED <<call, target>>

Persist ==
  /\ At("persisting") \/ At("persisting_again")
  /\ target' = "new" /\ between' = "none" /\ Proceed("renamed")
  /\ UNCHANGED call

Persisted ==
  /\ At("renamed")
  /\ Return("ok")
  /\ UNCHANGED <<call, target, between>>

\* The target is removed, or cannot be, and the renaming is tried once more.
PersistFails ==
  /\ At("persisting")
  /\ target' \in {target, "none"} /\ Proceed("persisting_again")
  /\ UNCHANGED <<call, between>>

PersistFailsAgain ==
  /\ At("persisting_again")
  /\ between' = "none" /\ Return("error")
  /\ UNCHANGED <<call, target>>

-----------------------------------------------------------------------------
(* ScreenshotRenderer::render: the tool writes the target itself.          *)

\* The tool opens the target, and completes it; it outlives a maker that is killed.
ToolWrites ==
  /\ \/ making = "rasterizing" /\ "rsvg-convert" \in tools
     \/ making = "ffmpeg"
  /\ made \in {"nothing_yet", "killed"} /\ target # "new"
  /\ target' = IF target = "damaged" THEN "new" ELSE "damaged"
  /\ UNCHANGED <<call, between, making, made>>

Rasterize ==
  /\ At("rasterizing") /\ target = "new"
  /\ between' = "none" /\ Return("ok")
  /\ UNCHANGED <<call, target>>

\* It is not there, exits with a failure, or is killed at the timeout, whatever it wrote.
RasterizeFails ==
  /\ At("rasterizing")
  /\ between' = "none" /\ Return("error")
  /\ UNCHANGED <<call, target>>

-----------------------------------------------------------------------------
(* render_mp4_or_fail: agg makes a GIF beside the target, ffmpeg the video. *)

SkipVideo ==
  /\ At("called") /\ maker = "mp4" /\ ~wanted
  /\ Return("skipped")
  /\ UNCHANGED <<call, target, between>>

ResolveTools ==
  /\ At("called") /\ maker = "mp4" /\ wanted
  /\ IF {"agg", "ffmpeg"} \subseteq tools THEN Proceed("agg") ELSE Return("error")
  /\ UNCHANGED <<call, target, between>>

RunAgg ==
  /\ At("agg")
  /\ \/ between' = "whole" /\ Proceed("ffmpeg")
     \/ between' \in {"none", "part"} /\ Return("error")
  /\ UNCHANGED <<call, target>>

\* A failure to launch ffmpeg leaves the GIF; otherwise it is removed, if it can be.
RunFfmpeg ==
  /\ At("ffmpeg")
  /\ \/ Return("error") /\ target = earlier /\ UNCHANGED between
     \/ Return("ok") /\ target = "new" /\ between' \in {"none", "whole"}
     \/ Return("error") /\ between' \in {"none", "whole"}
  /\ UNCHANGED <<call, target>>

Killed ==
  /\ made = "nothing_yet"
  /\ Return("killed")
  /\ UNCHANGED <<call, target, between>>

ArtifactStep ==
  \/ GiveUp \/ CreateTemporary \/ Fill \/ Persist \/ Persisted \/ PersistFails
  \/ PersistFailsAgain \/ ToolWrites \/ Rasterize \/ RasterizeFails \/ SkipVideo \/ ResolveTools \/ RunAgg \/ RunFfmpeg \/ Killed

ArtifactSpec == ArtifactInit /\ [][ArtifactStep]_artifactVars

-----------------------------------------------------------------------------
\* A file that is put in place by renaming is, at every moment and after a kill, the one
\* that was there or the whole new one, or it is gone because the first renaming failed;
\* it is new only if that is what the maker says or the maker was killed; and the temporary
\* goes when the maker returns. A tool writes into the target: what it leaves is damaged
\* only where the maker reports an error or was killed, and then the old file is gone. A
\* maker that reports no error has made the whole new file, unless no video was wanted:
\* then it has touched nothing, and a wanted one without its tools is an error.
ArtifactsAreWhole ==
  /\ maker \in Atomic =>
       /\ target \in {earlier, "new"} \/ (making = "persisting_again" /\ target = "none")
       /\ target = "new" => making = "renamed" /\ made # "error"
  /\ maker # "mp4" /\ made \notin {"nothing_yet", "killed"} => between = "none"
  /\ target = "damaged" => made # "ok" /\ making \in {"rasterizing", "ffmpeg"}
  /\ made = "ok" => target = "new"
  /\ made = "skipped" <=> made \notin {"nothing_yet", "killed"} /\ maker = "mp4" /\ ~wanted
  /\ made = "skipped" => target = earlier /\ between = "none"
  /\ maker = "mp4" /\ (made = "ok" \/ target # earlier) => {"agg", "ffmpeg"} \subseteq tools

===============================================================================

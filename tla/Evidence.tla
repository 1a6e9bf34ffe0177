------------------------------- MODULE Evidence -------------------------------
(***************************************************************************)
(* The evidence of a run: crates/termproof/src/evidence/collector.rs with  *)
(* the Deduper of dedup.rs, over FallbackUploader. A program goes on       *)
(* drawing while screens are captured and while they are published;        *)
(* publish writes, renders and uploads one step after the other.           *)
(*                                                                         *)
(* What the program has drawn is a number; a screen, its text and the log  *)
(* up to it are functions of that number. Number 0 is the empty screen,    *)
(* which a capture of a pane that fails also reads.                        *)
(***************************************************************************)
EXTENDS FallbackUploader, FiniteSets

CONSTANTS
  MaxFrame,      \* bound on what the program draws
  MaxCaptures,   \* bound on the steps of the collector
  MaxUploads,    \* the same where there is an uploader
  MaxPublishes,  \* bound on the calls of publish
  MaxAgain,      \* bound on the steps of a call after the first
  Backends,      \* the kinds of session: "pty", "tmux" or "text"
  None

PathKinds == {"txt", "raw", "png", "json"}
AnyPath == [step : Nat, kind : PathKinds]
Renders == [step : Nat, shot : AnyPath, url : Nat \cup {None}]   \* of Deduper's last render

ASSUME EvidenceAssumption ==
  /\ MaxFrame \in Nat /\ MaxCaptures \in Nat /\ MaxUploads \in Nat /\ MaxPublishes \in Nat
  /\ MaxAgain \in Nat
  /\ Backends \subseteq {"pty", "tmux", "text"}
  /\ None \notin Nat /\ None \notin Seq(Nat) /\ None \notin AnyPath \cup Renders

VARIABLES
  backend, frame,
  logged, emulated,  \* a pty's reader has stored so far in the log, then in the screen
  snapshot,      \* the frame of the session's own snapshots or cached captures
  steps,         \* EvidenceCollector.steps
  hasUploader,
  stage,         \* where publish is; "idle" outside
  cursor,        \* the step being published
  previous,      \* Deduper.previous
  lastRendered,
  published,     \* the entries made by this publish
  files,         \* from the paths that exist to their content
  lost,          \* history: the files that a failing write has removed
  publishes,     \* how many calls were made
  returned,      \* the last one returned a manifest
  survived       \* history: what the uploads of artifacts survived

readerVars == <<logged, emulated>>
collectorVars == <<backend, frame, readerVars, snapshot, steps, hasUploader>>
publishVars == <<stage, cursor, previous, lastRendered, published, publishes, returned>>
diskVars == <<files, lost>>
evidenceVars == <<collectorVars, publishVars, diskVars, survived, uploaderVars>>

Frames == 0..MaxFrame
Look(f) == f % 3          \* render_fingerprint: screens recur
Text(f) == (Look(f) + 1) \div 2 \* grid_text: a highlight changes the look and not the text

EvidenceInit ==
  /\ UploaderInit
  /\ backend \in Backends /\ steps = <<>>
  /\ frame = 0 /\ logged = 0 /\ emulated = 0 /\ snapshot = 0
  /\ hasUploader \in BOOLEAN
  /\ stage = "idle" /\ cursor = 1 /\ previous = None /\ lastRendered = None
  /\ published = <<>> /\ publishes = 0 /\ returned = FALSE
  /\ files = [path \in {} |-> 0] /\ lost = {} /\ survived = {}

-----------------------------------------------------------------------------
(* Capturing.                                                              *)

Draw ==
  /\ frame < MaxFrame
  /\ frame' = frame + 1
  /\ UNCHANGED <<backend, readerVars, snapshot, steps, hasUploader, publishVars, diskVars,
                 survived, uploaderVars>>

\* The reader of a pty stores what it has read under one lock and then under another.
StoreRaw ==
  /\ backend = "pty" /\ emulated = logged
  /\ logged < frame /\ logged' = frame
  /\ UNCHANGED <<backend, frame, emulated, snapshot, steps, hasUploader, publishVars, diskVars,
                 survived, uploaderVars>>

StoreScreen ==
  /\ emulated < logged
  /\ emulated' = logged
  /\ UNCHANGED <<backend, frame, logged, snapshot, steps, hasUploader, publishVars, diskVars,
                 survived, uploaderVars>>

\* A call on the session brings its snapshots up to date: with the reader, or with the pane,
\* unless the capture of the pane fails.
SessionCall ==
  /\ stage = "idle"
  /\ snapshot' \in CASE backend = "pty" -> {logged} [] backend = "tmux" -> {0, frame}
                     [] OTHER -> {frame}
  /\ UNCHANGED <<backend, frame, readerVars, steps, hasUploader, publishVars, diskVars, survived,
                 uploaderVars>>

\* screen_attributed: the live screen of a pty; a fresh capture of a pane, which also replaces
\* what the session has cached; or no grid, and then the text.
Grids ==
  CASE backend = "pty" -> {emulated} [] backend = "tmux" -> {0, frame} [] OTHER -> {snapshot}

\* raw_output: of a pane what was just captured, else what the session last saw.
Log(grid) == IF backend = "tmux" THEN grid ELSE snapshot

Record(kind, grid) ==
  steps' = Append(steps, [kind |-> kind, grid |-> grid, text |-> Text(grid),
                          raw |-> IF kind = "failure" THEN Log(grid) ELSE None])

Capture ==
  /\ stage = "idle" /\ Len(steps) < IF hasUploader THEN MaxUploads ELSE MaxCaptures
  /\ \E kind \in {"checkpoint", "failure"}, grid \in Grids :
       Record(kind, grid) /\ snapshot' = Log(grid)
  /\ UNCHANGED <<backend, frame, readerVars, hasUploader, publishVars, diskVars, survived,
                 uploaderVars>>

-----------------------------------------------------------------------------
(* Publishing.                                                             *)

\* The index in a file's name makes it the step's own, whatever the label.
TextPath(i) == [step |-> i, kind |-> "txt"]
RawPath(i) == [step |-> i, kind |-> "raw"]
ImagePath(i) == [step |-> i, kind |-> "png"]
ManifestPath == [step |-> 0, kind |-> "json"]

Write(path, content) ==
  /\ files' = [p \in DOMAIN files \cup {path} |-> IF p = path THEN content ELSE files[p]]
  /\ lost' = lost \ {path}

Damaged == None   \* the content of an image whose rendering broke off

Entry(i) ==
  [shot |-> None, url |-> None, sameAs |-> None, failed |-> FALSE,
   text |-> TextPath(i), raw |-> IF steps[i].raw = None THEN None ELSE RawPath(i)]

Publish ==
  /\ stage = "idle" /\ publishes < MaxPublishes
  /\ publishes = 0 \/ Len(steps) <= MaxAgain
  /\ publishes' = publishes + 1
  /\ stage' = "step" /\ cursor' = 1
  /\ previous' = None /\ lastRendered' = None /\ published' = <<>> /\ returned' = FALSE
  /\ UNCHANGED <<collectorVars, diskVars, survived, uploaderVars>>

\* The file that publish is writing with atomic_write.
Target ==
  IF stage = "raw" THEN RawPath(cursor)
  ELSE IF cursor <= Len(steps) THEN TextPath(cursor) ELSE ManifestPath

\* A file that cannot be replaced is removed, for a second try.
RemoveTarget ==
  /\ stage \in {"step", "raw"} /\ Target \in DOMAIN files
  /\ files' = [p \in DOMAIN files \ {Target} |-> files[p]]
  /\ lost' = lost \cup {Target}
  /\ UNCHANGED <<collectorVars, publishVars, survived, uploaderVars>>

\* A text or the manifest that cannot be written ends the call with an error.
PublishFails ==
  /\ stage \in {"step", "raw"}
  /\ stage' = "idle"
  /\ UNCHANGED <<collectorVars, cursor, previous, lastRendered, published, publishes,
                 returned, diskVars, survived, uploaderVars>>

WriteText ==
  /\ stage = "step" /\ cursor <= Len(steps)
  /\ Write(TextPath(cursor), steps[cursor].text)
  /\ stage' = IF steps[cursor].raw = None THEN "check" ELSE "raw"
  /\ UNCHANGED <<collectorVars, cursor, previous, lastRendered, published, publishes,
                 returned, survived, uploaderVars>>

WriteRaw ==
  /\ stage = "raw"
  /\ Write(RawPath(cursor), steps[cursor].raw)
  /\ stage' = "check"
  /\ UNCHANGED <<collectorVars, cursor, previous, lastRendered, published, publishes,
                 returned, survived, uploaderVars>>

NextStep(entry) ==
  /\ published' = Append(published, entry)
  /\ cursor' = cursor + 1 /\ stage' = "step"

\* Faulty: compares the texts.
MatchesText == previous # None /\ Text(previous) = Text(steps[cursor].grid)

\* Deduper::check against the last screen that was rendered.
Matches == previous # None /\ Look(previous) = Look(steps[cursor].grid)

ReuseImage ==
  /\ stage = "check" /\ Matches
  /\ NextStep(IF lastRendered = None THEN Entry(cursor)
              ELSE [Entry(cursor) EXCEPT !.shot = lastRendered.shot, !.url = lastRendered.url,
                                         !.sameAs = lastRendered.step])
  /\ UNCHANGED <<collectorVars, previous, lastRendered, publishes, returned, diskVars, survived,
                 uploaderVars>>

Render ==
  /\ stage = "check" /\ ~Matches
  /\ previous' = steps[cursor].grid
  /\ Write(ImagePath(cursor), Look(steps[cursor].grid))
  /\ stage' = "upload"
  /\ UNCHANGED <<collectorVars, cursor, lastRendered, published, publishes, returned,
                 survived, uploaderVars>>

\* The converter refuses, is not there or is killed; Deduper::forget.
RenderFails ==
  /\ stage = "check" /\ ~Matches
  /\ previous' = None /\ lastRendered' = None
  /\ UNCHANGED diskVars \/ Write(ImagePath(cursor), Damaged)
  /\ NextStep([Entry(cursor) EXCEPT !.failed = TRUE])
  /\ UNCHANGED <<collectorVars, publishes, returned, survived, uploaderVars>>

Rendered(url) ==
  /\ lastRendered' = [step |-> cursor, shot |-> ImagePath(cursor), url |-> url]
  /\ NextStep([Entry(cursor) EXCEPT !.shot = ImagePath(cursor), !.url = url])
  /\ UNCHANGED <<collectorVars, previous, publishes, returned, diskVars>>

KeepLocal ==
  /\ stage = "upload" /\ ~hasUploader
  /\ Rendered(None)
  /\ UNCHANGED <<survived, uploaderVars>>

\* A URL shows what was uploaded to it: the look of the image at that time.
UploadImage ==
  /\ stage = "upload" /\ hasUploader
  /\ \E outcomes \in Outcomes :
       /\ Upload(outcomes)
       /\ Rendered(IF Uploaded(outcomes) THEN files[ImagePath(cursor)] ELSE None)
       /\ survived' = IF Uploaded(outcomes) /\ ErrorsOf(outcomes) # <<>>
                      THEN survived \cup {ErrorsOf(outcomes)} ELSE survived

\* Faulty: the manifest first.
WriteManifestFirst ==
  /\ stage = "step" /\ cursor = 1
  /\ Write(ManifestPath, [i \in 1..Len(steps) |-> Entry(i)])
  /\ returned' = TRUE
  /\ stage' = IF steps = <<>> THEN "idle" ELSE "check"
  /\ UNCHANGED <<collectorVars, cursor, previous, lastRendered, published, publishes,
                 survived, uploaderVars>>

WriteManifest ==
  /\ stage = "step" /\ cursor > Len(steps)
  /\ Write(ManifestPath, published)
  /\ stage' = "idle" /\ returned' = TRUE
  /\ UNCHANGED <<collectorVars, cursor, previous, lastRendered, published, publishes,
                 survived, uploaderVars>>

PublishStep ==
  \/ RemoveTarget \/ PublishFails \/ WriteText \/ WriteRaw \/ ReuseImage \/ Render \/ RenderFails
  \/ KeepLocal \/ UploadImage \/ WriteManifest

EvidenceNext ==
  Draw \/ StoreRaw \/ StoreScreen \/ SessionCall \/ Capture \/ Publish \/ PublishStep

EvidenceSpec == EvidenceInit /\ [][EvidenceNext]_evidenceVars

-----------------------------------------------------------------------------
Paths == {[step |-> 0, kind |-> "json"]} \cup [step : 1..MaxCaptures, kind : {"txt", "raw", "png"}]
Looks == 0..2
Entries == [shot : Paths \cup {None}, url : Looks \cup {None},
            sameAs : 1..MaxCaptures \cup {None}, failed : BOOLEAN,
            text : Paths, raw : Paths \cup {None}]

\* The variables range over these sets; a call publishes no more than was captured.
EvidenceTypeOK ==
  /\ backend \in Backends /\ frame \in Frames
  /\ logged \in 0..frame /\ emulated \in 0..logged /\ snapshot \in 0..frame
  /\ steps \in Seq([kind : {"checkpoint", "failure"}, grid : Frames, text : Looks,
                    raw : Frames \cup {None}])
  /\ stage \in {"idle", "step", "raw", "check", "upload"}
  /\ cursor \in 1..Len(steps) + 1 /\ Len(published) <= Len(steps)
  /\ previous \in Frames \cup {None}
  /\ published \in Seq(Entries) /\ publishes \in 0..MaxPublishes
  /\ DOMAIN files \subseteq Paths /\ lost \subseteq Paths \ DOMAIN files

\* A published step has an image or the error that there is none; the image, and what was
\* uploaded, show the screen that the step captured, also where another step's is reused
\* after renders that failed. Such a step names the first of a run that looks alike.
ImagesShowSteps ==
  \A i \in 1..Len(published) : LET entry == published[i] IN
    /\ entry.failed <=> (entry.shot = None)
    /\ entry.shot # None => entry.shot \in DOMAIN files
                            /\ (stage # "idle" \/ returned =>
                                 files[entry.shot] = Look(steps[i].grid))
    /\ entry.url # None => entry.shot # None /\ entry.url = Look(steps[i].grid)
    /\ entry.sameAs # None =>
         /\ entry.sameAs < i /\ published[entry.sameAs].sameAs = None
         /\ \A j \in entry.sameAs..i : Look(steps[j].grid) = Look(steps[i].grid)

\* A captured text is of the captured grid, and screens are captured in the order of time,
\* but for those that could not be read. What a failure keeps of the log is of the same
\* instant on a tmux pane and where there is no grid. On a pty it is what the session last
\* saw: the program may have drawn since; and where it is ahead of the screen, the next screen
\* to be captured that differs has caught up with it.
CapturesAreOrdered ==
  \A i \in 1..Len(steps) :
    /\ steps[i].text = Text(steps[i].grid)
    /\ steps[i].grid # 0 => \A j \in 1..i : steps[j].grid <= steps[i].grid
    /\ steps[i].raw # None /\ backend # "pty" => steps[i].raw = steps[i].grid
    /\ steps[i].raw # None => \A j \in i..Len(steps) :
         steps[i].grid < steps[j].grid => steps[i].raw <= steps[j].grid

\* What collector.rs:140 asks of one reading of a screen, whatever the session.
CapturesAreInstants ==
  \A i \in 1..Len(steps) : steps[i].raw # None => steps[i].raw = steps[i].grid

\* In every state, so also where publish fails or the process is killed: a file that a
\* manifest on the disk names is there, or a later publish has removed it and could not
\* replace it.
ManifestIsLast ==
  ManifestPath \in DOMAIN files =>
    \A i \in 1..Len(files[ManifestPath]) : LET entry == files[ManifestPath][i] IN
      {entry.text, entry.raw, entry.shot} \ {None} \subseteq DOMAIN files \cup lost

\* A publish that returns has put back all that those before it have lost.
LossIsRepaired == returned => lost = {}

\* Every failure that a later store made up for has left a trace, and one only.
DegradedIsTraced ==
  /\ {degraded[i] : i \in 1..Len(degraded)} = survived
  /\ Len(degraded) = Cardinality(survived)

\* A published step shows the screen that was captured, captures are in order, and the log
\* kept with one is of its instant, or off by no more than the session allows.
StepsShowScreens == ImagesShowSteps /\ CapturesAreOrdered

\* Wherever a publish stops, the disk names nothing that is missing but what a write failed
\* on, and no failure that was made up for is kept silent about.
NothingDangles == ManifestIsLast /\ LossIsRepaired /\ DegradedIsTraced

=============================================================================

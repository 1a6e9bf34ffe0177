----------------------------- MODULE PtySession -----------------------------
(***************************************************************************)
(* The pty session of crates/termproof/src/terminal/pty.rs: a child on a   *)
(* pseudo-terminal, the thread that drains the master into the raw log,    *)
(* the screen and the cast, and the thread that drives the session through *)
(* the Session trait.                                                      *)
(*                                                                         *)
(* Output is abstracted to its position in the tty's stream: `raw[g]` is   *)
(* how many bytes (or blocks of bytes) of the tty of child g are in the    *)
(* raw log. The reader owns the stretch between what it has stored and     *)
(* `taken[g]`. Of the text that waits look for, each chunk may complete it *)
(* in the log, which only grows, and may put it on the screen or take it   *)
(* off: with escapes in between, neither tells anything of the other.      *)
(* Each spawn has its own child, tty, reader and recorder; the raw log and *)
(* the screen are shared by all of them, as the Arcs are.                  *)
(***************************************************************************)
EXTENDS Naturals, FiniteSets

CONSTANTS
  MaxSpawns,   \* bound on spawn attempts of one PtySession value
  MaxOut,      \* bound on the output of one child
  TtyCap,      \* what the kernel's tty buffer holds before a write blocks
  InCap,       \* what it holds of input before a write to it blocks
  Codes,       \* exit codes a child may end with
  NoCode       \* Option::None

ASSUME PtyAssumption ==
  /\ MaxSpawns \in Nat \ {0}
  /\ MaxOut \in Nat \ {0}
  /\ TtyCap \in Nat \ {0}
  /\ InCap \in Nat \ {0}
  /\ NoCode \notin Codes

Gens == 1..MaxSpawns
Count == 0..MaxOut

VARIABLES
  (* the child and its tty *)
  child,      \* [Gens -> {"absent", "running", "exited"}]
  status,     \* what try_wait reports once the child has exited
  holder,     \* a descendant of the child holds the slave open
  killed,     \* the child has been sent its kill
  produced,   \* output written to the tty
  unread,     \* input in the tty
  (* the reader thread *)
  reader,     \* where in its loop the reader is
  taken,      \* output read from the master
  raw, screen,        \* output stored by the reader, shared
  cast,               \* the output that the cast holds without a gap
  rawText, screenText,  \* the text is in the raw log; is on the screen
  recorder,   \* the CastRecorder: file closed, open or never created
  spoiled,    \* history: a line of the cast was lost, or not all of it written
  (* the PtySession value and the call it is in *)
  gen,        \* the latest spawn attempt
  hasChild,   \* child.is_some()
  writer,     \* writer.is_some()
  handle,     \* reader_handle.is_some()
  detached,   \* readers a close gave up on
  exit_code,
  screen_snapshot, raw_snapshot,
  screenTextSeen, rawTextSeen,  \* the text is in them
  pc, ret,    \* the step of the call in progress, and its answer
  expired,    \* the deadline of the call has passed
  settled,    \* the stable window has passed since the last change
  lastSeen    \* last_screen and last_raw_len of wait_for_idle; history: of a
              \* wait_for_text, the screen and log in which it found the text

childVars  == <<child, status, holder, killed>>
envVars    == <<childVars, unread, produced>>
textVars   == <<rawText, screenText>>
readerVars == <<reader, taken, raw, screen, cast, textVars, spoiled>>
ownVars    == <<gen, hasChild, writer, handle, detached>>
snapVars   == <<screen_snapshot, raw_snapshot, screenTextSeen, rawTextSeen>>
timeVars   == <<expired, settled, lastSeen>>
vars == <<envVars, readerVars, recorder, ownVars, exit_code, snapVars,
          pc, ret, timeVars>>

ChildStates == {"absent", "running", "exited"}
ReaderSteps == {"absent", "read", "raw", "screen", "cast", "done"}
CallSteps   == {"ready", "send_write", "send_rest", "eof_write",
                "text_poll", "text_alive", "text_drain",
                "idle_poll", "idle_alive", "exit_poll",
                "close_kill", "close_wait", "close_join", "close_drop",
                "sync_screen", "sync_raw"}
Answers     == {"none", "ok", "err", "found", "gone", "idle", "timeout", "closed"}
MaybeCode   == Codes \cup {NoCode}

Nothing == [g \in Gens |-> 0]
Unseen  == [screen |-> Nothing, raw |-> Nothing]

Init ==
  /\ child = [g \in Gens |-> "absent"]
  /\ status = [g \in Gens |-> NoCode]
  /\ holder = [g \in Gens |-> FALSE]
  /\ killed = [g \in Gens |-> FALSE]
  /\ produced = Nothing
  /\ unread = [g \in Gens |-> 0]
  /\ reader = [g \in Gens |-> "absent"]
  /\ taken = Nothing /\ raw = Nothing /\ screen = Nothing /\ cast = Nothing
  /\ rawText = FALSE /\ screenText = FALSE
  /\ recorder = [g \in Gens |-> "none"]
  /\ spoiled = [g \in Gens |-> FALSE]
  /\ gen = 0
  /\ hasChild = FALSE /\ writer = FALSE /\ handle = FALSE
  /\ detached = {}
  /\ exit_code = NoCode
  /\ screen_snapshot = Nothing /\ raw_snapshot = Nothing
  /\ screenTextSeen = FALSE /\ rawTextSeen = FALSE
  /\ pc = "ready" /\ ret = "none"
  /\ expired = FALSE /\ settled = FALSE
  /\ lastSeen = Unseen

-----------------------------------------------------------------------------
(* The child, its descendants and the tty. Nothing obliges a child to do   *)
(* any of this; only a killed one has to die.                              *)

\* Anyone holding the slave may write, and blocks while the tty is full; and the
\* tty writes itself, what it echoes of the input. A tty whose master nobody was
\* left to read was hung up: it takes nothing.
HoldsSlave(g) == child[g] = "running" \/ holder[g]

TtyWrite(g) ==
  /\ HoldsSlave(g) /\ reader[g] # "absent"
  /\ produced[g] < MaxOut
  /\ produced[g] - taken[g] < TtyCap
  /\ produced' = [produced EXCEPT ![g] = @ + 1]
  /\ UNCHANGED <<childVars, unread, readerVars, recorder, ownVars, exit_code,
                 snapVars, pc, ret, timeVars>>

ReadInput(g) ==
  /\ HoldsSlave(g) /\ unread[g] > 0
  /\ unread' = [unread EXCEPT ![g] = @ - 1]
  /\ UNCHANGED <<childVars, produced, readerVars, recorder, ownVars,
                 exit_code, snapVars, pc, ret, timeVars>>

\* A descendant outlives the child when it ignores the hangup that the death
\* of a session leader sends.
Fork(g) ==
  /\ child[g] = "running" /\ ~holder[g]
  /\ holder' = [holder EXCEPT ![g] = TRUE]
  /\ UNCHANGED <<child, status, killed, unread, produced, readerVars, recorder,
                 ownVars, exit_code, snapVars, pc, ret, timeVars>>

DescendantExits(g) ==
  /\ holder[g]
  /\ holder' = [holder EXCEPT ![g] = FALSE]
  /\ UNCHANGED <<child, status, killed, unread, produced, readerVars, recorder,
                 ownVars, exit_code, snapVars, pc, ret, timeVars>>

\* try_wait loses the status of a child that somebody else reaped: NoCode.
ChildExits(g) ==
  /\ child[g] = "running"
  /\ child' = [child EXCEPT ![g] = "exited"]
  /\ \E c \in MaybeCode : status' = [status EXCEPT ![g] = c]
  /\ UNCHANGED <<holder, killed, unread, produced, readerVars, recorder,
                 ownVars, exit_code, snapVars, pc, ret, timeVars>>

-----------------------------------------------------------------------------
(* The reader thread: one read, then one lock after the other.             *)

readerFrame == <<envVars, recorder, ownVars, exit_code, snapVars, pc, ret, timeVars>>

\* A read returns some nonempty part of what the tty holds.
ReadChunk(g) ==
  /\ reader[g] = "read"
  /\ \E n \in (taken[g] + 1)..produced[g] : taken' = [taken EXCEPT ![g] = n]
  /\ reader' = [reader EXCEPT ![g] = "raw"]
  /\ UNCHANGED <<readerFrame, raw, screen, cast, textVars, spoiled>>

\* EIO: nobody holds the slave and the tty is empty.
ReadEnd(g) ==
  /\ reader[g] = "read"
  /\ ~HoldsSlave(g) /\ taken[g] = produced[g]
  /\ reader' = [reader EXCEPT ![g] = "done"]
  /\ UNCHANGED <<readerFrame, taken, raw, screen, cast, textVars, spoiled>>

\* Faulty: a try_lock in place of the lock, so the chunk may be dropped.
AppendRawTryLock(g) ==
  /\ reader[g] = "raw"
  /\ raw' \in {raw, [raw EXCEPT ![g] = taken[g]]}
  /\ rawText' \in {rawText, TRUE}
  /\ reader' = [reader EXCEPT ![g] = "screen"]
  /\ UNCHANGED <<readerFrame, taken, screen, cast, screenText, spoiled>>

AppendRaw(g) ==
  /\ reader[g] = "raw"
  /\ raw' = [raw EXCEPT ![g] = taken[g]]
  /\ rawText' \in {rawText, TRUE}
  /\ reader' = [reader EXCEPT ![g] = "screen"]
  /\ UNCHANGED <<readerFrame, taken, screen, cast, screenText, spoiled>>

FeedScreen(g) ==
  /\ reader[g] = "screen"
  /\ screen' = [screen EXCEPT ![g] = taken[g]]
  /\ screenText' \in BOOLEAN
  /\ reader' = [reader EXCEPT ![g] = "cast"]
  /\ UNCHANGED <<readerFrame, taken, raw, cast, rawText, spoiled>>

\* Faulty: recording goes on after finish().
RecordAlways(g) ==
  /\ reader[g] = "cast"
  /\ \/ cast' = [cast EXCEPT ![g] = taken[g]] /\ UNCHANGED spoiled
     \/ spoiled' = [spoiled EXCEPT ![g] = TRUE] /\ UNCHANGED cast
  /\ reader' = [reader EXCEPT ![g] = "read"]
  /\ UNCHANGED <<readerFrame, taken, raw, screen, textVars>>

\* record() writes nothing once finish() has taken the file, and nobody hears
\* of a line that could not be written, or of which a part was.
RecordOutput(g) ==
  /\ reader[g] = "cast"
  /\ \/ /\ recorder[g] = "open"
        /\ cast' = IF spoiled[g] THEN cast ELSE [cast EXCEPT ![g] = taken[g]]
        /\ UNCHANGED spoiled
     \/ /\ recorder[g] = "open"
        /\ spoiled' = [spoiled EXCEPT ![g] = TRUE]
        /\ UNCHANGED cast
     \/ recorder[g] # "open" /\ UNCHANGED <<cast, spoiled>>
  /\ reader' = [reader EXCEPT ![g] = "read"]
  /\ UNCHANGED <<readerFrame, taken, raw, screen, textVars>>

ReaderStep(g) ==
  ReadChunk(g) \/ ReadEnd(g) \/ AppendRaw(g) \/ FeedScreen(g) \/ RecordOutput(g)

-----------------------------------------------------------------------------
(* Pieces the calls share.                                                 *)

Alive == hasChild /\ child[gen] = "running"

\* Faulty: a child whose status is not known yet is taken to have succeeded.
CollectDefault ==
  exit_code' = IF hasChild /\ exit_code = NoCode
               THEN IF child[gen] = "exited" THEN status[gen]
                    ELSE CHOOSE c \in Codes : TRUE
               ELSE exit_code

\* is_alive(): collects the exit code the first time it sees the child gone.
CollectExit ==
  exit_code' = IF hasChild /\ child[gen] = "exited" /\ exit_code = NoCode
               THEN status[gen] ELSE exit_code

\* The call answers at once, without touching the snapshots.
Answer(a) ==
  /\ pc' = "ready" /\ ret' = a
  /\ lastSeen' = Unseen
  /\ UNCHANGED <<expired, settled>>

Now == [screen |-> screen, raw |-> raw]

\* The call succeeded: its locals are gone, the trait method refreshes both
\* snapshots and answers.
SyncWith(a, seen) ==
  /\ pc' = "sync_screen" /\ ret' = a
  /\ expired' = FALSE /\ settled' = FALSE /\ lastSeen' = seen
SyncAndAnswer(a) == SyncWith(a, Unseen)

Goto(step) == pc' = step /\ ret' = "none"
Continue(step) == Goto(step) /\ UNCHANGED timeVars

\* CastRecorder::finish(): the file is let go, for good.
Finished == [g \in Gens |-> IF recorder[g] = "open" THEN "finished" ELSE recorder[g]]

\* screen.contains(text) || raw.contains(text)
TextSeen == screenText \/ rawText
FoundAt == [screen |-> screen, raw |-> IF rawText THEN raw ELSE Nothing]

-----------------------------------------------------------------------------
(* Starting and driving the child.                                         *)

\* The recorder is created first. A new one replaces, so finishes, one that a
\* failed attempt left behind; without a new one the old one is used on.
NewAttempt ==
  /\ pc = "ready" /\ ~hasChild /\ gen < MaxSpawns
  /\ gen' = gen + 1
  /\ \E own \in {"none", "open"} :
       LET kept == \E g \in Gens : recorder[g] = "open"
       IN recorder' = [Finished EXCEPT ![gen + 1] = IF kept THEN "open" ELSE own]

Spawn ==
  /\ NewAttempt
  /\ child' = [child EXCEPT ![gen + 1] = "running"]
  /\ reader' = [reader EXCEPT ![gen + 1] = "read"]
  /\ hasChild' = TRUE /\ writer' = TRUE /\ handle' = TRUE
  /\ Answer("ok")
  /\ UNCHANGED <<status, holder, killed, unread, produced, taken, raw, screen,
                 cast, textVars, spoiled, detached, exit_code, snapVars>>

\* openpty or the exec fails, and no child exists; or cloning the reader or
\* taking the writer fails, and the child runs on although the session has it
\* not. The recorder stays.
SpawnFails ==
  /\ NewAttempt
  /\ child' \in {child, [child EXCEPT ![gen + 1] = "running"]}
  /\ Answer("err")
  /\ UNCHANGED <<status, holder, killed, unread, produced, readerVars, hasChild,
                 writer, handle, detached, exit_code, snapVars>>

\* send_text, send_line and press: there is no writer, or no such key; or the
\* write begins.
Send ==
  /\ pc = "ready"
  /\ \/ Answer("err")
     \/ writer /\ Continue("send_write")
  /\ UNCHANGED <<envVars, readerVars, recorder, ownVars, exit_code, snapVars>>

\* EOT, if there is a writer still.
SendEof ==
  /\ pc = "ready"
  /\ IF writer THEN Continue("eof_write") ELSE Answer("ok")
  /\ UNCHANGED <<envVars, readerVars, recorder, ownVars, exit_code, snapVars>>

\* write_all() blocks while the input is full, for as long as anyone holds the
\* slave; no deadline ends it.
Writable == unread[gen] < InCap
Writing == pc \in {"send_write", "send_rest", "eof_write"}
Stuck == Writing /\ ~Writable /\ HoldsSlave(gen)

TakeInput ==
  /\ Writable
  /\ unread' = [unread EXCEPT ![gen] = @ + 1]
  /\ UNCHANGED <<childVars, produced, reader, taken, raw, screen, cast,
                 textVars, recorder, gen, hasChild, handle, detached, exit_code, snapVars>>

\* What was written goes into the recording, unless its line is lost.
RecordInput ==
  \/ UNCHANGED spoiled
  \/ recorder[gen] = "open" /\ spoiled' = [spoiled EXCEPT ![gen] = TRUE]

\* What is sent may be more than one write takes.
SendPart ==
  /\ pc = "send_write"
  /\ TakeInput
  /\ Continue("send_rest")
  /\ UNCHANGED <<writer, spoiled>>

SendWrite ==
  /\ pc \in {"send_write", "send_rest"}
  /\ TakeInput /\ RecordInput
  /\ SyncAndAnswer("ok")
  /\ UNCHANGED writer

\* No further input after the EOT. Not a trait method: no snapshot.
EofWrite ==
  /\ pc = "eof_write"
  /\ TakeInput /\ RecordInput
  /\ writer' = FALSE
  /\ Answer("ok")

WriteFails ==
  /\ Writing /\ ~Stuck
  /\ Answer("err")
  /\ UNCHANGED <<envVars, readerVars, recorder, ownVars, exit_code, snapVars>>

ReadAvailable ==
  /\ pc = "ready"
  /\ SyncAndAnswer("ok")
  /\ UNCHANGED <<envVars, readerVars, recorder, ownVars, exit_code, snapVars>>

IsAlive ==
  /\ pc = "ready"
  /\ CollectExit
  /\ UNCHANGED <<envVars, readerVars, recorder, ownVars, snapVars, pc, ret,
                 timeVars>>

KillChild == killed' = IF Alive THEN [killed EXCEPT ![gen] = TRUE] ELSE killed

Terminate ==
  /\ pc = "ready"
  /\ KillChild
  /\ Answer("ok")
  /\ UNCHANGED <<child, status, holder, unread, produced, readerVars, recorder,
                 ownVars, exit_code, snapVars>>

-----------------------------------------------------------------------------
(* The waits. A poll sleeps, looks, and asks whether the child is alive;   *)
(* `expired` is the loop condition `Instant::now() < deadline` turned      *)
(* false.                                                                  *)

\* A zero timeout is a deadline already past: the loop body never runs.
BeginWait(step) ==
  /\ pc = "ready"
  /\ \/ ~hasChild /\ Answer("err")
     \/ /\ hasChild
        /\ Goto(step)
        /\ expired' \in BOOLEAN
        /\ settled' = FALSE
        /\ lastSeen' = IF step = "idle_poll" THEN Now ELSE Unseen
  /\ UNCHANGED <<envVars, readerVars, recorder, ownVars, exit_code, snapVars>>

BeginWaitForText == BeginWait("text_poll")
BeginWaitForIdle == BeginWait("idle_poll")
BeginWaitForExit == BeginWait("exit_poll")

DeadlinePasses ==
  /\ pc \in {"text_poll", "text_alive", "idle_poll", "idle_alive", "exit_poll",
             "close_wait", "close_join"}
  /\ ~expired
  /\ expired' = TRUE
  /\ UNCHANGED <<envVars, readerVars, recorder, ownVars, exit_code, snapVars,
                 pc, ret, settled, lastSeen>>

StableWindowPasses ==
  /\ pc \in {"idle_poll", "idle_alive"}
  /\ ~settled
  /\ settled' = TRUE
  /\ UNCHANGED <<envVars, readerVars, recorder, ownVars, exit_code, snapVars,
                 pc, ret, expired, lastSeen>>

callFrame == <<envVars, readerVars, recorder, ownVars, snapVars>>

\* Faulty: a wait that finds its text answers without the snapshot refresh.
TextPollNoSync ==
  /\ pc = "text_poll"
  /\ \/ expired /\ SyncAndAnswer("timeout")
     \/ ~expired /\ TextSeen /\ pc' = "ready" /\ ret' = "found"
        /\ expired' = FALSE /\ settled' = FALSE /\ lastSeen' = FoundAt
     \/ ~expired /\ ~TextSeen /\ Continue("text_alive")
  /\ UNCHANGED <<callFrame, exit_code>>

TextPoll ==
  /\ pc = "text_poll"
  /\ \/ expired /\ SyncAndAnswer("timeout")
     \/ ~expired /\ TextSeen /\ SyncWith("found", FoundAt)
     \/ ~expired /\ ~TextSeen /\ Continue("text_alive")
  /\ UNCHANGED <<callFrame, exit_code>>

TextAlive ==
  /\ pc = "text_alive"
  /\ CollectExit
  /\ Continue(IF Alive THEN "text_poll" ELSE "text_drain")
  /\ UNCHANGED callFrame

\* The child is gone: 20ms for the reader, then one last look.
TextDrain ==
  /\ pc = "text_drain"
  /\ IF TextSeen THEN SyncWith("found", FoundAt) ELSE SyncAndAnswer("gone")
  /\ UNCHANGED <<callFrame, exit_code>>

\* A screen that was redrawn may look as before; the log has grown then. (The
\* window that has to be stable is longer than nothing.)
IdlePoll ==
  /\ pc = "idle_poll"
  /\ \/ expired /\ SyncAndAnswer("timeout")
     \/ ~expired /\ settled /\ raw = lastSeen.raw /\ SyncAndAnswer("idle")
     \/ /\ ~expired /\ ~(settled /\ Now = lastSeen)
        /\ Goto("idle_alive")
        /\ lastSeen' = Now
        /\ settled' = FALSE
        /\ UNCHANGED expired
  /\ UNCHANGED <<callFrame, exit_code>>

IdleAlive ==
  /\ pc = "idle_alive"
  /\ CollectExit
  /\ IF Alive THEN Continue("idle_poll") ELSE SyncAndAnswer("idle")
  /\ UNCHANGED callFrame

\* Answers as soon as the child is gone, whatever the reader still holds; and
\* nothing else when it is not.
ExitPoll ==
  /\ pc = "exit_poll"
  /\ \/ expired /\ UNCHANGED exit_code
     \/ ~expired /\ ~Alive /\ CollectExit
  /\ SyncAndAnswer("ok")
  /\ UNCHANGED callFrame

-----------------------------------------------------------------------------
(* close(), which Drop runs as well: kill, wait for the child, wait for    *)
(* the reader, let go of everything. Each wait is capped by CLOSE_GRACE.   *)

BeginClose ==
  /\ pc = "ready"
  /\ Continue("close_kill")
  /\ UNCHANGED <<callFrame, exit_code>>

CloseKill ==
  /\ pc = "close_kill"
  /\ CollectExit
  /\ KillChild
  /\ Continue("close_wait")
  /\ UNCHANGED <<child, status, holder, unread, produced, readerVars, recorder,
                 ownVars, snapVars>>

CloseWait ==
  /\ pc = "close_wait"
  /\ ~Alive \/ expired
  /\ CollectExit
  /\ writer' = FALSE
  /\ expired' = FALSE
  /\ Goto("close_join")
  /\ UNCHANGED <<envVars, readerVars, recorder, gen, hasChild, handle, detached,
                 snapVars, settled, lastSeen>>

\* Faulty: joins the reader whatever holds it up.
CloseJoinBlocking ==
  /\ pc = "close_join"
  /\ handle => reader[gen] = "done"
  /\ handle' = FALSE
  /\ Continue("close_drop")
  /\ UNCHANGED <<envVars, readerVars, recorder, gen, hasChild, writer, detached,
                 exit_code, snapVars>>

\* Faulty: drops the handle without waiting for the reader.
CloseJoinSkipped ==
  /\ pc = "close_join"
  /\ handle' = FALSE
  /\ Continue("close_drop")
  /\ UNCHANGED <<envVars, readerVars, recorder, gen, hasChild, writer, detached,
                 exit_code, snapVars>>

CloseJoin ==
  /\ pc = "close_join"
  /\ handle => reader[gen] = "done" \/ expired
  /\ detached' = IF handle /\ reader[gen] # "done" THEN detached \cup {gen}
                 ELSE detached
  /\ handle' = FALSE
  /\ Continue("close_drop")
  /\ UNCHANGED <<envVars, readerVars, recorder, gen, hasChild, writer,
                 exit_code, snapVars>>

CloseDrop ==
  /\ pc = "close_drop"
  /\ hasChild' = FALSE
  /\ recorder' = Finished
  /\ SyncAndAnswer("closed")
  /\ UNCHANGED <<envVars, readerVars, gen, writer, handle, detached, exit_code,
                 snapVars>>

\* sync_snapshot(): the screen under its lock, then the raw log under its own.
SyncScreen ==
  /\ pc = "sync_screen"
  /\ screen_snapshot' = screen /\ screenTextSeen' = screenText
  /\ pc' = "sync_raw"
  /\ UNCHANGED <<envVars, readerVars, recorder, ownVars, exit_code, raw_snapshot,
                 rawTextSeen, ret, timeVars>>

SyncRaw ==
  /\ pc = "sync_raw"
  /\ raw_snapshot' = raw /\ rawTextSeen' = rawText
  /\ pc' = "ready"
  /\ UNCHANGED <<envVars, readerVars, recorder, ownVars, exit_code, screen_snapshot,
                 screenTextSeen, ret, timeVars>>

-----------------------------------------------------------------------------
Environment(g) ==
  \/ TtyWrite(g) \/ ReadInput(g) \/ Fork(g) \/ DescendantExits(g) \/ ChildExits(g)

CallStart ==
  \/ Spawn \/ SpawnFails \/ Send \/ SendEof \/ ReadAvailable \/ IsAlive \/ Terminate
  \/ BeginWaitForText \/ BeginWaitForIdle \/ BeginWaitForExit \/ BeginClose

CallStep ==
  \/ SendPart \/ SendWrite \/ EofWrite \/ WriteFails
  \/ TextPoll \/ TextAlive \/ TextDrain \/ IdlePoll \/ IdleAlive \/ ExitPoll
  \/ CloseKill \/ CloseWait \/ CloseJoin \/ CloseDrop \/ SyncScreen \/ SyncRaw

Next ==
  \/ \E g \in Gens : Environment(g) \/ ReaderStep(g)
  \/ DeadlinePasses \/ StableWindowPasses
  \/ CallStart
  \/ CallStep

(* Both threads are scheduled, time passes, and a killed child dies. No     *)
(* call has to be made, and no child has to read, write, fork or exit by    *)
(* itself.                                                                  *)
Fairness ==
  /\ WF_vars(CallStep)
  /\ WF_vars(DeadlinePasses)
  /\ \A g \in Gens : WF_vars(ReaderStep(g))
  /\ \A g \in Gens : WF_vars(killed[g] /\ ChildExits(g))

Spec == Init /\ [][Next]_vars
FairSpec == Spec /\ Fairness

-----------------------------------------------------------------------------
(* What the session promises.                                              *)

\* Every variable stays in its range.
TypeOK ==
  /\ child \in [Gens -> ChildStates]
  /\ status \in [Gens -> MaybeCode]
  /\ holder \in [Gens -> BOOLEAN]
  /\ killed \in [Gens -> BOOLEAN]
  /\ produced \in [Gens -> Count]
  /\ unread \in [Gens -> 0..InCap]
  /\ reader \in [Gens -> ReaderSteps]
  /\ taken \in [Gens -> Count]
  /\ raw \in [Gens -> Count]
  /\ screen \in [Gens -> Count]
  /\ cast \in [Gens -> Count]
  /\ rawText \in BOOLEAN /\ screenText \in BOOLEAN
  /\ recorder \in [Gens -> {"none", "open", "finished"}]
  /\ spoiled \in [Gens -> BOOLEAN]
  /\ gen \in 0..MaxSpawns
  /\ hasChild \in BOOLEAN /\ writer \in BOOLEAN /\ handle \in BOOLEAN
  /\ detached \in SUBSET Gens
  /\ exit_code \in MaybeCode
  /\ screen_snapshot \in [Gens -> Count]
  /\ raw_snapshot \in [Gens -> Count]
  /\ screenTextSeen \in BOOLEAN /\ rawTextSeen \in BOOLEAN
  /\ pc \in CallSteps /\ ret \in Answers
  /\ expired \in BOOLEAN /\ settled \in BOOLEAN
  /\ lastSeen \in [screen : [Gens -> Count], raw : [Gens -> Count]]

\* Whatever the screen a caller reads shows, the raw log it reads explains:
\* the two snapshots are taken one after the other while the reader runs, and
\* a screen that is ahead of the raw log would fail an assertion on one and
\* pass it on the other.
ScreenExplained ==
  pc # "sync_raw" => \A g \in Gens : screen_snapshot[g] <= raw_snapshot[g]

\* A wait_for_text that answered true leaves the text in the snapshots the
\* caller reads next: in the log, if it was found there; and if it was found on
\* the screen alone on either, unless the reader drew on that screen before the
\* snapshots were taken.
FoundIsReadable ==
  pc = "ready" /\ ret = "found" =>
    /\ lastSeen.raw # Nothing => rawTextSeen
    /\ \/ rawTextSeen \/ screenTextSeen
       \/ \E g \in Gens : lastSeen.screen[g] < screen_snapshot[g]

\* After a close that did not have to give the reader up, the snapshots hold
\* everything that came out of the tty, whoever wrote it and however late; and
\* so does the cast, unless a line of it could not be written.
EvidenceComplete ==
  /\ pc = "ready" /\ ret = "closed"
  /\ gen \in Gens \ detached /\ reader[gen] # "absent"
  => /\ raw_snapshot[gen] = produced[gen]
     /\ screen_snapshot[gen] = produced[gen]
     /\ detached = {} => rawTextSeen = rawText /\ screenTextSeen = screenText
     /\ recorder[gen] = "finished" /\ ~spoiled[gen] => cast[gen] = produced[gen]

\* No step adds to a cast that close() has finished, although a detached
\* reader is still running and still stores what it reads elsewhere.
CastFrozen ==
  [][\A g \in Gens : recorder[g] = "finished" =>
       recorder'[g] = "finished" /\ cast'[g] = cast[g]]_vars

\* No call blocks - not on a silent child, on a child that will not die, or on
\* a reader kept busy by a descendant that holds the tty - but for a write to a
\* tty whose input is full and held by somebody who never reads it.
CallsReturn == []<>(pc = "ready") \/ <>[]Stuck

\* The reader thread ends once nobody holds the slave: the session has kept no
\* slave handle of its own.
ReaderEnds ==
  \A g \in Gens :
    (reader[g] # "absent" /\ child[g] = "exited" /\ ~holder[g]) ~> reader[g] = "done"

-----------------------------------------------------------------------------
(* What the documents say and the code does not do.                        *)

\* specs/002-builtin-steps/spec.md FR-010: a session that dies is drained once
\* before the last look, so a text the child wrote is not answered false.
DrainedBeforeVerdict ==
  pc = "ready" /\ ret = "gone" =>
    \A g \in Gens : ~HoldsSlave(g) => raw_snapshot[g] = produced[g]

=============================================================================

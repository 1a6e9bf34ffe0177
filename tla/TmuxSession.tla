----------------------------- MODULE TmuxSession -----------------------------
(***************************************************************************)
(* The session of crates/termproof/src/terminal/tmux.rs: a program in a    *)
(* pane of a private tmux server, read by `capture-pane` into two cached   *)
(* texts. Every command is a process of its own (CommandRun); here it is   *)
(* its outcome, or it never returns. The pane's content is a number that   *)
(* grows as the program draws; what is on the screen at that time is a     *)
(* function of it.                                                         *)
(***************************************************************************)
EXTENDS Naturals

CONSTANTS
  MaxFrame,   \* bound on what the program draws
  Showing,    \* the frames in which the awaited text is on the screen
  Alike,      \* this many frames in a row differ only in the last two rows
  NoFrame     \* the cached text of a capture that failed

ASSUME TmuxAssumption ==
  /\ MaxFrame \in Nat /\ Alike \in Nat \ {0}
  /\ Showing \subseteq 0..MaxFrame /\ NoFrame \notin Nat

VARIABLES
  server,    \* "absent", "up", "wedged" (answers nothing for a time) or "gone"
  frame,     \* what the pane shows
  screen, raw,
  closed,
  pc,        \* the next step of the call, "ready" between calls
  call,      \* the call in progress or the last one
  after,     \* where to go on when the screen has been refreshed
  expired,   \* the deadline of the call has passed
  settled,   \* it is `stable` since the body last changed
  previous,  \* the body compared with
  answer,
  hung,      \* the command in progress waits for its pipes and does not return
  since,     \* history: the frame when the call was made
  looks,     \* history: the bodies seen since the body last changed
  killLost   \* history: kill-server has failed and left the server

cache == <<screen, raw>>
waiting == <<expired, settled, previous, looks>>
vars == <<server, frame, screen, raw, closed, pc, call, after, expired, settled,
          previous, answer, hung, since, looks, killLost>>

Frames == 0..MaxFrame
Cached == Frames \cup {NoFrame}
Contains(f) == f \in Showing
Body(f) == IF f = NoFrame THEN NoFrame ELSE f \div Alike   \* settled_body

Init ==
  /\ server = "absent" /\ frame = 0
  /\ screen = NoFrame /\ raw = NoFrame /\ closed = FALSE
  /\ pc = "create" /\ call = "create" /\ after = "return"
  /\ expired = FALSE /\ settled = FALSE /\ previous = NoFrame
  /\ answer = "none" /\ hung = FALSE /\ since = 0 /\ looks = {} /\ killLost = FALSE

Goto(p) == pc' = p
Return(value) == pc' = "ready" /\ answer' = value

-----------------------------------------------------------------------------
(* One tmux command. Its process may fail to start. A server that does not *)
(* answer in time is sent kill-server, which it may not answer either.     *)

Reaches == server = "up"
Misses == UNCHANGED server      \* exited with an error, or never started
TimesOut ==
  /\ server = "wedged"
  /\ server' \in {"wedged", "gone"}

Fails == Misses \/ TimesOut

\* A command that was killed at its deadline still waits for the threads that read its
\* pipes, and they for whoever else holds them: a server it has started itself, or what
\* it left behind when it did not get an answer.
CommandHangs ==
  /\ pc \in {"create", "screen", "raw", "keys", "alive", "poll", "kill"} /\ ~hung
  /\ \/ pc = "create" /\ server' \in {"absent", "wedged"}
     \/ pc # "create" /\ server = "wedged" /\ UNCHANGED server
  /\ hung' = TRUE
  /\ UNCHANGED <<frame, cache, closed, pc, call, after, waiting, answer, since, killLost>>

-----------------------------------------------------------------------------
(* create_session.                                                         *)

\* No argv, or no directory or launch script: no session comes to be.
Refuse ==
  /\ pc = "create"
  /\ Goto("dropped") /\ answer' = "error"
  /\ UNCHANGED <<server, frame, cache, closed, call, after, waiting,
                 since, hung, killLost>>

NewSession ==
  /\ pc = "create"
  /\ \/ server' = "up" /\ Goto("screen") /\ after' = "return"
     \/ server' \in {"absent", "wedged", "gone", "up"} /\ Goto("drop") /\ UNCHANGED after
  /\ UNCHANGED <<frame, cache, closed, call, waiting, answer, since, hung, killLost>>

-----------------------------------------------------------------------------
(* refresh: two captures, the first without and the second with escapes.   *)

\* Faulty: a capture that fails leaves the old text.
CaptureScreenOrKeep ==
  /\ pc = "screen"
  /\ \/ Reaches /\ screen' = frame /\ UNCHANGED server
     \/ Fails /\ UNCHANGED screen
  /\ Goto("raw")
  /\ UNCHANGED <<frame, raw, closed, call, after, waiting, answer, since, hung, killLost>>

CaptureScreen ==
  /\ pc = "screen"
  /\ \/ Reaches /\ screen' = frame /\ UNCHANGED server
     \/ Fails /\ screen' = NoFrame
  /\ Goto("raw")
  /\ UNCHANGED <<frame, raw, closed, call, after, waiting, answer, since, hung, killLost>>

CaptureRaw ==
  /\ pc = "raw"
  /\ \/ Reaches /\ raw' = frame /\ UNCHANGED server
     \/ Fails /\ raw' = NoFrame
  /\ Goto(after)
  /\ UNCHANGED <<frame, screen, closed, call, after, waiting, answer,
                 since, hung, killLost>>

\* Calls that end with the refresh: the value is screen_attributed's grid, built of `raw`.
RefreshReturns ==
  /\ pc = "return"
  /\ Return("ok")
  /\ UNCHANGED <<server, frame, cache, closed, call, after, waiting,
                 since, hung, killLost>>

-----------------------------------------------------------------------------
(* The calls of the Session trait.                                         *)

Begin(name, first, cont) ==
  /\ pc = "ready"
  /\ call' = name /\ pc' = first /\ after' = cont
  /\ expired' = FALSE /\ settled' = FALSE /\ previous' = NoFrame /\ looks' = {}
  /\ since' = frame /\ answer' = "none"
  /\ UNCHANGED <<server, frame, cache, closed, hung, killLost>>

\* send_line is send_text and press("enter").
SendText == Begin("send_text", "keys", "return")
SendLine == Begin("send_line", "keys", "enter")
Press == Begin("press", "keys", "return")
WaitForText == Begin("wait_for_text", "screen", "text")
WaitForIdle == Begin("wait_for_idle", "screen", "first")
WaitForExit == Begin("wait_for_exit", "poll", "return")
ReadAvailable == Begin("read_available", "screen", "return")
ScreenAttributed == Begin("screen_attributed", "screen", "return")
IsAlive == Begin("is_alive", "alive", "return")
Close == Begin("close", IF closed THEN "return" ELSE "screen", IF closed THEN "return" ELSE "kill")

BeginCall ==
  \/ SendText \/ SendLine \/ Press \/ WaitForText \/ WaitForIdle \/ WaitForExit
  \/ ReadAvailable \/ ScreenAttributed \/ IsAlive \/ Close

UnknownKey ==
  /\ pc = "keys" /\ call = "press"
  /\ Return("error")
  /\ UNCHANGED <<server, frame, cache, closed, call, after, waiting,
                 since, hung, killLost>>

SendKeys ==
  /\ pc = "keys"
  /\ \/ Reaches /\ UNCHANGED server /\ Goto("screen") /\ UNCHANGED answer
     \/ Fails /\ Return("error")
  /\ UNCHANGED <<frame, cache, closed, call, after, waiting, since, hung, killLost>>

PressEnter ==
  /\ pc = "enter"
  /\ Goto("keys") /\ after' = "return"
  /\ UNCHANGED <<server, frame, cache, closed, call, waiting, answer,
                 since, hung, killLost>>

\* Faulty: looks at the deadline only when the server could not be reached.
LookForTextOnly ==
  /\ pc = "text"
  /\ \/ (Contains(screen) \/ Contains(raw)) /\ Return("true")
     \/ screen = NoFrame /\ raw = NoFrame /\ expired /\ Return("false")
     \/ ~Contains(screen) /\ ~Contains(raw) /\ Goto("screen") /\ UNCHANGED answer
  /\ UNCHANGED <<server, frame, cache, closed, call, after, waiting,
                 since, hung, killLost>>

LookForText ==
  /\ pc = "text"
  /\ \/ (Contains(screen) \/ Contains(raw)) /\ Return("true")
     \/ ~Contains(screen) /\ ~Contains(raw) /\ expired /\ Return("false")
     \/ ~Contains(screen) /\ ~Contains(raw) /\ ~expired /\ Goto("screen") /\ UNCHANGED answer
  /\ UNCHANGED <<server, frame, cache, closed, call, after, waiting,
                 since, hung, killLost>>

FirstBody ==
  /\ pc = "first"
  /\ previous' = Body(screen) /\ looks' = {Body(screen)} /\ settled' = FALSE
  /\ Goto("idle")
  /\ UNCHANGED <<server, frame, cache, closed, call, after, expired, answer,
                 since, hung, killLost>>

LookIdle ==
  /\ pc = "idle"
  /\ \/ settled /\ Return("true") /\ UNCHANGED after
     \/ ~settled /\ expired /\ Return("false") /\ UNCHANGED after
     \/ ~settled /\ ~expired /\ Goto("screen") /\ after' = "compare" /\ UNCHANGED answer
  /\ UNCHANGED <<server, frame, cache, closed, call, waiting, since, hung, killLost>>

\* Faulty: does not start the time anew when the body has changed.
CompareOnly ==
  /\ pc = "compare"
  /\ previous' = Body(screen)
  /\ looks' = looks \cup {Body(screen)}
  /\ Goto("idle")
  /\ UNCHANGED <<server, frame, cache, closed, call, after, expired, settled, answer,
                 since, hung, killLost>>

Compare ==
  /\ pc = "compare"
  /\ IF Body(screen) # previous
       THEN previous' = Body(screen) /\ looks' = {Body(screen)} /\ settled' = FALSE
       ELSE looks' = looks \cup {Body(screen)} /\ UNCHANGED <<previous, settled>>
  /\ Goto("idle")
  /\ UNCHANGED <<server, frame, cache, closed, call, after, expired, answer,
                 since, hung, killLost>>

\* is_alive: any failure of has-session counts as a program that has ended.
LookAlive ==
  /\ pc = "alive"
  /\ \/ closed /\ Return("false") /\ UNCHANGED server
     \/ ~closed /\ Reaches /\ Return("true") /\ UNCHANGED server
     \/ ~closed /\ Fails /\ Return("false")
  /\ UNCHANGED <<frame, cache, closed, call, after, waiting, since, hung, killLost>>

\* exit_code is never set, so None is all that wait_for_exit ever answers.
PollExit ==
  /\ pc = "poll"
  /\ \/ expired /\ Return("none") /\ UNCHANGED server
     \/ ~expired /\ closed /\ Return("none") /\ UNCHANGED server
     \/ ~expired /\ ~closed /\ Reaches /\ UNCHANGED <<server, pc, answer>>
     \/ ~expired /\ ~closed /\ Fails /\ Return("none")
  /\ UNCHANGED <<frame, cache, closed, call, after, waiting, since, hung, killLost>>

KillServer ==
  /\ pc = "kill"
  /\ \/ Reaches /\ server' = "gone" /\ killLost' = FALSE
     \/ Fails /\ killLost' = (server' \in {"up", "wedged"})
  /\ closed' = TRUE
  /\ Goto(IF call = "drop" THEN "dropped" ELSE "return")
  /\ UNCHANGED <<frame, cache, call, after, waiting, answer, since, hung>>

\* The owner lets go of the session, or create_session does.
Drop ==
  /\ pc \in {"ready", "drop"}
  /\ call' = "drop"
  /\ IF closed THEN Goto("dropped") /\ UNCHANGED after
               ELSE Goto("screen") /\ after' = "kill"
  /\ UNCHANGED <<server, frame, cache, closed, waiting, answer, since, hung, killLost>>

CallStep ==
  /\ ~hung
  /\ \/ NewSession \/ CaptureScreen \/ CaptureRaw \/ RefreshReturns \/ SendKeys
     \/ PressEnter \/ LookForText \/ FirstBody \/ LookIdle \/ Compare \/ LookAlive
     \/ PollExit \/ KillServer \/ (pc = "drop" /\ Drop)

-----------------------------------------------------------------------------
(* Time and the server.                                                    *)

InWait == call \in {"wait_for_text", "wait_for_idle", "wait_for_exit"} /\ pc # "ready"

DeadlinePasses ==
  /\ InWait /\ ~expired
  /\ expired' = TRUE
  /\ UNCHANGED <<server, frame, cache, closed, pc, call, after, settled, previous, answer,
                 since, looks, hung, killLost>>

StablePasses ==
  /\ InWait /\ call = "wait_for_idle" /\ looks # {} /\ ~settled
  /\ settled' = TRUE
  /\ UNCHANGED <<server, frame, cache, closed, pc, call, after, expired, previous, answer,
                 since, looks, hung, killLost>>

Draw ==
  /\ server \in {"up", "wedged"} /\ frame < MaxFrame
  /\ frame' = frame + 1
  /\ UNCHANGED <<server, cache, closed, pc, call, after, waiting, answer,
                 since, hung, killLost>>

\* With the program its session ends, and with its only session the server.
ServerChanges ==
  /\ \/ server = "up" /\ server' \in {"gone", "wedged"}
     \/ server = "wedged" /\ server' = "up"
  /\ UNCHANGED <<frame, cache, closed, pc, call, after, waiting, answer,
                 since, hung, killLost>>

Next ==
  \/ CallStep \/ CommandHangs \/ BeginCall \/ Drop
  \/ ~hung /\ (Refuse \/ UnknownKey)
  \/ DeadlinePasses \/ StablePasses \/ Draw \/ ServerChanges

Spec == Init /\ [][Next]_vars

\* Threads are scheduled, a command that does not hang ends by its own timeout
\* (CommandRun), and deadlines pass.
FairSpec == Spec /\ WF_vars(CallStep) /\ WF_vars(DeadlinePasses)

-----------------------------------------------------------------------------
TypeOK ==
  /\ server \in {"absent", "up", "wedged", "gone"} /\ frame \in Frames
  /\ screen \in Cached /\ raw \in Cached /\ closed \in BOOLEAN
  /\ pc \in {"create", "screen", "raw", "return", "keys", "enter", "text", "first", "idle",
             "compare", "alive", "poll", "kill", "drop", "ready", "dropped"}
  /\ after \in {"return", "enter", "text", "first", "compare", "kill"}
  /\ expired \in BOOLEAN /\ settled \in BOOLEAN
  /\ previous \in {Body(f) : f \in Cached} /\ looks \subseteq {Body(f) : f \in Cached}
  /\ answer \in {"none", "ok", "true", "false", "error"}
  /\ hung \in BOOLEAN /\ since \in Frames /\ killLost \in BOOLEAN

Refreshing == {"create", "send_text", "send_line", "press", "wait_for_text", "wait_for_idle",
               "read_available", "screen_attributed"}

\* What the cache holds when a call has returned without an error was on the pane after
\* that call was made - never something older - and the text is not newer than the
\* escapes; or the capture failed and the cache says nothing.
CacheIsCurrent ==
  pc = "ready" /\ call \in Refreshing /\ answer # "error" =>
    /\ screen = NoFrame \/ screen >= since
    /\ raw = NoFrame \/ raw >= since
    /\ screen = NoFrame \/ raw = NoFrame \/ screen <= raw

\* A wait that answers true: the text is in what the caller reads now; all looks of the
\* stable time found the same body, and it is the one on the screen.
AnswersHold ==
  pc = "ready" /\ answer = "true" =>
    /\ call = "wait_for_text" => Contains(screen) \/ Contains(raw)
    /\ call = "wait_for_idle" => looks = {Body(screen)}

\* A session that was let go of, however far it had come and although it was closed
\* before, has left no server; or kill-server has failed, which close() takes for done and
\* nothing tries again, and that is the only way in which a server is left.
NoServerLeft == pc = "dropped" => server \in {"absent", "gone"} \/ killLost

\* Every call returns, whatever program and server do, unless a command of it does not.
CallsReturn == pc # "ready" ~> pc \in {"ready", "dropped"} \/ hung

=============================================================================

# Verification of termproof

TLA+ models of termproof, the TLC configurations that check them on small
instances, and proofs, checked by the TLA+ proof system, of what holds for
every value of the constants. Paths are relative to `src/crates/` unless they
say otherwise; `PROJECT.json` gives the lines each definition translates.

    tlc -config MCPty.cfg MCPty        # a run
    tlapm ScriptedRunProofs.tla        # a proof module

## 1. The system

termproof runs recipes - scripted interactions with a terminal program -
judges what the program printed, and keeps evidence of it.

| component | state it keeps | operations | what must hold |
|---|---|---|---|
| pty session (`termproof/src/terminal/pty.rs`, `cast.rs`) | child, reader thread, raw log, screen, cast recorder, snapshots, exit code | `spawn`, `write*`, `send_eof`, three waits, `is_alive`, `terminate`, `close`, Drop | snapshots are consistent and, after a close, complete; no call blocks but for input nobody reads; the replay of a cast shows the screen |
| process session (`terminal/process.rs`) | child, stdin, two reader threads, own and combined buffers, exit code | `spawn`, `write`, `send_eof`, `wait*`, `kill_tree`, `close`, Drop | a wait answers with all output and the child's true code; a pipe is never left full |
| bounded command (`terminal/proc.rs`, `run_tool`) | a child, two drain threads | `run_with_timeout`, `run_capturing_timeout` | an answer is of a dead tool, complete, and says truly whether it was killed |
| tmux session (`terminal/tmux.rs`) | a private server, two cached captures | the Session trait, Drop | a cache is of now or empty; waits answer for what is read; no server is left that could be reached |
| session driver (`terminal/driver.rs`) | a session, a count of calls, the first failure | driving calls, reads, `expect*`, `clear_failure`, `finish`, `into_inner` | a failing call stops the script, is reported by its ordinal, and nothing hides it |
| scripted run (`execution.rs`, `steps.rs`, `runner.rs`) | the step results, the judged snapshot | one recipe from spawn to close | a pass is true of the child; verdict, steps and recording agree; the run ends |
| assertions (`assertions.rs`) | none | `evaluate` | only a well-formed assertion passes |
| screen (`terminal/attributed.rs`, `screen.rs`, `keys.rs`) | cells and attributes | text or vt100 screen to a grid, grid to SVG | every glyph in its place and colour |
| evidence (`evidence/*.rs`) | steps, dedup table, upload outcomes, files | capture, publish, render, upload with fallback, video | no link to a missing image; grid, text and log in step; a fallback leaves a trace |
| plugin protocol (`termproof-plugin-protocol/src/*.rs`) | two pipes of JSON lines, ids, the plugin process, a Python script | `handshake`, `call`, `require_capability`, `shutdown`, Drop; `run_plugin`; the bridge | answers belong to requests; versions agree; calls and plugins end; no answer without a plugin |
| planner, command line (`planner.rs`, `selection.rs`, `termproof-cli/src/*.rs`) | the plan, worker threads, files in a directory | select, plan, run chunks in parallel, collect, exit code; `init` and the others | results in plan order, none lost or doubled; the exit code is the batch's |
| store, cache, baselines (`store.rs`, `cache.rs`, `evidence/diff.rs`) | run directories, `latest` report, cached verdicts, baselines | new directory, atomic writes, load, store, diff | a report belongs to a result that is there; a reused verdict was earned |
| recipes, configuration (`recipe.rs`, `validation.rs`, `models.rs`, `config.rs`) | none that outlives a call | validate, load, merge layers | the readers of one document agree; a later layer wins |
| agent, comparisons (`agent.rs`, `before_after.rs`, `parity.rs`) | none | prompt, parse, compare | a check passes only if the agent said so; two comparisons agree |
| Python compatibility (`pyrepr.rs`, `pyschema.rs`, `pypath.rs`, `pyregex.rs`) | none | render values, paths and patterns as Python does | strings equal Python's |

How they interact: `runner.rs` selects a mode; `execution.rs` spawns a pty
session and gives it to the steps of `steps.rs`, which call the Session trait
and read its snapshots; the session's own reader thread feeds the raw log, the
screen and the cast behind three locks while this goes on; the run judges,
closes, and only then writes. The driver wraps any session for tests. The
evidence collector captures any session and publishes later. The planner runs
recipes on threads that share the store and nothing else. The plugin client
owns a child process and talks to it over stdin and stdout; the Python bridge
is such a child. Selection, comparisons, cache and visual diffs are library
functions that no command of the repository calls yet.

What is hard here is time: a reader thread that is always a little behind; a
child that dies between two looks; descendants that keep the tty or a pipe open
after the child is gone; closes that must end although neither of them does;
deadlines compared only at certain points. And what is found again: files
written in an order, by tools that fail half-way; a server that outlives its
client; verdicts and images that are used a second time. There is no lossy
network and no recovery from a log: those kinds of hazard are absent.
`PROJECT.json` lists the hazards at their lines.

## 2. The modules

| module | models |
|---|---|
| `PtySession` | `pty.rs`, with the life of the recorder of `cast.rs`: caller, reader thread, child, descendant, clock |
| `CastRecord` | the lines of a cast and its replay, for characters that two reads split and lines that fail |
| `DeferredFailure` | abstract: what `driver.rs` documents, answered from the full record of the script |
| `SessionDriver` | `driver.rs`: one counter, one `Option<Failure>`; refines `DeferredFailure` |
| `ScriptedRun` | extends `PtySession` with `ScriptedPtyMode::execute`, the built-in steps and the verdict |
| `ScriptedRunProofs` | the session's type invariant, the reader's pipeline, the evidence properties and what becomes of each child; every run is a behaviour of the session; a pass is earned, what was found is judged and recorded, no child is left, proved |
| `StepArguments` | what the steps make of their arguments, on the in-memory session of `inmemory.rs` |
| `Assertions` | `assertions.rs`: every kind, with keys missing or of any type |
| `ChildPipes` | a child with piped stdout and stderr and the processes that inherit them |
| `ProcessSession` | `process.rs` over `ChildPipes`: caller, two readers, clock |
| `CommandRun` | `proc.rs` and `run_tool` over `ChildPipes`: caller, two drain threads |
| `ChildPipesProofs` | the truth of the session's codes and results and of the command's answers, proved |
| `TmuxSession` | `tmux.rs`: the calls, a server that may refuse, hang or vanish |
| `TmuxSessionProofs` | its caches, its answers and its server, proved |
| `PluginHost` | `run_plugin`, and what a handler may do meanwhile (external) |
| `PluginClient` | `client.rs` over `PluginHost` |
| `PluginClientProofs` | answers, versions and calls that stay in step, proved |
| `PythonBridge` | `python_bridge.rs`: the Rust side and the embedded script |
| `OrderedMap` | abstract: what `run_parallel` documents, answers to all items in their order |
| `Planner` | `planner.rs`: plan, chunks, threads, joins, a panic; refines `OrderedMap` |
| `Store` | the run directories, atomic writes and result files of `store.rs` |
| `Batch` | `run.rs` (`execute`) and `Runner::run` over `Planner` and `Store` |
| `BatchProofs` | the chunks, the ordered map and what the disk bears out, proved |
| `Selection` | `selection.rs`: which recipes a list of changed paths asks for |
| `CommandLine` | `cli.rs` and `main.rs`: what is accepted, `init` and the other commands |
| `AnsiGrid` | the text constructors, SGR and SVG layout of `attributed.rs` |
| `FallbackUploader` | the chain of stores of `uploader.rs` |
| `Evidence` | `collector.rs` and `dedup.rs` over `FallbackUploader` and a session that goes on |
| `CastVideo` | `cast_video.rs`: playback time, frames, drawing and encoding |
| `Artifacts` | how one image or video comes to its path: `render.rs`, `screenshot.rs`, `video.rs` |
| `Reuse` | `cache.rs` and `diff.rs`: a verdict found again |
| `RecipeFile` | the three readers of a recipe: `validation.rs`, `recipe.rs`, `runner.rs` |
| `Layers` | the merge of configuration files in `config.rs` |
| `Comparison` | `before_after.rs` and `parity.rs` over the same two runs |
| `AgentOutput` | `agent.rs`: the prompt's cut, the search for an object, the checks |
| `SequentialProofs` | nine properties of eight components that one caller works through, proved |
| `DataProofs` | the driver's refinement, and six properties of what is computed from data of any length, proved |
| `GridProofs` | what `AnsiGrid` shows of a text of any length, proved |
| `MC*` | one per run family; the constants are in the configurations |

Definitions whose comment begins with "Faulty:" are plausible bugs of the
definition they stand in front of. No specification uses them: each is named in
`PROJECT.json` with the property that is violated when it takes that place,
which shows that the property does depend on it.

### PtySession

A value of the session is spawned up to `MaxSpawns` times; every attempt is a
*generation* with its own child, tty, reader and recorder, while raw log and
screen are shared, as their Arcs are. Output is its position in the tty's
stream: `produced[g]` has been written, the reader has taken `taken[g]`
from the master and stored `raw[g]`, `screen[g]`, `cast[g]` - three locks, so
three steps, in the code's order. The snapshots are taken by `sync_snapshot` in
two steps, screen first. A call is a `Begin...` action and steps at each point
where the code looks at something another thread may change; `expired` is its
deadline.

The text that a wait looks for is not a position. Each chunk that is stored may
complete it in the log, which only grows (`rawText`), and may put it on the
screen or take it off (`screenText`): with escapes in between, a text can be on
the one and never in the other. `TextSeen` is the disjunction of the two that
`wait_for_text` takes, and `FoundAt` remembers of an answer what was drawn and,
if the text was in the log, what was logged, so that a later snapshot can be
compared with it.

A send is a blocking `write_all`: it goes on as long as the tty's input
(`unread`, at most `InCap`) has room, perhaps in parts, and is `Stuck` while it
has none and whoever holds the tty reads nothing. What a tty echoes is output
like any other (`TtyWrite`). Nobody hears of a line of the cast that cannot be
written: `spoiled` remembers it.

`SpawnFails` has both kinds of failure: before there is a child, and after the
fork, in cloning the reader or taking the writer. The second leaves a child that
no session has; nobody kills it, and its tty is hung up.

`close()` is the four waits and releases it is in the code: kill, wait for the
child up to `CLOSE_GRACE`, wait for the reader up to `CLOSE_GRACE` and detach
it, drop the child and finish the recorder, take the snapshot. Drop is a
`close()`.

Left out: `resize`, `set_echo` and the dimensions; the activity clock; the key
table of `press`; the launch directory. A `spawn` on a running session, which
answers Ok and changes nothing, is not an action. The stable window of
`wait_for_idle` is taken as positive, and its first look is one step.

`CastRecord` takes up what positions abstract from: chunks of bytes, each
decoded by itself for the cast and all of them in one for the screen, input
events, and `replay_cast`. The write of a line ends in one of four `Fates`: whole,
without its end of line, cut, or nothing of it; a line that is no JSON ends the
replay (`Broken`). A character that two reads split is replayed as two
replacement characters, and a chunk that was not written not at all;
`ReplayShowsScreen` says that nothing else differs.

### SessionDriver and DeferredFailure

`SessionDriver` drives a session that may refuse any call, so its properties
hold over every backend. `seen` and `scenario` are history: the calls the session
was given, and every call with its result. `DeferredFailure` keeps the script
alone and answers each question from it: the first failure since the last
clearing, at its position in the whole script. `ImplementsDeferredFailure` is
the refinement, under which an expectation's own failure is the caller's.

### ScriptedRun, StepArguments and Assertions

`RunInit` chooses the code the recipe expects, the actions choose its steps; every interleaving with the session's environment and reader is kept,
the run's own steps using the session's `Begin...` actions and waiting for their
answers. `wait_for_regex` has its own polling loop in `steps.rs` and so its own
steps and deadline here. The run stops at the first failed step, waits for exit
or idle and ignores the answer, judges the snapshot it has, closes, delivers.
Left out: the wording of details, and `ScriptedProcessMode`, which has the same
body and which no recipe selects. A verdict is of the steps, the implicit exit
code and one of `Kinds`: no assertion, `output_contains` or `screen_contains` of
the text the waits look for. All are looked at in each run that is done. `spoke`
is history: something was written to the tty that was not the echo of what a step
has sent (`Speaks`).

`StepArguments` gives the steps arguments of any type and class - missing, null,
a list, NaN, infinities, a century, more than a `Duration` holds - on a session
that repeats what it is sent, so that time plays no part. A sleep of a century
and a wait for a regex with a deadline past reach never end: these answer
"never".

`Assertions` evaluates what an author may write, with all keys missing or of any
type. A text is the set of the texts it contains, and a value carries both what
Python would call it and the integers it equals, as `True` equals 1.

### ChildPipes, ProcessSession and CommandRun

`ChildPipes` is external: what the kernel does with two pipes, a child and the
descendants that hold copies of their ends. `ProcessSession` adds the reader
threads, each of which stores a chunk first in its own and then in the combined
buffer, under two locks, and the five places that
collect the exit code: all know the signals except the last `try_wait` of
`reap_if_needed`, whose second and third look are one step (`ReapAgain`). A
killed child dies at some time, not at once, so `reap_if_needed` may miss it.
`ChildReads` and `BeginWrite`/`Write` model a stdin that can be full. Left out:
the child's directory and environment; write's four spellings are one.

`CommandRun` is the other owner of such a child: it polls, kills at the
deadline, waits, joins both drain threads and only then judges. The joins have
no limit, so `CommandReturns` has descendants that let go as its premise. The
second attempt is the one `run_tool` makes in `/usr/local/bin`. One run checks
both owners (`MCProcess`), each over its own behaviours.

### TmuxSession

The pane's content is a number that grows as the program draws. A tmux command
is a process with an outcome: it reaches the server, fails, or times out, and
then `kill-server` may reach it or not. `refresh` is two captures, and a program
may draw between them. `since`, `looks` and `killLost` are history: the frame at
the call, the bodies seen since the last change, a last kill that was lost.
A command may hang (`CommandHangs`): after its deadline `run_with_timeout` joins
the threads that read its pipes, without a limit, and the server it has itself
started may hold them. Left out: dimensions, the launch script's text, the
environment.

### PluginHost, PluginClient and PythonBridge

The two pipes are sequences of messages; a message is its type, id and version.
The plugin is `run_plugin` line by line; its handler may answer with a result or
an error, return something too large, log to stderr, print to stdout, hang or
die. The client makes its calls in any order, handshake or not. The timeout is
compared where the code compares it: after a line has been read, which is then
gone. `Drop` and `shutdown` kill without waiting. Left out: the text of the
JSON, `EchoHandler`, a descendant of the plugin that keeps its pipes, a `call`
with the message type "shutdown", and limits of stdin and stdout pipes. An
unparsable line cannot reach the plugin's loop, so the answer with id 0 is never
given.

`PythonBridge` is one bridge from the file of its script to its Drop, and the
script: import, hello, ready, answers. A plugin that cannot be imported still
says hello, offering nothing, and the handshake takes it; `BridgeFailsClosed`
says that no call is then answered with a result. One exchange is one step: what
may happen inside it is `PluginClient`'s subject. A script of the caller's own
is taken to be a copy of the embedded one.

### Planner, Store, Batch, Selection and CommandLine

`Planner` has the plan, what `f` answered at each place, the threads that
panicked and how many have been joined; a thread is its chunk, the first
unanswered place of which is its turn. `max_workers <= 1` is one chunk, which is
what the loop on the caller's own thread amounts to. `Store` is the files that
exist and the places in the plan they were written for; a rename is one step, and
the second try of `atomic_write` may leave the old file removed. `Batch` gives the
threads `Runner::run`: a directory is named, and the run is refused, returns with
a verdict and the artifacts it could save, or panics. What happens in between is
`ScriptedRun`'s subject. Then the caller alone writes results, reports, the
latest report and JUnit, and answers with a code. Filters and recipes are sets;
report texts and the command's messages are left out. Being killed is
no action: what it leaves is the state before, and the invariants are about every
state.

`Selection` separates a changed file's place from its spelling - with dots, with
a checkout in front, with backslashes - and translates the normalisation, so
that `SelectionIsOfPlaces` can be stated of the place. The globs are external.
`CommandLine` has the options of every command, the two stages of refusal, and
`init`, whose command line goes through `shell_words`. It looks for the recipe
(`HandleInit`) and writes it later (`CreateRecipe`); somebody else may write or
remove it between two commands and between these two. The words are written by
Debug: a quote or a backslash as JSON has it, a control character in a form that
no reader of JSON takes (`Garbled`).

### AnsiGrid

One line is laid out one character or one escape sequence at a time, as
`push_char` and `consume_ansi_sequence` do, with the SGR state going on from line
to line. A text is made of *pieces*, each of which knows the attributes that
ECMA-48 gives it, so the attributes a grid ends up with can be compared with
those its text asked for. Of the letters a few stand for their kinds. Numbers
are parsed from their digits, as an SGR parameter of `u16`. `ApplySgr` reads the
parameters one after the other and skips those that belong to a colour it has
read; `Latest` and `Meant`, in which the property is stated, know nothing of
parameters.

### FallbackUploader, Evidence, CastVideo and Artifacts

`Evidence` captures checkpoints and failures of a session whose program goes on
drawing. The session is a pty, whose reader stores first the log and then the
screen (`logged`, `emulated`) and whose grid is live while its log is the
snapshot of the last call; a tmux pane, which every capture captures anew; or one
without a grid. It then publishes: text, raw log, dedup check, image, upload,
step by step, and the manifest last. A render may fail and leave a damaged file; a
publish may end in an error at any write, be tried again, and lose the file it
could not replace (`RemoveTarget`, `lost`). `Look` is what a render
shows of a frame, and `Text` forgets part of that, as a highlight changes the
picture and not the text. The upload tries the stores of `FallbackUploader` in
order, each with a URL, a message or silence.

`CastVideo` counts time in ticks; event times come in any order. `Artifacts` is
the way one file is written: a temporary file and a rename, with its second try,
by `render.rs`; the tool itself by `screenshot.rs` and `video.rs` (`ToolWrites`).
The process may be killed at any step, before a rename or after it, and a tool
goes on after that.

### Reuse, RecipeFile, Layers, Comparison and AgentOutput

`Reuse` is one sequence of verifications with runs, cache hits, visual diffs,
edits and cleaned directories between them. Recipes may share a sanitized name. A
cache key is what the code gives to SHA-256: the texts of paths, files and options,
one after another, so that two may be the same although they are cut
differently; a missing file is the text `<missing>` and an unreadable one is empty
(`Fed`). That SHA-256 itself does not collide is assumed.

`RecipeFile` gives one field, and a second one, values of any kind and sends the
document through the three readers the repository has, of which the typed one
reads what is no JSON for it a second time as YAML, where any scalar is a text
(`YamlAccepts`). `Layers` merges values that are leaves or maps; the result must
have the types of the fields, and a typed section gets its defaults for what is
not there, an idle cap of null included (`Deserialized`).

`Comparison` gives both comparisons the same two runs. `before_after` finds a
result by the pair of its names (`PairKey`), `parity` by the two joined by a colon
(`TextKey`), which may be those of another; scores within `Epsilon` are equal.
`AgentOutput` makes outputs of pieces - words, fences, braces, objects on one
line or on two - and runs the search for an object over them.

### MCSequential

The components that one caller at a time works through share one run: `task`
names the one at work, the others stay in an initial state. Their modules are
extended side by side, so nothing of one is hidden from another, and each is
explored over all its inputs. They share no state in the code either. `MCEvidence`
is `Evidence` alone, for the sentence of its documentation that the code does not
keep.

## 3. The runs

| run | bounds | states | shows |
|---|---|---|---|
| `pty` | 1 spawn, 2 units of output, a tty of 1 each way, no code that is known | 1,242,086 | a session's evidence is consistent and complete, calls return unless stuck, the reader ends |
| `pty_drain` | as above with 1 unit | violation | a text written just before the child died is answered false |
| `scripted_run` | 1 step, 1 spawn, 1 unit, a tty of 1 each way, two codes | 1,894,051 | a pass is earned and recorded, no child the session got is left, the run ends unless stuck |
| `process` | 2 units on each stream, pipes of 1, one code, one signal, a deadline of 1 poll | 213,933 | under both owners codes, results and answers are true, pipes drain, waits and closes end |
| `process_reaped` | 1 unit | violation | `close()` returns with the child not reaped |
| `plugin` | 3 calls, 2 stray lines, 1 log line, 2 unread lines for shutdowns | 125,174 | answers belong to requests, the sides stay in step, calls, shutdowns and plugins end |
| `plugin_timeout` | 2 calls, no stray line | violation | a call whose timeout has elapsed and that never returns |
| `tmux` | 3 frames, the text in the second, 2 frames alike | 47,422 | caches are current, waits answer for them, a server is left only by a kill that was lost, calls return or hang in a command |
| `sequential` | see below | 1,864,278 | sixteen components, each over all small inputs |
| `evidence_instants` | 1 capture of 3 frames | violation | a pty's failure capture with a grid and a log of two instants |
| `batch` | 2 recipe files of 2 renderers, 3 items, 2 workers, 2 clock readings, 1 artifact | 1,928,474 | answers come back once and in order, the disk bears out the exit code, the command ends |
| `batch_dirs` | 2 items, 2 names | violation | two runs of one command in one directory |

Why the bounds are enough. With two units of output the reader is strictly
between two of its stores while more is in the tty, and a text may come onto the
screen with the first and be drawn over by the second; a tty or pipe at its
capacity is reached in each run that has one, and with an input of 1 a send that
takes two writes gets stuck. One child per session suffices where generations do
not meet (two were checked for the invariants of the proofs, 14 million states).
One step is enough for a wait and the verdict on what it found, or for a send and
its echo; what a second step may do to the first is left to the theorems, which
take any number (and was run with two steps before the text was told apart from
its position). Three calls give the driver a failure, a skipped call or a clearing,
and a second failure. Three plugin calls give one that times out, one that may read its
answer, and one after it. Three items on two workers are the least for which
chunks differ in length; with two renderers some runs share a name and some do
not. Three frames of a pane, of which two look alike below, give a text that
comes and goes and a body that changes once. The proofs below do not depend on
these bounds.

In `sequential`: a grid of 4 columns and 2 rows with tab stops at 2 and lines of
up to 3 pieces and an end that may be cut off, so that each kind of character
meets the last column after each other and an escape meets each of them; casts
of 4 lines with times set back, equal, near and past the idle limit; 3 captures
(2 where uploads have three outcomes in each of 2 stores) of 3 frames that look
different, and a failed capture that looks like the first, so that an image is
reused over one that failed, and 2 publishes, the second of at most one step, so
that it meets the files and the manifest of the first; 2 recipes whose names
sanitize alike, with files in 5 versions, of which two are one text and two are
missing or unreadable, and 1 diff; every value kind in every field of a recipe with
one more field null or missing; configuration files of 7 contents in every place,
over 2 settings, 3 leaves with null among them and maps of depth 2, which is what a
section with a setting takes, the section typed; runs of up to 2 results, of names
that share a text; outputs of 3 lines of 17 kinds, cut after 7 pieces; 2 characters
in every division into reads with every fate of each line, and one text typed; up to
2 changed files of 7 places, one of them spelled in every way and the other perhaps a
blank line, in suites of up to 2 recipes with 5 sets of patterns; 2 steps; 3
exchanges; 2 commands; scripts of 3 driving calls over a session that may refuse
any. Where
a theorem of section 4 takes data of any length, these runs are what was looked
at first.

`CHECK_DEADLOCK FALSE` stands where the system really stops: a delivered run, a
consumed driver, a client that was dropped and whose plugin has ended, a command
that has answered, a component whose input is used up.

What the properties say, in short:

* `ScreenExplained`, `FoundIsReadable`: snapshots taken under two locks and
  after the answer still agree with each other and with the answer: a text found in
  the log is in the snapshot; one found on the screen alone is in one of the two,
  or the screen has been drawn on since.
* `EvidenceComplete`, `CastFrozen`: a close that joined the reader leaves all
  output in the snapshots, and in the cast unless a line of it was lost; one that
  gave up leaves a cast no step touches.
* `SessionEnds` (`CallsReturn`, `ReaderEnds`): nothing the child or its
  descendants do holds up a call, but for input that they do not read; the reader
  ends when the tty is free.
* `ImplementsDeferredFailure`: see above.
* `PassIsEarned`, `FoundIsJudged`, `VerdictRecorded`, `RunCleansUp` (`RunEnds`
  and, always, `NoChildLeft`): the verdict against the child - or the echo of what
  the run has sent, which an assertion cannot tell from it -, the steps, the
  recording and time. The only child that may be left is one whose spawn failed
  after the fork.
* `ExitCodeTrue`, `ResultIsTrue`, `AnswerTrue`, `WaitsEnd` (`PipesDrain`,
  `WaitEnds`, `CommandReturns`): whichever place reaps the child, and although
  readers and descendants may be behind.
* `CacheIsCurrent`, `AnswersHold`, `SessionIsLetGo` (`CallsReturn` and, always,
  `NoServerLeft`): a pane that goes on while it is looked at, a server that does
  not. A call returns unless one of its commands hangs, and a server is left only
  where `kill-server` failed or went unanswered, which nothing tries again.
* `AnswerIsForCall`, `InStep`, `VersionsAgree`, `PluginEnds` (`CallsEnd`,
  `ShutdownReturns`, `NoPluginLeft`): the protocol; `CallsEnd` has a handler that
  returns as its premise, because the client enforces no timeout on one that
  does not.
* `ImplementsOrderedMap`, `DiskBearsOut` (`SuccessIsEvidence`,
  `ReportsHaveResults`), `CommandEnds`: the batch under every schedule, with
  panics and with writes that fail. The two about files have as their premise
  that no two runs drew one directory, which the code leaves to the clock.
* `GridShowsText`, `VideoIsWhole`, `ReplayShowsScreen`: a screen, its film and
  its replay against what was written.
* `StepsShowScreens` (`ImagesShowSteps`, `CapturesAreOrdered`),
  `NothingDangles` (`ManifestIsLast`, `LossIsRepaired`, `DegradedIsTraced`),
  `ArtifactsAreWhole`: the evidence against the screens, wherever a publish stops
  or a tool fails. What a manifest names is there, or was removed by a write that
  failed; a publish that returns has put it back. A file that is renamed into place
  is the old one or the new one, also after a kill, or gone after a failed rename.
* `StepsAreHeard`, `AssertionsFailClosed`, `AnswerIsSaid`, `BridgeFailsClosed`:
  nothing malformed, missing or cut passes.
* `ConfigIsLayered`, `ReadersAgree`, `ComparisonsAgree`, `SelectionIsOfPlaces`:
  two ways to the same thing lead to the same thing, but for exceptions that are
  named.
* `VerdictIsBacked`, `CommandsKeepFiles`: what is used again was earned with files
  of the same key, which for an unedited recipe are the same or `Alike`; what was
  there when the command was given is kept.

### Disagreements with the documentation

Each `violation` run checks one sentence of the repository's documents or
comments; `PROJECT.json` quotes it.

* `DrainedBeforeVerdict` (`specs/002-builtin-steps/spec.md`): when the child
  dies, `wait_for_text` sleeps 20 ms instead of draining, then looks once.
* `ReapedByClose` (`process.rs`): one look after 50 ms is not a wait.
* `TimeoutsEnforced` (`client.rs`): the timeout is compared after a blocking
  read. It also shows a handshake that is tried again after a late hello: the
  client waits for a hello that is not repeated, the plugin for a ready.
* `RunsNeverCollide` (`store.rs`): the random suffix is the clock once more.
* `CapturesAreInstants` (`collector.rs`): text, grid and raw log "have to describe
  the same moment", but of a pty the first two are the live screen and the last is
  the snapshot of the last call.

What else was met while modelling, and is in the models as the code has it:

* pty, process: `exit_code` (`pty.rs`) and `timed_out` (`process.rs`) are never
  reset, so a second child or wait answers with the first one's until its own.
  A send has no timeout (`pty.rs:461-465`).
* cast video: frames due in a pause show the screen after the event that ends
  it (`cast_video.rs:265-283`), not the one shown during it.
* grid: a combining mark after a wide glyph goes into the glyph's filler, whose
  text is neither read nor drawn; codes after the last column are not read;
  parameters separated by colons are taken for separate codes; underlined
  blanks are not drawn.
* diff and cache: updating a baseline records a pass although the copy failed;
  a cached result's artifacts may since be those of a later, failing run.
* comparisons: of repeated names `before_after` uses the first and `parity` the
  last. `a:b` under no renderer and `a` under `b` are one name to `parity`.
  Divergences are a set here, a list in the code.
* configuration: `config.rs:78-79` says that an idle cap of `None` means to wait up
  to the recipe timeout, but null in a file is loaded as 3.0: no file can say it.
* tmux, commands: "a dropped session must not leave a tmux server running"
  (`tmux.rs:322`), but a lost `kill-server` is not tried again; "both readers
  finish either way" (`proc.rs:98-99`), but not while somebody else holds the
  pipes.
* validation: it tolerates nulls, untyped texts and sizes that the typed loader
  then refuses; the clause for a step's null timeout cannot be reached, as it
  looks for the field where a path has "steps"; "at least one entry required" of
  `argv` (`recipe.rs:83`) is enforced nowhere. The `validate` command only asks
  whether the paths exist.
* init: it accepts dimensions the runner cannot read; a quote in the name makes
  the file no JSON, with exit code 0; `shell_words` drops empty arguments and
  does not read back every word that `shell_quote` writes; a word that cannot be
  printed is written so that no reader takes it; a write that fails may leave a cut
  file, and a recipe that comes between the look and the write is replaced.
* agent: cutting the output or the prompt's data may panic inside a character;
  data too long is cut twice; an object followed by prose with braces is found
  only on a line or in a fence of its own.
* bridge: a spawn or handshake that fails leaves the script behind; Drop removes
  a script of the caller's own that has the mark in its name.
* selection: a misspelled smoke recipe selects nothing; the harness root without
  its slash is no part of it; a directory named like the marker below another is
  taken for the checkout, and written with a slash at its end nothing is left of
  its path at all.
* artifacts: agg or ffmpeg that cannot be launched leaves the GIF; a screenshot
  or video that failed may leave a damaged target; the second try of a rename
  may lose the old file.

### Fairness

Fairness is weak and per thread. The thread in a call takes its next step
(`CallStep`, `RunStep`, `CallerStep`), since every wait of the code polls; its
deadline passes, since time does; a reader or drain thread that can read or
store does; a killed child or plugin dies; a plugin that has a line to read runs
its loop; a tmux command that does not hang ends by its own timeout; in a batch, the caller and each
worker take their next step, and a run is one step (`RunEnds` says runs end). No
call has to be made, no child has to write, fork or exit by itself, no handler
has to return, no descendant has to let go, no server has to answer: `WaitEnds`,
`CommandReturns` and `CallsEnd` state those they need as premises, and
`CallsReturn` and `RunEnds` except what may wait for ever: a send that is `Stuck`, a
tmux command that is `hung`.
`sequential` has no fairness: its properties are about every state or step.

## 4. The proofs

For every number of spawns, calls and log lines, any amount of output, any
capacity, any set of codes. The assumptions are the named ones of the modules:
`PtyAssumption`, `PipesAssumption`, `PluginAssumption` and so
on - that bounds are natural numbers, that `NoCode` is no code - and TLC
evaluates each in the runs.

* **ScriptedRunProofs, the session.** `ScreenExplained` is not inductive: it needs to know
  where the reader is. `Stages` adds `Attempted` (a session with a child or a
  reader has made an attempt), `Pipeline` (at every step of the reader, which of
  `raw` and `screen` has caught up with `taken`), `Attempts` (an attempt not made
  yet has nothing; a reader that ended left nothing behind) and `Recording` (a
  recorder is open only for the latest attempt and in step with its reader; a
  finished one had its reader end before, unless a close gave the reader up; a cast
  that is not spoiled has no gap);
  then `Snapshots` relates the two snapshots and the answer to the
  live state. From these: `TypeCorrect`, `StagesInOrder`, `CastsFrozen`,
  `ScreenAlwaysExplained`, `FoundAlwaysReadable`, `EvidenceAlwaysComplete`.
  `Children` follows the other thread of the story, what each attempt's child
  has become by the place the caller is at: `ChildrenAccountedFor`. They
  hold for any number of spawns, failed ones among them, which the run has not.
* **ScriptedRunProofs, the run.** Every step of a run is a step of the session or leaves
  it alone (`RunUsesSession`), so the session's theorems carry over
  (`RunEvidence`). The codes and texts a run may judge are true of the child or its echo
  (`ReportsAreTrue`), from which `PassAlwaysEarned`. `StepsInOrder` types the
  results and says that only the last of them can have failed
  (`RunTypeCorrect`); with it, what a step has found stays `Readable` until the
  verdict: in the log for good, on the screen until that is drawn on (`FoundStays`),
  which is `FoundAlwaysJudged`. `Drawn` says that what was judged was in the raw log
  and still is, and the session's theorem that a cast without a lost line then has
  it: `VerdictAlwaysRecorded`. `LetGo` adds to `Children` where a run may give its
  session up: `NoChildIsLeft`.
* **ChildPipesProofs.** For the process session, `Inv` adds to the types
  `Pipeline` and `Joined` (a reader that was joined has read its pipe to the end,
  and nobody holds it), `Waiting` and `Ended` (what a wait knows about the child
  at each step): `TypeCorrect`, `ExitCodeAlwaysTrue`, `ResultAlwaysTrue`. For the
  bounded command, `Supervised` says what the caller knows of its child at each
  place, and `Drained` that a drain thread that ended has left its pipe empty
  with nobody to fill it, without which a join would say nothing:
  `AnswersAreTrue`.
* **PluginClientProofs.** `AnswerIsForCall` needs that what is on its way back
  is what the handler returned (`Answers`), which a second request with the same
  id would break: so `Pending` (an unanswered id is in one place only) and
  `Unsent` (ids are new). `VersionsAgree` needs that a ready is only sent by a
  client that read the hello (`Handshake`). `TypeCorrect`, `AnswersBelong`,
  `VersionsAlwaysAgree`. `InStep` takes a second invariant, `Exchange`: of a
  plugin that prints nothing of its own, at most one line is to be read, the hello
  that nobody has answered yet or the answer to the call in progress
  (`LineIsDue`), and a request is in one place (`OneAtATime`), because a client
  that timed out has read the line it gave up on: `CallsStayInStep`.
* **TmuxSessionProofs.** `Inv` goes by the place the call has come to: what may
  be cached there, and how fresh (`Captures`), what a wait has looked at since
  the last change of the body (`Looks`), which server may be up (`Servers`).
  `CacheAlwaysCurrent`, `AnswersAlwaysHold`, `NoServerIsLeft`, for any number of
  frames and any two that look alike.
* **BatchProofs.** The chunks of `run_parallel` are an exercise in rounding:
  from what is known of a product and a remainder (`Division`, `RoundedUp`)
  follow that chunks cover the plan without overlap and are no more than the
  workers (`ChunksCover`, `ChunksDisjoint`, `NeverTooMany`). A plan exists at all
  (`PlanIsAnOrdering`): each item's place is the number of items before it, an
  injection into as many places as there are items, hence onto. The invariant
  says whose turn it is in each chunk, what the joined threads answered, what has
  been written up to the cursor, and that a report is of a result that is there
  (`InvHolds`). The refinement `RunsImplementOrderedMap` maps the start of the
  threads to Submit, an answer to Answer and the last join to Return.
  `DiskAlwaysBearsOut` keeps the premise that no two runs drew one directory.
* **SequentialProofs.** Each theorem is of one component's own specification, for
  every input it may be given and not only the small ones of the run.
  `ArtifactsAlwaysWhole` needs which maker may be at which place (`Places`);
  `BridgeAlwaysFailsClosed`, the order in which script, Python and plugin come
  and go (`Lifetimes`); `VerdictAlwaysBacked`, that whatever lies in the cache was
  earned with files of its key (`CacheIsEarned`); that equal keys of an unedited
  recipe mean equal or `Alike` data is what remains when the texts around the data
  are taken off. `StepsAlwaysShowScreens` and
  `NothingEverDangles` share one invariant: a capture is no older than the one before and its log in step with the reader, what a
  published entry names was written and shows its frame or was lost, the dedup table
  remembers images that are there, and a message is in the log exactly if it
  survived. `VideoAlwaysWhole` follows the clock and the frames sampled by it,
  and keeps for every frame the screen it came from. `ReadersAlwaysAgree` takes
  any document, `AssertionsAlwaysFailClosed` any recipe with texts of a set
  `Strings` in any world. `StepsAlwaysHeard` takes recipes of any length: the
  place of an input among those that passed is its place in the session's log,
  and what is echoed was sent by an earlier step (`Echoes`).

* **DataProofs.** What is computed from data of any length. The prover has no
  induction over an operator, so the module starts with induction over a set:
  that a set of numbers has a least element follows from the library's
  `WFMin`, from this `SetInduction` (a set with 0 and the successors of its
  members has all numbers), and from this that a function defined step by step
  exists and is unique (`Recursion`, `SameSteps`). `FlattenSeq` is defined by such
  a recursion; `FlattenAppend`, `FlattenConcat` and `FlattenPicks` (pieces of at
  most one element are a selection in order) are what the proofs use of it.
  - `LatchHolds`, `StopsAtFailure`, `DriverImplementsDeferredFailure`: `Latch` ties
    the driver's one `Option` to the record: it holds a failure exactly when the
    script since the last clearing has one, and then that one. For the refinement,
    initial states map to initial states, each step to a step or a stutter.
  - `ComparisonsAlwaysAgree`, for any two runs: what deltas and divergences say
    of a name is worked out from the first and the last result of that name
    (`FirstFacts`, `SummaryLast`), whatever stands between them.
  - `ReplaysShowTheScreen`, for any output, divided into reads in any way: the
    invariant `CastInv` is that what was recorded is the output up to the last
    cut, piece by piece, each cut inside a character being two replacements and each
    chunk that was lost being nothing.
  - `CommandsAlwaysKeepFiles`, for any words of any characters: what
    `shell_quote` makes of a word `shell_words` reads back, one character at a
    time from whatever state it is in, but for the words `ReadBack` names.
  - `ConfigIsAlwaysLayered`, for any number of settings and leaves and maps nested
    to any depth: `LayersInv` says it of the files looked at so far. The merge
    is a recursive function; a map is one key of it at a time (`MergedKey`).
    Assumed (`LayerAssumption`): the built-in configuration is a map of these.
  - `AnswersAlwaysSaid`, for any output and any bound on it: the object that
    decides comes first among the candidates that have a verdict
    (`CandidatesHeard`), and then among the objects (`ObjectsHeard`).
  - `SelectionAlwaysOfPlaces`, for any suite, any list of changed files and any
    harness root: `normalize_path` of a path below any number of roots is the
    path of its place (`BareIsLeft`), and a glob of a place matches it as places
    do (`GlobIs`). Assumed (`SelectionAssumption`): names have no slash in them
    and the marker is one name between slashes. The theorem says what
    `Unmarked` leaves out; it was the proof that found the slash at the end.
* **GridProofs.** On the same lemmas, `GridAlwaysShowsText`, for a grid of any
  size and lines of any length (`GridLine`): characters, escapes that start no
  sequence or are followed by another, sequences of any parameters, SGR
  sequences whose parameters are any units of ECMA-48, and at the end of a line
  a sequence that is cut off. `RowsShow` says that the row in the making and
  all before show what was put on their lines, and that a row ends with a
  filler only where a mark would now be lost. `LineIsRead` says where in its
  line the reading is: some pieces have been read, and the attributes are those
  they mean (`Positioned`), from the attributes meant at the start of the line;
  an escape that was left alone may have been taken apart, but what is left of
  it is no sequence. `SgrIsItsUnits` is the algorithm: reading parameters one
  after the other does what their units mean together. Assumed
  (`GridAssumption`): tab stops are at least one column apart.

Every invariant and every safety property of a passing run is stated by a
theorem, those inside `RunCleansUp` (`NoChildIsLeft`) and `SessionIsLetGo`
(`NoServerIsLeft`) included. Only model-checked: all liveness (`SessionEnds`,
`RunEnds`, `WaitsEnd`, the tmux session's `CallsReturn`, `PluginEnds`,
`CommandEnds`), which rests on fairness and ENABLED, out of the prover's reach.

## 5. Not modelled, and the plan

Not modelled: the Python compatibility (`pyrepr.rs`, `pyschema.rs`, `pypath.rs`,
`pyregex.rs`), whose subject is the characters of a string; `screen.rs` and
`from_vt100`, which copy the cells of the vt100 crate; the key tables; the
drawing and comparing of pixels; the texts of reports, JUnit and schemas; the
vocabulary; `run_config`'s defaults; `summarize_json`. docker is a stub that
refuses every call, custom and idle check arguments, and `ScriptedProcessMode`
is not selected by any recipe. These have no order of steps to get wrong.

What could be added, most important first:

1. `RunsImplementOrderedMap` composed with `PassAlwaysEarned`: a batch whose
   threads are runs.
2. Action properties over the invariants that are proved: what a close, a timeout
   or a retry may never take back.
3. `Split` and `Number` of `AnsiGrid` proved about themselves: in the theorem the
   parameters of a sequence are what `ParseSgrParams` makes of its characters.

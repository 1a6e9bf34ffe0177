-------------------------------- MODULE Batch --------------------------------
(***************************************************************************)
(* `termproof run`: execute of crates/termproof-cli/src/run.rs, which      *)
(* selects recipes, plans them, runs each by Runner::run of runner.rs on   *)
(* the planner's threads, and then, on its own, writes what they returned  *)
(* and answers with an exit code. What goes on in one run is ScriptedRun's *)
(* subject: here it is its verdict.                                        *)
(***************************************************************************)
EXTENDS Planner, Store

CONSTANTS
  Files,       \* the recipe files found, as numbers in the order of their paths
  Names, Renderers,   \* numbers, in the order of the names
  MaxItems,    \* bound on the length of a plan
  Out,         \* --out, where the run directories are
  Artifacts    \* the files Runner::run writes into the run directory

\* The files of the command are none of the run's.
ASSUME BatchAssumption ==
  /\ IsFiniteSet(Files) /\ Files \subseteq Nat
  /\ Names \subseteq Nat
  /\ IsFiniteSet(Renderers) /\ Renderers \subseteq Nat
  /\ Artifacts \cap {"result.json", "report.md", "latest-report.md", "junit.xml"} = {}

VARIABLES
  phase,     \* where in execute the command is
  cursor,    \* the outcome looked at
  kept,      \* the runs that returned a result, by plan position
  refused,
  exit

batchVars == <<phase, cursor, kept, refused, exit>>
vars == <<plannerVars, storeVars, batchVars>>

SUCCESS == 0
FAILURE == 1
NoExit == 2
Panicked == 101

Refusal == [ok |-> FALSE, passed |-> FALSE, artifacts |-> {}]
Result(passed, artifacts) == [ok |-> TRUE, passed |-> passed, artifacts |-> artifacts]

Init ==
  /\ PlannerInit /\ StoreInit
  /\ phase = "load" /\ cursor = 1 /\ kept = <<>> /\ refused = FALSE
  /\ exit = NoExit

Goto(p) == phase' = p
End(code) == phase' = "done" /\ exit' = code

-----------------------------------------------------------------------------
(* Discovery, the filters and the plan.                                    *)

Recipe == [name : Names, renderers : SUBSET Renderers \ {{}}, wanted : BOOLEAN]

\* The items of the recipes that pass the filters, with the renderers asked for.
Selected(recipes, asked) ==
  {item \in [file : Files, name : Names, renderer : asked] :
     /\ recipes[item.file].wanted
     /\ item.name = recipes[item.file].name
     /\ item.renderer \in recipes[item.file].renderers}

\* A path that is missing, a file that is no recipe, or filters nothing passes.
NothingToRun ==
  /\ phase = "load"
  /\ End(FAILURE)
  /\ UNCHANGED <<plannerVars, storeVars, cursor, kept, refused>>

Select ==
  /\ phase = "load"
  /\ \E recipes \in [Files -> Recipe], asked \in SUBSET Renderers, n \in 1..MaxWorkers :
       LET items == Selected(recipes, asked) IN
       /\ items # {}
       /\ Len(PlanItems(items)) <= MaxItems
       /\ RunParallel(PlanItems(items), n)
       /\ dir' = [i \in 1..Len(PlanItems(items)) |-> Unnamed]
  /\ Goto("run")
  /\ UNCHANGED <<disk, cursor, kept, refused, exit>>

-----------------------------------------------------------------------------
(* What a thread does for an item: name a directory, then Runner::run.     *)

NameRun(w, i) ==
  /\ phase = "run" /\ Turn(w, i)
  /\ NewRunDir(i, plan[i])
  /\ UNCHANGED <<plannerVars, batchVars>>

\* No mode for the recipe, no directory, or no session.
RunRefused(w, i) ==
  /\ phase = "run" /\ Turn(w, i) /\ dir[i] # Unnamed
  /\ Answer(i, Refusal)
  /\ UNCHANGED <<storeVars, batchVars>>

\* The result names the artifacts that could be written; nobody looks at the others.
RunReturns(w, i) ==
  /\ phase = "run" /\ Turn(w, i) /\ dir[i] # Unnamed
  /\ \E passed \in BOOLEAN, saved \in SUBSET Artifacts :
       /\ Answer(i, Result(passed, saved))
       /\ \E gone \in SUBSET (Artifacts \ saved) :
            WriteAll(dir[i], saved, gone, <<i>>)
  /\ UNCHANGED <<dir, batchVars>>

RunPanics(w, i) ==
  /\ phase = "run" /\ Turn(w, i) /\ dir[i] # Unnamed
  /\ Panic(w)
  /\ UNCHANGED <<storeVars, batchVars>>

ThreadStep(w, i) == NameRun(w, i) \/ RunRefused(w, i) \/ RunReturns(w, i) \/ RunPanics(w, i)

WorkerStep == \E w \in Threads, i \in DOMAIN plan : ThreadStep(w, i)

-----------------------------------------------------------------------------
(* Then, on the caller's thread alone: the results, the reports, the code. *)

JoinThread ==
  /\ phase = "run"
  /\ Join
  /\ UNCHANGED <<storeVars, batchVars>>

\* A panic goes on through the caller: nothing of the batch is written.
PanicSpreads ==
  /\ phase = "run"
  /\ Unwinds
  /\ End(Panicked)
  /\ UNCHANGED <<plannerVars, storeVars, cursor, kept, refused>>

Collect ==
  /\ phase = "run" /\ AllJoined
  /\ Goto("result")
  /\ UNCHANGED <<plannerVars, storeVars, cursor, kept, refused, exit>>

ResultPath(i) == Path(dir[i], "result.json")
ReportPath(i) == Path(dir[i], "report.md")
LatestPath == Path(Out, "latest-report.md")
JUnitPath == Path(Out, "junit.xml")

CountRefused ==
  /\ phase = "result" /\ cursor <= Len(results) /\ ~results[cursor].ok
  /\ refused' = TRUE /\ cursor' = cursor + 1
  /\ UNCHANGED <<plannerVars, storeVars, phase, kept, exit>>

\* write_result_files stops at the first file it cannot write; the result counts on.
Keep == kept' = Append(kept, cursor) /\ cursor' = cursor + 1 /\ Goto("result")

\* Faulty: goes on to the report when the result could not be written.
WriteResultOrNot ==
  /\ phase = "result" /\ cursor <= Len(results) /\ results[cursor].ok
  /\ Write(ResultPath(cursor), <<cursor>>) \/ WriteFails(ResultPath(cursor))
  /\ Goto("report")
  /\ UNCHANGED <<plannerVars, dir, cursor, kept, refused, exit>>

WriteResult ==
  /\ phase = "result" /\ cursor <= Len(results) /\ results[cursor].ok
  /\ \/ Write(ResultPath(cursor), <<cursor>>) /\ Goto("report")
        /\ UNCHANGED <<cursor, kept, refused>>
     \/ WriteFails(ResultPath(cursor)) /\ refused' = TRUE /\ Keep
  /\ UNCHANGED <<plannerVars, dir, exit>>

WriteReport ==
  /\ phase = "report"
  /\ \/ Write(ReportPath(cursor), <<cursor>>) /\ UNCHANGED refused
     \/ WriteFails(ReportPath(cursor)) /\ refused' = TRUE
  /\ Keep
  /\ UNCHANGED <<plannerVars, dir, exit>>

\* The reports of all runs; a failure to write one is printed and goes no further.
WriteLatest ==
  /\ phase = "result" /\ cursor > Len(results) /\ kept # <<>>
  /\ Write(LatestPath, kept) \/ WriteFails(LatestPath)
  /\ \E next \in {"junit", "finish"} : Goto(next)   \* with --xml-path or without
  /\ UNCHANGED <<plannerVars, dir, cursor, kept, refused, exit>>

WriteJUnit ==
  /\ phase = "junit"
  /\ Write(JUnitPath, kept) \/ WriteFails(JUnitPath)
  /\ Goto("finish")
  /\ UNCHANGED <<plannerVars, dir, cursor, kept, refused, exit>>

Finish ==
  /\ phase = "finish" \/ (phase = "result" /\ cursor > Len(results) /\ kept = <<>>)
  /\ End(IF refused \/ \E k \in 1..Len(kept) : ~results[kept[k]].passed
         THEN FAILURE ELSE SUCCESS)
  /\ UNCHANGED <<plannerVars, storeVars, cursor, kept, refused>>

CallerStep ==
  \/ NothingToRun \/ Select \/ JoinThread \/ PanicSpreads \/ Collect
  \/ CountRefused \/ WriteResult \/ WriteReport \/ WriteLatest \/ WriteJUnit \/ Finish

Next == CallerStep \/ WorkerStep

(* Every thread is scheduled, and a run ends: RunEnds of ScriptedRun.       *)
Fairness ==
  /\ WF_vars(CallerStep)
  /\ \A w \in 1..MaxWorkers : WF_vars(w \in Threads /\ \E i \in DOMAIN plan : ThreadStep(w, i))

Spec == Init /\ [][Next]_vars
FairSpec == Spec /\ Fairness

-----------------------------------------------------------------------------
Positions == 1..Len(plan)
Dirs == [name : {SafeName(n) : n \in Names}, renderer : Renderers, read : Readings]
Outcomes == {Refusal} \cup {Result(p, a) : p \in BOOLEAN, a \in SUBSET Artifacts}

ASSUME PendingAssumption == Pending \notin Outcomes

\* Every variable stays in its range, and no answer is given back twice.
TypeOK ==
  /\ plan \in Seq([file : Files, name : Names, renderer : Renderers])
  /\ workers \in 1..MaxWorkers
  /\ outcomes \in [Positions -> Outcomes \cup {Pending}]
  /\ lost \subseteq Threads /\ joined \in Threads \cup {0}
  /\ results \in Seq(Outcomes) /\ Len(results) <= Len(plan)
  /\ dir \in [Positions -> Dirs \cup {Unnamed}]
  /\ \A path \in DOMAIN disk : disk[path] \in Seq(Positions)
  /\ phase \in {"load", "run", "result", "report", "junit", "finish", "done"}
  /\ cursor \in 1..Len(plan) + 1 /\ kept \in Seq(Positions)
  /\ refused \in BOOLEAN
  /\ exit \in {SUCCESS, FAILURE, Panicked, NoExit}

\* Whatever the schedule and whoever panics, items are answered once, and what the
\* caller gets is all the answers in the order of the plan.
Map == INSTANCE OrderedMap WITH
  answers <- outcomes,
  returned <- IF AllJoined THEN results ELSE <<>>
ImplementsOrderedMap == Map!Spec

\* No more runs are in progress than there are workers: the rounding of the chunk
\* size makes no extra thread.
AtMostWorkers ==
  Cardinality({i \in Positions : dir[i] # Unnamed /\ outcomes[i] = Pending}) <= workers

\* Two runs have two directories.
DirsDiffer == \A i, j \in Positions : i # j => dir[i] # dir[j] \/ dir[i] = Unnamed

\* A command that succeeds ran something, all of it passed, and - as long as no two
\* runs drew the same directory - all the evidence its results name is there and theirs.
SuccessIsEvidence ==
  phase = "done" /\ exit = SUCCESS =>
    /\ plan # <<>> /\ \A i \in Positions : outcomes[i].ok /\ outcomes[i].passed
    /\ DirsDiffer => \A i \in Positions :
         \A path \in {ResultPath(i), ReportPath(i)}
                        \cup {Path(dir[i], a) : a \in outcomes[i].artifacts} :
           Exists(path) /\ disk[path] = <<i>>

\* In every state, so also where the command is killed: a report is of a run whose
\* result is there, and the report of all runs is of runs whose results are there or
\* known to be missing.
ReportsHaveResults ==
  DirsDiffer =>
    /\ \A i \in Positions : Exists(ReportPath(i)) => Exists(ResultPath(i))
    /\ Exists(LatestPath) =>
         \A i \in Positions : outcomes[i].ok => Exists(ResultPath(i)) \/ refused

\* What a command leaves on the disk bears out what it says: while it runs, when it is
\* killed and when it ends.
DiskBearsOut == SuccessIsEvidence /\ ReportsHaveResults

\* A command ends.
CommandEnds == <>(phase = "done")

\* What the module's documentation says and the code does not do: "each run gets a
\* unique timestamp + pid + random suffix, so parallel invocations never collide".
RunsNeverCollide == DirsDiffer

=============================================================================

------------------------------ MODULE Selection ------------------------------
(***************************************************************************)
(* Choosing recipes for changed files: crates/termproof/src/selection.rs.  *)
(* A path is a sequence of the names and separators it is written with; a  *)
(* changed file is its place in the repository, spelled in one of several  *)
(* ways.                                                                   *)
(***************************************************************************)
EXTENDS Naturals, Sequences, SequencesExt

CONSTANTS
  HarnessDirectory,  \* what SelectionConfig.harness_root names, a place
  RepoMarker,        \* SelectionConfig.repo_marker, a path
  Smoke              \* SelectionConfig.smoke, names

\* The marker is one name, and no place is spelled with it before the one that is meant.
ASSUME SelectionAssumption ==
  /\ HarnessDirectory \in Seq({HarnessDirectory[i] : i \in 1..Len(HarnessDirectory)} \ {"/"})
  /\ HarnessDirectory # <<>>
  /\ RepoMarker = <<"/", RepoMarker[2], "/">>
  /\ RepoMarker[2] \notin {"/", "\\", ".", "home"}

VARIABLES
  suite,     \* the recipes: a name and the patterns of ci_paths
  changed,   \* the changed files: a place and the way it is spelled
  lines,     \* the lines of the list of changed files, from its first
  selected,  \* the positions of the recipes to run
  choosing   \* "unread", "read" or "chosen"

selectionVars == <<suite, changed, lines, selected, choosing>>

-----------------------------------------------------------------------------
(* Spelling.                                                               *)

Joined(place) == [k \in 1..2 * Len(place) - 1 |->
                    IF k % 2 = 1 THEN place[(k + 1) \div 2] ELSE "/"]
Backslashed(path) == [i \in 1..Len(path) |-> IF path[i] = "/" THEN "\\" ELSE path[i]]

Spellings == {"plain", "dot", "dots", "absolute", "slash", "windows"}
Spelled(place, spelling) ==
  LET path == Joined(place) IN
  CASE spelling = "plain" -> path
    [] spelling = "dot" -> <<".", "/">> \o path
    [] spelling = "dots" -> <<".", "/", ".", "/">> \o path
    [] spelling = "absolute" -> <<"/", "home">> \o RepoMarker \o path
    [] spelling = "slash" -> path \o <<"/">>
    [] spelling = "windows" -> Backslashed(<<"home">> \o RepoMarker \o path)

-----------------------------------------------------------------------------
(* normalize_path.                                                         *)

\* What follows on the first i elements of a path.
Follows(path, i, part) ==
  i + Len(part) <= Len(path) /\ \A k \in 1..Len(part) : path[i + k] = part[k]
Beyond(path, i) == SubSeq(path, i + 1, Len(path))

WithoutDots(path) ==
  Beyond(path, 2 * Min({n \in 0..Len(path) : ~Follows(path, 2 * n, <<".", "/">>)}))

BelowMarker(path) ==
  LET at == {i \in 0..Len(path) : Follows(path, i, RepoMarker)}
  IN  IF at = {} THEN path ELSE Beyond(path, Min(at) + Len(RepoMarker))

WithoutSlashes(path) == SubSeq(path, 1, Max({0} \cup {i \in 1..Len(path) : path[i] # "/"}))

Forward(path) == [i \in 1..Len(path) |-> IF path[i] = "\\" THEN "/" ELSE path[i]]

NormalizePath(path) == WithoutSlashes(BelowMarker(WithoutDots(Forward(path))))

-----------------------------------------------------------------------------
(* select.                                                                 *)

\* The ends of what the first i elements of a pattern match of a path; "*" is any text,
\* separators too; "[" is in no pattern that compiles.
GlobMatches(pattern, path) ==
  LET ends[i \in 0..Len(pattern)] ==
        IF i = 0 THEN {0}
        ELSE {j \in 0..Len(path) :
                \E k \in ends[i - 1] :
                  IF pattern[i] = "*" THEN k <= j ELSE j = k + 1 /\ path[j] = pattern[i]}
  IN  Len(path) \in ends[Len(pattern)]
Compiled(pattern) == ~Contains(pattern, "[")

MatchesAnyPath(patterns, paths) ==
  \E pattern \in patterns : \E path \in paths :
    Compiled(NormalizePath(pattern)) /\ GlobMatches(NormalizePath(pattern), path)

\* A line that is blank, of no place, is dropped.
ChangedFilesFromFile ==
  /\ choosing = "unread" /\ choosing' = "read"
  /\ lines' = FlattenSeq([i \in 1..Len(changed) |->
                 LET line == Spelled(changed[i].place, changed[i].spelling)
                 IN  IF line = <<>> THEN <<>> ELSE <<line>>])
  /\ UNCHANGED <<suite, changed, selected>>

HarnessRoot == Append(Joined(HarnessDirectory), "/")

\* Faulty: compares the path as it is spelled.
TouchesHarnessSpelled == \E i \in 1..Len(lines) : Follows(lines[i], 0, HarnessRoot)

TouchesHarness == \E i \in 1..Len(lines) : Follows(NormalizePath(lines[i]), 0, HarnessRoot)

\* By name, and so all of a name at once.
Select ==
  /\ choosing = "read" /\ choosing' = "chosen"
  /\ LET paths == {NormalizePath(lines[i]) : i \in 1..Len(lines)}
         smoke == Smoke \cap {suite[i].name : i \in 1..Len(suite)}
         matching == {suite[i].name : i \in {i \in 1..Len(suite) :
                                              MatchesAnyPath(suite[i].patterns, paths)}}
         chosen == IF TouchesHarness THEN smoke ELSE smoke \cup matching
     IN  selected' = FlattenSeq([i \in 1..Len(suite) |->
                       IF suite[i].name \in chosen THEN <<i>> ELSE <<>>])
  /\ UNCHANGED <<suite, changed, lines>>

SelectionInit(suites, changes) ==
  /\ suite \in suites /\ changed \in changes /\ lines = <<>>
  /\ selected = <<>> /\ choosing = "unread"

SelectionStep == ChangedFilesFromFile \/ Select

-----------------------------------------------------------------------------
Under(place, directory) == Len(place) > Len(directory) /\ Follows(place, 0, directory)

\* A place below another directory of the marker's name is taken for one of the root, and
\* so is that directory where a slash follows it.
Unmarked(change) ==
  \A i \in 2..Len(change.place) :
    change.place[i] = RepoMarker[2] => i = Len(change.place) /\ change.spelling # "slash"

\* The patterns of a place: its own, and those of all that is below a directory of it.
PatternsOf(place) ==
  {Joined(place)} \cup {Joined(Append(SubSeq(place, 1, n), "*")) : n \in 0..Len(place) - 1}

\* What runs depends on the places that changed and not on how they are spelled: the smoke
\* recipes always, the others when a file of theirs changed and none of the harness did,
\* each once and in the order of the suite.
SelectionIsOfPlaces ==
  choosing = "chosen" /\ (\A c \in 1..Len(changed) : Unmarked(changed[c])) =>
    LET places == {changed[c].place : c \in 1..Len(changed)}
        harness == \E p \in places : Under(p, HarnessDirectory)
        Wants(recipe) == \E p \in places : recipe.patterns \cap PatternsOf(p) # {}
        Runs(i) == \/ suite[i].name \in Smoke
                   \/ ~harness /\ \E j \in 1..Len(suite) :
                                    suite[j].name = suite[i].name /\ Wants(suite[j])
        chosen == {i \in 1..Len(suite) : Runs(i)}
    IN  /\ {selected[k] : k \in 1..Len(selected)} = chosen
        /\ \A k, l \in 1..Len(selected) : k < l => selected[k] < selected[l]

===============================================================================

----------------------------- MODULE MCSequential -----------------------------
(***************************************************************************)
(* The components of which one run needs no other, each on inputs of its   *)
(* own: one is at work, the others stay in one of their initial states.    *)
(***************************************************************************)
EXTENDS AnsiGrid, CastVideo, Assertions, Layers, Comparison, Reuse, Evidence, RecipeFile,
        PythonBridge, AgentOutput, CastRecord, Selection, StepArguments, Artifacts, CommandLine,
        SessionDriver

CONSTANT MaxPieces   \* bound on the pieces of a line

VARIABLE task

vars ==
  <<task, gridVars, videoVars, assertionVars, layerVars, comparisonVars, reuseVars,
    evidenceVars, recipeVars, bridgeVars, agentVars, castVars, selectionVars, stepVars,
    artifactVars, commandVars, driverVars>>

Chars(pieces) == [chars |-> pieces, sets |-> <<>>]

\* Characters, and an escape with anything behind it.
Letters == {Chars(<<c>>) : c \in {"a", "w", "n", "t", "E"}}

\* Sequences and what ECMA-48 makes of them; of a colour that is cut short, nothing.
EscapeSequences ==
  {[chars |-> <<"E", "[", "m">>, sets |-> Plain],
   [chars |-> <<"E", "[", "1", ";", "3", "1", "m">>,
    sets |-> [x \in {"bold", "fg"} |-> IF x = "fg" THEN Palette(1) ELSE TRUE]],
   [chars |-> <<"E", "[", "3", "8", ";", "5", ";", "9", ";", "7", "m">>,
    sets |-> [x \in {"reverse", "fg"} |-> IF x = "fg" THEN Xterm(9) ELSE TRUE]],
   [chars |-> <<"E", "[", "4", "8", ";", "2", ";", "1", ";", "2", ";", "3", "m">>,
    sets |-> [x \in {"bg"} |-> Rgb(1, 2, 3)]],
   Chars(<<"E", "[", "4", "8", ";", "5", "m">>),
   Chars(<<"E", "[", "3", "8", ";", "2", ";", "1", "m">>),
   Chars(<<"E", "[", "2", "a">>)}

\* A sequence that the end of the line cuts off.
Cut == {<<>>, <<Chars(<<"E", "[", "3">>)>>, <<Chars(<<"E">>)>>}

Lines == {line \o cut : line \in UNION {[1..n -> Letters \cup EscapeSequences] : n \in 0..MaxPieces},
                        cut \in Cut}

-----------------------------------------------------------------------------
(* Reuse: the names of the first two recipes differ in what is sanitized.  *)

SlugOf == [r \in Recipes |-> IF r = "a/b" THEN "a-b" ELSE r]
PathOf == [r \in Recipes |-> <<r>>]
OptionTexts == [r \in Recipes |-> <<"}">>]
DataPlace == <<"p">>
SaysMissing == <<"?">>

\* The second and the third are one text, and so are an unreadable and an empty file.
FileVersions ==
  {[recipes |-> [r \in Recipes |-> both[1]], data |-> both[2]] :
     both \in {<<<<"x">>, <<>>>>, <<<<"x">>, <<"y", "p", "z">>>>, <<<<"x", "p", "y">>, <<"z">>>>,
                <<<<"x">>, Unreadable>>, <<<<"x">>, NoFile>>}}

-----------------------------------------------------------------------------
(* Assertions.                                                             *)

Values == {Absent, String("x"), String(""), String("0"), Value("null", "None", {}),
           Value("int", "0", {0}), Value("bool", "True", {1}), Value("float", "0.0", {0}),
           Value("float", "0.5", {}), Value("list", "[]", {})}
Files == {Absent, String("f"), String("/g"), Value("null", "None", {}), Value("int", "5", {5})}
SchemaValues == {Absent, Value("object", "small", {}), Value("object", "nonsense", {}),
                 String("f"), Value("bool", "True", {1})}

Kinds == {"output_contains", "output_not_contains", "screen_contains", "screen_not_contains",
          "exit_code", "file_exists"}
OneValue(kinds) == {AssertionOf(k, v, Absent, Absent, Absent) : k \in kinds, v \in Values}
Named == {String(k) : k \in Kinds \cup {"mystery"}}
Single ==
  OneValue(Named \cup {Absent, Value("int", "5", {5})})
  \cup {AssertionOf(String("file_exists"), f, Absent, Absent, Absent) : f \in Files}
  \cup {AssertionOf(String("file_contains"), v, f, Absent, Absent) : v \in Values, f \in Files}
  \cup {AssertionOf(String("json_schema"), Absent, Absent, f, s) : f \in Files, s \in SchemaValues}
Opposing ==
  {<<AssertionOf(String(k), v, Absent, Absent, Absent),
     AssertionOf(String(Negation[k]), v, Absent, Absent, Absent)>> :
     k \in DOMAIN Negation, v \in Values}

AcceptedPairs == {<<"small", "small json">>}

RecipeStrings ==
  {v.text : v \in Values \cup Files \cup SchemaValues} \cup Kinds
  \cup {"mystery", "file_contains", "json_schema", "code", ".", "dir", "none", "small json"}

RecipesToJudge ==
  [assertions : {<<a>> : a \in Single} \cup Opposing, expected : {{}, {0}},
   cwd : {".", "dir"}, absolute : {{"/g"}}]

File(contains, schema) == [is |-> "file", contains |-> contains \cup {""}, schema |-> schema]
Trees ==
  {[p \in {} |-> File({}, "none")],
   [p \in {<<".", "f">>, <<"", "/g">>} |-> File({"x"}, "small")],
   [p \in {<<"dir", "f">>} |-> File({}, "none")],
   [p \in {<<".", "">>, <<".", "f">>} |-> [is |-> "directory"]]}
Worlds ==
  [screen : {{""}, {"", "x"}}, output : {{""}, {"", "x"}}, exit : {{}, {0}, {1}},
   files : Trees, json : {"small json", "none"}]

-----------------------------------------------------------------------------
(* Layers.                                                                 *)

Section(value) == Map([k \in {"a"} |-> value])
LayerContents ==
  {Leaf("missing"), Leaf("broken"), Leaf("0"), Section(Leaf("0")),
   Section(Map([k \in {"a"} |-> Leaf("null")])),
   Section(Map([k \in {"a"} |-> Leaf("1")])), Section(Map([k \in {"b"} |-> Leaf("1")]))}

\* The section a is typed, with the field a.a, and b is a leaf.
FieldTypes ==
  [path \in {<<"a">>, <<"b">>, <<"a", "a">>} |->
     CASE path = <<"a">> -> {} [] path = <<"b">> -> {"0", "1"} [] OTHER -> {"0", "1", "null"}]
CapPath == <<"a", "a">>
FieldPaths == {CapPath}

BuiltinConfig == Map([k \in {"a", "b"} |-> IF k = "a" THEN Map([l \in {"a"} |-> Leaf("0")])
                                           ELSE Leaf("0")])

-----------------------------------------------------------------------------
(* Comparison.                                                             *)

AssertionResult(name, passed, detail) == [name |-> name, passed |-> passed, detail |-> detail]
ResultOutcomes ==
  {[passed |-> TRUE, score |-> 2, assertions |-> <<AssertionResult("x", TRUE, "d")>>],
   [passed |-> TRUE, score |-> 2, assertions |-> <<AssertionResult("x", TRUE, "e")>>],
   [passed |-> TRUE, score |-> 2, assertions |-> <<>>],
   [passed |-> FALSE, score |-> 2, assertions |-> <<AssertionResult("x", TRUE, "d")>>],
   [passed |-> FALSE, score |-> 0, assertions |-> <<AssertionResult("x", FALSE, "d")>>],
   [passed |-> FALSE, score |-> 1, assertions |-> <<AssertionResult("x", FALSE, "d"),
                                                    AssertionResult("x", TRUE, "d")>>]}
\* "a" under the renderers "b" and "c", and "a:b" under none, whose text is that of the first.
Results ==
  {[recipe |-> n[1], renderer |-> n[2],
    passed |-> o.passed, score |-> o.score, assertions |-> o.assertions] :
     n \in {<<<<"a">>, <<"b">>>>}, o \in ResultOutcomes}
  \cup {[recipe |-> n[1], renderer |-> n[2], passed |-> p, score |-> 2, assertions |-> <<>>] :
          n \in {<<<<"a", "b">>, <<>>>>, <<<<"a">>, <<"c">>>>}, p \in BOOLEAN}
Runs == UNION {[1..n -> Results] : n \in 0..2}

-----------------------------------------------------------------------------
(* RecipeFile: a good recipe with one field of any kind, and one more missing or null. *)

GoodRecipe ==
  [f \in Fields |-> CASE f = "recipe_version" -> "one"
                      [] f \in {"cols", "rows", "timeout_seconds"} -> "one"
                      [] f \in {"action", "kind"} -> "known"
                      [] Typed[f].type \in {"text", "texts", "map", "bool"} -> Typed[f].type
                      [] OTHER -> "zero"]
RecipeDocuments ==
  {[GoodRecipe EXCEPT ![f] = v, ![g] = w] :
     f \in Fields, v \in ValueKinds, g \in Fields, w \in {"null", "absent"}}

-----------------------------------------------------------------------------
(* AgentOutput: three blocks of lines.                                     *)

Fenced(pieces) == <<"fence", "json", "nl">> \o pieces \o <<"nl", "fence">>
Blocks ==
  {<<>>, <<"w">>, <<"{">>, <<"}">>, <<"<", "nl", ">">>, Fenced(<<"<", "nl", ">">>), <<"yes", "w">>}
  \cup {<<o>> : o \in Objects} \cup {<<"w", o>> : o \in {"yes", "other"}}
  \cup {Fenced(<<o>>) : o \in {"no", "told"}}
AgentOutputs ==
  {a \o <<"nl">> \o b \o <<"nl">> \o c : a \in Blocks, b \in Blocks, c \in Blocks}

-----------------------------------------------------------------------------
(* Selection: one or two lines of changed files, of which one is spelled in any way and
   the other may be blank. *)

HarnessPlace == <<"verify">>
MarkerPath == <<"/", "repo", "/">>
ChangedPlaces ==
  {<<"src", "a">>, <<"src", "lib", "a">>, <<"verify", "a">>, <<"verify">>, <<"srcs">>,
   <<"src", "repo">>, <<"src", "repo", "verify", "a">>}
CiPaths == {{}, {<<"src", "/", "*">>}, {<<"src", "/", "a">>}, {<<"[">>, <<"srcs">>}, {<<"*">>}}
Suites == UNION {[1..n -> [name : {"smoke", "x"}, patterns : CiPaths]] : n \in 0..2}
Changes ==
  LET spelled == [place : ChangedPlaces, spelling : Spellings]
      plain == [place : {<<>>} \cup ChangedPlaces, spelling : {"plain"}]
  IN  {<<>>} \cup {<<c>> : c \in spelled} \cup {<<c, d>> : c \in plain, d \in spelled}

-----------------------------------------------------------------------------
(* StepArguments: a step of any arguments, alone or after one that is well formed. *)

Call(name, argument, timeout, other) ==
  [action |-> name, text |-> argument, timeout |-> timeout, other |-> other]
CallsWith(durations) ==
  {Call("wait_for_text", t, u, "absent") : t \in Texts, u \in durations}
  \cup {Call("wait_for_idle", "absent", u, o) : u \in durations, o \in durations}
  \cup {Call(a, t, "absent", "absent") : a \in {"send_text", "send_line"}, t \in Texts}
  \cup {Call("press", k, "absent", "absent") : k \in KeyNames}
  \cup {Call("sleep", "absent", "absent", o) : o \in durations}
  \cup {Call("wait_for_regex", p, u, "absent") : p \in Patterns, u \in durations}
  \cup {Call("unknown", "absent", "absent", "absent")}
CallLists ==
  {<<>>} \cup {<<c>> : c \in CallsWith(Durations)}
  \cup {<<c, d>> : c \in CallsWith({"absent", "null"}), d \in CallsWith(Durations)}

-----------------------------------------------------------------------------
(* CommandLine.                                                            *)

Invocation(name, given, malformed, unknown, words, quotedName, parallel) ==
  [name |-> name, given |-> given, malformed |-> malformed, unknown |-> unknown,
   words |-> words, text |-> ShellQuote(words), quotedName |-> quotedName, parallel |-> parallel]
InitGiven == {"path", "name", "command"}
Words == UNION {[1..n -> {"a", "space", "apostrophe", "quote", "backslash", "newline"}] : n \in 0..2}
         \cup {<<"control">>, <<"a", "control">>}
Invocations ==
  {Invocation("init", InitGiven \cup f, {}, FALSE, ws, FALSE, 1) :
     f \in {{}, {"force"}}, ws \in {<<w>> : w \in Words} \cup {<<<<"a">>, w>> : w \in Words}}
  \cup {Invocation("init", InitGiven, {}, FALSE, <<<<"a">>>>, TRUE, 1),
        Invocation("init", {"path"}, {}, FALSE, <<>>, FALSE, 1),
        Invocation("init", InitGiven, {"cols"}, FALSE, <<>>, FALSE, 1)}
  \cup {Invocation(n, g, {}, u, <<>>, FALSE, 1) :
          n \in {"list", "validate", "search", "install", "none", "demo", "help"},
          g \in {{}, {"recipes"}, {"query"}, {"name"}}, u \in BOOLEAN}
  \cup {Invocation("run", {"recipes"} \cup g, m, FALSE, <<>>, FALSE, n) :
          g \in {{}, {"skip-unchanged", "diff"}, {"skip-unchanged", "update-baselines"}, {"diff"}},
          m \in {{}, {"video-fps"}}, n \in 0..1}

-----------------------------------------------------------------------------
Init ==
  /\ task \in {"grid", "video", "assertions", "layers", "comparison", "reuse", "evidence",
               "recipe", "bridge", "agent", "cast", "selection", "steps", "artifact", "commands",
               "driver"}
  /\ IF task = "grid" THEN \E first \in Lines, second \in {<<>>, <<Chars(<<"a">>)>>} :
                             GridInit(<<first, second>>)
     ELSE interpret = FALSE /\ GridInit(<<>>)
  /\ VideoInit
  /\ IF task = "assertions" THEN AssertionInit(RecipesToJudge, Worlds)
     ELSE AssertionInit({[assertions |-> <<>>, expected |-> {}, cwd |-> ".", absolute |-> {}]},
                        {<<>>})
  /\ IF task = "layers" THEN LayerInit(LayerContents)
     ELSE places = <<>> /\ contents = <<>> /\ nth = 0 /\ merged = Builtin /\ loading = "loaded"
  /\ IF task = "comparison" THEN ComparisonInit(Runs)
     ELSE wording = FALSE /\ ComparisonInit({<<>>})
  /\ IF task = "reuse" THEN ReuseInit ELSE version = (CHOOSE v \in Versions : TRUE) /\ ReuseInit
  /\ IF task = "evidence" THEN EvidenceInit
     ELSE backend = "text" /\ hasUploader = FALSE /\ EvidenceInit
  /\ RecipeInit(IF task = "recipe" THEN RecipeDocuments ELSE {GoodRecipe})
  /\ IF task = "bridge" THEN BridgeInit
     ELSE script = "own" /\ plugin = "plain" /\ BridgeInit
  /\ IF task = "agent" THEN AgentInit(AgentOutputs)
     ELSE context = 0 /\ inside = FALSE /\ AgentInit({<<>>})
  /\ IF task = "cast" THEN CastInit ELSE output = <<>> /\ recorder = NoRecorder /\ CastInit
  /\ IF task = "selection" THEN SelectionInit(Suites, Changes) ELSE SelectionInit({<<>>}, {<<>>})
  /\ IF task = "steps" THEN StepInit(CallLists) ELSE running = FALSE /\ StepInit({<<>>})
  /\ IF task = "artifact" THEN ArtifactInit
     ELSE maker = "svg" /\ tools = {} /\ wanted = FALSE /\ earlier = "none" /\ ArtifactInit
  /\ IF task = "commands" THEN CommandInit ELSE recipeFile = Nowhere /\ CommandInit
  /\ DriverInit

Next ==
  /\ UNCHANGED task
  /\ IF task = "grid" THEN GridStep ELSE UNCHANGED gridVars
  /\ IF task = "video" THEN VideoStep ELSE UNCHANGED videoVars
  /\ IF task = "assertions" THEN Evaluate ELSE UNCHANGED assertionVars
  /\ IF task = "layers" THEN LayerStep ELSE UNCHANGED layerVars
  /\ IF task = "comparison" THEN ComparisonStep ELSE UNCHANGED comparisonVars
  /\ IF task = "reuse" THEN ReuseStep ELSE UNCHANGED reuseVars
  /\ IF task = "evidence" THEN EvidenceNext ELSE UNCHANGED evidenceVars
  /\ IF task = "recipe" THEN RecipeStep ELSE UNCHANGED recipeVars
  /\ IF task = "bridge" THEN BridgeStep ELSE UNCHANGED bridgeVars
  /\ IF task = "agent" THEN AgentStep ELSE UNCHANGED agentVars
  /\ IF task = "cast" THEN CastStep ELSE UNCHANGED castVars
  /\ IF task = "selection" THEN SelectionStep ELSE UNCHANGED selectionVars
  /\ IF task = "steps" THEN RunStep ELSE UNCHANGED stepVars
  /\ IF task = "artifact" THEN ArtifactStep ELSE UNCHANGED artifactVars
  /\ IF task = "commands" THEN Give(Invocations) \/ CreateRecipe \/ Meanwhile ELSE UNCHANGED commandVars
  /\ IF task = "driver" THEN DriverNext ELSE UNCHANGED driverVars

Spec == Init /\ [][Next]_vars

=============================================================================

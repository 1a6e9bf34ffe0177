------------------------------ MODULE Assertions ------------------------------
(***************************************************************************)
(* The built-in assertions of crates/termproof/src/assertions.rs: the list *)
(* a recipe evaluates and the verdict on each of its members.              *)
(*                                                                         *)
(* A member is what a recipe's author wrote, so any key may be missing or  *)
(* of any type. A text (a screen, an output, a file) is the set of the     *)
(* texts it contains; the empty one is in all of them.                     *)
(***************************************************************************)
EXTENDS Integers, Sequences

CONSTANTS
  Strings,   \* the texts a recipe, a screen or a file may hold
  Compiles,  \* the schemas that are schemas
  Accepts    \* the pairs of a schema and an instance it accepts

ASSUME AssertionAssumption == {"", "code", "exit_code"} \subseteq Strings

VARIABLES
  recipe,    \* its assertions, expect_exit_code ({} or one code) and cwd
  facts,     \* screen, output, exit code ({} or one code), files
  verdicts   \* the AssertionResults so far

assertionVars == <<recipe, facts, verdicts>>

\* A JSON value: its type, what str() makes of it, the integers it is equal to.
Value(type, string, integers) == [is |-> type, text |-> string, equals |-> integers]
Absent == Value("absent", "", {})
String(string) == Value("string", string, {})

AssertionOf(type, value, path, schemaPath, schema) ==
  [type |-> type, value |-> value, path |-> path, schema_path |-> schemaPath, schema |-> schema]

Exact(type, code) == AssertionOf(String(type), Value("int", "code", code), Absent, Absent, Absent)

\* The recipe's own, then the one that expect_exit_code stands for.
EvaluatedList ==
  recipe.assertions \o
    (IF recipe.expected = {} THEN <<>> ELSE <<Exact("exit_code", recipe.expected)>>)

-----------------------------------------------------------------------------
(* One outcome: "passed", "failed", or "malformed", which is a failure.    *)

Holds(condition) == IF condition THEN "passed" ELSE "failed"

\* Faulty: a needle that is missing, or is no string, is the empty one.
ContainsLenient(a, haystack, want) ==
  Holds((IF a.value.is = "string" THEN a.value.text ELSE "") \in haystack <=> want)

ContainsText(a, haystack, want) ==
  IF a.value.is # "string" THEN "malformed" ELSE Holds(a.value.text \in haystack <=> want)

\* Python's ==: True is 1, 0.0 is 0, and None is only None.
PythonEq(value, code) ==
  IF code = {} THEN value.is = "null" ELSE code \subseteq value.equals

ExitCodeMatches(a) ==
  IF a.value.is = "absent" THEN "malformed" ELSE Holds(PythonEq(a.value, facts.exit))

\* Lexical: absolute, or joined to the working directory.
RecipePath(string) ==
  IF string \in recipe.absolute THEN <<"", string>> ELSE <<recipe.cwd, string>>

Exists(path) == path \in DOMAIN facts.files
Readable(path) == Exists(path) /\ facts.files[path].is = "file"

FileExists(a) ==
  IF a.value.is = "absent" THEN "malformed" ELSE Holds(Exists(RecipePath(a.value.text)))

\* A file that cannot be read is the empty text.
FileContains(a) ==
  LET path == RecipePath(a.path.text) IN
  IF a.path.is = "absent" \/ a.value.is # "string" THEN "malformed"
  ELSE Holds(a.value.text \in (IF Readable(path) THEN facts.files[path].contains ELSE {""}))

\* resolve_schema and read_schema_file; "none" when there is no schema to be had.
SchemaFile(string) ==
  LET path == RecipePath(string) IN IF Readable(path) THEN facts.files[path].schema ELSE "none"
ResolvedSchema(a) ==
  CASE a.schema_path.is \notin {"absent", "null"} -> SchemaFile(a.schema_path.text)
    [] a.schema_path.is \in {"absent", "null"} /\ a.schema.is = "object" -> a.schema.text
    [] a.schema_path.is \in {"absent", "null"} /\ a.schema.is = "string" ->
         SchemaFile(a.schema.text)
    [] OTHER -> "none"

JsonSchema(a) ==
  IF ResolvedSchema(a) = "none" THEN "malformed"
  ELSE Holds(ResolvedSchema(a) \in Compiles /\ <<ResolvedSchema(a), facts.json>> \in Accepts)

Dispatch(a) ==
  LET kind == a.type.text IN
  IF a.type.is # "string" THEN "malformed"
  ELSE CASE kind = "output_contains" -> ContainsText(a, facts.output, TRUE)
         [] kind = "output_not_contains" -> ContainsText(a, facts.output, FALSE)
         [] kind = "screen_contains" -> ContainsText(a, facts.screen, TRUE)
         [] kind = "screen_not_contains" -> ContainsText(a, facts.screen, FALSE)
         [] kind = "exit_code" -> ExitCodeMatches(a)
         [] kind = "file_exists" -> FileExists(a)
         [] kind = "file_contains" -> FileContains(a)
         [] kind = "json_schema" -> JsonSchema(a)
         [] OTHER -> "malformed"

\* No outcome ends the evaluation.
Evaluate ==
  /\ Len(verdicts) < Len(EvaluatedList)
  /\ verdicts' = Append(verdicts, Dispatch(EvaluatedList[Len(verdicts) + 1]) = "passed")
  /\ UNCHANGED <<recipe, facts>>

AssertionInit(recipes, worlds) ==
  /\ recipe \in recipes /\ facts \in worlds /\ verdicts = <<>>

-----------------------------------------------------------------------------
(* Whatever a recipe may say, judged by whatever a run may have left.      *)

AnyType == {"null", "string", "int", "bool", "float", "list", "object"}
Codes == {{}} \cup {{code} : code \in Int}
AnyValue == [is : AnyType \cup {"absent"}, text : Strings, equals : SUBSET Int]
AnyAssertion == [type : AnyValue, value : AnyValue, path : AnyValue, schema_path : AnyValue,
                 schema : AnyValue]
AnyRecipe == [assertions : Seq(AnyAssertion), expected : Codes, cwd : Strings,
              absolute : SUBSET Strings]
AnyFile == [is : {"file", "directory"}, contains : SUBSET Strings, schema : Strings]
AnyWorld == [screen : SUBSET Strings, output : SUBSET Strings, exit : Codes,
             files : UNION {[ps -> AnyFile] : ps \in SUBSET (Strings \X Strings)}, json : Strings]

AssertionSpec == AssertionInit(AnyRecipe, AnyWorld) /\ [][Evaluate]_assertionVars

-----------------------------------------------------------------------------
(* The keys an assertion needs, each with the types it may have.           *)
Needs ==
  [kind \in {"output_contains", "output_not_contains", "screen_contains",
             "screen_not_contains", "exit_code", "file_exists", "file_contains"} |->
     CASE kind \in {"exit_code", "file_exists"} -> [value |-> AnyType]
       [] kind = "file_contains" -> [value |-> {"string"}, path |-> AnyType]
       [] OTHER -> [value |-> {"string"}]]

WellFormed(a) ==
  /\ a.type.is = "string" /\ a.type.text \in DOMAIN Needs \cup {"json_schema"}
  /\ a.type.text \in DOMAIN Needs =>
       \A key \in DOMAIN Needs[a.type.text] : a[key].is \in Needs[a.type.text][key]
  /\ a.type.text = "json_schema" =>
       a.schema_path.is \in AnyType \ {"null"} \/ a.schema.is \in {"object", "string"}

Negation == [output_contains |-> "output_not_contains", screen_contains |-> "screen_not_contains"]
Opposed(a, b) ==
  /\ a.type.is = "string" /\ b.type.is = "string" /\ a.value = b.value
  /\ a.type.text \in DOMAIN Negation /\ b.type.text = Negation[a.type.text]

\* Whatever the recipe says, evaluation fails closed: only a well-formed assertion passes;
\* one and its negation never agree, or fail both when they are malformed; and the exit
\* code a recipe expects is matched by that code alone, never by there being none.
AssertionsFailClosed ==
  \A i \in 1..Len(verdicts) : LET a == EvaluatedList[i] IN
    /\ verdicts[i] => WellFormed(a)
    /\ \A j \in 1..Len(verdicts) :
         Opposed(a, EvaluatedList[j]) => (verdicts[i] # verdicts[j]) = WellFormed(a)
    /\ i > Len(recipe.assertions) => verdicts[i] = (facts.exit = recipe.expected)

=============================================================================

------------------------------ MODULE RecipeFile ------------------------------
(***************************************************************************)
(* The three readers of a recipe document: validation.rs checks its value  *)
(* before anything is made of it, recipe.rs makes the typed recipe, and    *)
(* runner.rs makes the recipe of models.rs that is run. A document gives   *)
(* every field a value, of which only its kind matters.                    *)
(***************************************************************************)
EXTENDS Naturals, FiniteSets

VARIABLES document, reading, issues, typed, loaded

recipeVars == <<document, reading, issues, typed, loaded>>

\* "null" is written out, "wide" is past u16 and "huge" past u32; "float" is 1.0; a "known" text names
\* a configured plugin; "map" and "texts" are well formed for their field,
\* "mixed" is a list of texts and other scalars, "nested" a list with a list in it.
WholeNumbers == {"minus", "zero", "one", "wide", "huge"}
Scalars == WholeNumbers \cup {"null", "float", "bool"}
ValueKinds == Scalars \cup
          {"absent", "text", "known", "texts", "mixed", "nested", "map"}

-----------------------------------------------------------------------------
(* The structs, and what serde and the schema generated from them accept.  *)

Needed(type) == [type |-> type, default |-> FALSE, option |-> FALSE]
Defaulted(type) == [type |-> type, default |-> TRUE, option |-> FALSE]
Optional(type) == [type |-> type, default |-> TRUE, option |-> TRUE]

CommandFields == [argv |-> Needed("texts"), cwd |-> Optional("text"),
                  env |-> Defaulted("map"), pty |-> Defaulted("bool")]
StepFields == [action |-> Needed("text"), step_name |-> Optional("text"),
               step_timeout |-> Optional("f64")]
AssertionFields == [kind |-> Needed("text"), assertion_name |-> Optional("text")]
RecipeFields == [recipe_version |-> Defaulted("u32"), name |-> Needed("text"),
                 description |-> Defaulted("text"), intent |-> Defaulted("text"),
                 priority |-> Defaulted("text"), execution |-> Defaulted("text"),
                 determinism |-> Defaulted("text"), ci_paths |-> Defaulted("texts"),
                 checks |-> Defaulted("texts"), operator |-> Defaulted("map"),
                 renderers |-> Defaulted("map"), expect_exit_code |-> Optional("i32"),
                 timeout_seconds |-> Defaulted("f64"),
                 cols |-> Defaulted("u32"), rows |-> Defaulted("u32")]

Join(f, g) == [x \in DOMAIN f \cup DOMAIN g |-> IF x \in DOMAIN f THEN f[x] ELSE g[x]]
Typed == Join(Join(RecipeFields, CommandFields), Join(StepFields, AssertionFields))
Fields == DOMAIN Typed
Documents == [Fields -> ValueKinds]

\* The runner's own structs: narrower sizes, and what they do not name, or
\* leave as it is, may hold anything.
Untouched == DOMAIN StepFields \cup DOMAIN AssertionFields \cup
             {"determinism", "ci_paths", "renderers"}
Runnable ==
  [f \in Fields |-> IF f \in Untouched THEN [Optional("value") EXCEPT !.default = TRUE]
                    ELSE IF f \in {"cols", "rows"} THEN Defaulted("u16") ELSE Typed[f]]

OfType(type) ==
  CASE type = "text" -> {"text", "known"}
    [] type = "u16" -> {"zero", "one"}
    [] type = "u32" -> {"zero", "one", "wide"}
    [] type = "i32" -> {"minus", "zero", "one", "wide"}
    [] type = "f64" -> WholeNumbers \cup {"float"}
    [] type = "value" -> ValueKinds
    [] OTHER -> {type}
FieldAccepts(field, v) ==
  \/ v = "absent" /\ field.default
  \/ v = "null" /\ field.option
  \/ v \notin {"absent", "null"} /\ v \in OfType(field.type)

\* YAML reads any scalar as a text where a text is asked for. A JSON text is YAML as
\* well, so a document that fails as JSON is read a second time this way.
YamlAccepts(field, v) ==
  \/ FieldAccepts(field, v)
  \/ field.type = "text" /\ v \in Scalars
  \/ field.type = "texts" /\ v = "mixed"

\* JSON Schema knows no sizes, and takes 1.0 for an integer.
SchemaAllows(field, v) ==
  \/ FieldAccepts(field, v)
  \/ field.type = "u32" /\ v \in {"huge", "float"}
  \/ field.type = "i32" /\ v \in {"huge", "float"}

-----------------------------------------------------------------------------
(* validate_recipe_value.                                                  *)

IssueAt(f) == [severity |-> "error", path |-> f]

VersionIssues(d) ==
  IF d["recipe_version"] = "absent" THEN {[severity |-> "warning", path |-> "recipe_version"]}
  ELSE {IssueAt("recipe_version") : x \in {d["recipe_version"]} \ {"one"}}

NeverTyped == {"description", "intent", "step_name", "assertion_name"}
NullTolerant == {"priority", "execution", "determinism", "timeout_seconds", "cols", "rows",
                 "checks", "ci_paths", "operator", "renderers", "description", "intent",
                 "cwd", "pty"}
\* Faulty: the name is looked up and the value is not.
ToleratedByName(d, f) == f \in NeverTyped \cup NullTolerant

LegacyTolerated(d, f) == f \in NeverTyped \/ (d[f] = "null" /\ f \in NullTolerant)

LegacyIntOwned == {"cols", "rows", "expect_exit_code"}
SchemaIssues(d) ==
  {IssueAt(f) : f \in {f \in Fields \ ({"recipe_version"} \cup LegacyIntOwned) :
                       ~SchemaAllows(Typed[f], d[f]) /\ ~LegacyTolerated(d, f)}}

LegacyIntIssues(d) ==
  {IssueAt(f) : f \in {f \in {"cols", "rows"} :
                       d[f] \notin {"absent", "null", "one", "wide", "huge"}}}
  \cup {IssueAt(f) : f \in {f \in {"expect_exit_code"} :
                       d[f] \notin {"absent", "null"} \cup WholeNumbers}}

PluginIssues(d) == {IssueAt(f) : f \in {f \in {"action", "kind"} : d[f] = "text"}}

-----------------------------------------------------------------------------
RecipeInit(documents) ==
  /\ document \in documents
  /\ reading = "validate" /\ issues = {} /\ typed = FALSE /\ loaded = FALSE

ValidateRecipeValue ==
  /\ reading = "validate" /\ reading' = "typed"
  /\ issues' = VersionIssues(document) \cup SchemaIssues(document)
               \cup LegacyIntIssues(document) \cup PluginIssues(document)
  /\ UNCHANGED <<document, typed, loaded>>

FromStr ==
  /\ reading = "typed" /\ reading' = "loaded"
  /\ typed' = \/ \A f \in Fields : FieldAccepts(Typed[f], document[f])
              \/ \A f \in Fields : YamlAccepts(Typed[f], document[f])
  /\ UNCHANGED <<document, issues, loaded>>

FromFile ==
  /\ reading = "loaded" /\ reading' = "read"
  /\ loaded' = \A f \in Fields : FieldAccepts(Runnable[f], document[f])
  /\ UNCHANGED <<document, issues, typed>>

RecipeStep == ValidateRecipeValue \/ FromStr \/ FromFile

RecipeSpec == RecipeInit(Documents) /\ [][RecipeStep]_recipeVars

HasErrors == \E i \in issues : i.severity = "error"

-----------------------------------------------------------------------------
\* What the readers disagree about is known: of a recipe that the typed loader takes,
\* validation refuses only the version, the dimensions, a plugin nobody configured, or
\* another scalar that YAML read as a text; a field that validation lets through and the
\* typed loader does not take is a null, an untyped text or a number without its size; and
\* what both take the runner takes too, unless its dimensions are wider than a terminal's
\* or YAML read a scalar of it as a text.
ReadersAgree ==
  reading = "read" =>
    /\ typed => \A i \in issues : i.severity = "error" =>
         \/ i.path = "recipe_version" /\ document[i.path] # "one"
         \/ i.path \in {"cols", "rows"} /\ document[i.path] = "zero"
         \/ i.path \in {"action", "kind"} /\ document[i.path] # "known"
         \/ Typed[i.path].type = "text" /\ document[i.path] \in Scalars
         \/ Typed[i.path].type = "texts" /\ document[i.path] = "mixed"
    /\ ~HasErrors => \A f \in Fields :
         \/ YamlAccepts(Typed[f], document[f])
         \/ document[f] = "null" /\ f \in NullTolerant
         \/ f \in NeverTyped /\ document[f] \in {"texts", "mixed", "nested", "map"}
         \/ document[f] = "huge" /\ Typed[f].type \in {"u32", "i32"}
    /\ ~HasErrors /\ typed =>
         \/ loaded
         \/ \E f \in {"cols", "rows"} : document[f] = "wide"
         \/ \E f \in NeverTyped \cup NullTolerant :
              document[f] \in Scalars /\ Typed[f].type = "text"

===============================================================================

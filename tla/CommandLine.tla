------------------------------ MODULE CommandLine ------------------------------
(***************************************************************************)
(* The commands of crates/termproof-cli other than what run does with its  *)
(* recipes (Batch): what cli.rs accepts, what main.rs makes of it, and the *)
(* recipe that init leaves in a directory where others may write too.      *)
(***************************************************************************)
EXTENDS Naturals, Sequences, SequencesExt

CONSTANT MaxCommands   \* bound on the commands that are given

VARIABLES
  recipeFile,  \* the file init writes
  commandsRun, \* how many commands were given
  command,     \* the last of them
  creating,    \* it is an init that has looked for the file and has not written it
  found,      \* history: the file when it was given
  exitStatus   \* the exit code of the last that is over

commandVars == <<recipeFile, commandsRun, command, creating, found, exitStatus>>

SUCCESS == 0
FAILURE == 1
USAGE == 2

-----------------------------------------------------------------------------
(* cli.rs: of each command, what it needs and which options are numbers.   *)

RunOptions == [needs |-> {"recipes"}, numbers |-> {"video-fps", "parallel"}]
ListOptions == [needs |-> {"recipes"}, numbers |-> {}]
ValidateOptions == [needs |-> {"recipes"}, numbers |-> {}]
PluginsOptions ==
  [list |-> [needs |-> {}, numbers |-> {}],
   search |-> [needs |-> {"query"}, numbers |-> {}],
   install |-> [needs |-> {"name"}, numbers |-> {}],
   none |-> [needs |-> {"subcommand"}, numbers |-> {}]]
InitOptions == [needs |-> {"path", "name", "command"}, numbers |-> {"cols", "rows"}]
DemoOptions == [needs |-> {}, numbers |-> {"video-fps"}]

OptionsOf(c) ==
  CASE c.name = "run" -> RunOptions
    [] c.name = "list" -> ListOptions
    [] c.name = "validate" -> ValidateOptions
    [] c.name \in DOMAIN PluginsOptions -> PluginsOptions[c.name]
    [] c.name = "init" -> InitOptions
    [] c.name = "demo" -> DemoOptions
    [] OTHER -> PluginsOptions.none

\* An option clap does not know, a needed one that is missing, a number that is none.
Accepted(c) ==
  /\ ~c.unknown
  /\ OptionsOf(c).needs \subseteq c.given
  /\ c.malformed \cap OptionsOf(c).numbers = {}

-----------------------------------------------------------------------------
(* Words: what init reads the command as.                                  *)

Spaces == {"space", "newline"}
Ordinary == [word |-> <<>>, words |-> <<>>, single |-> FALSE, double |-> FALSE, escaped |-> FALSE]

EndWord(s) == IF s.word = <<>> THEN s ELSE [s EXCEPT !.words = Append(@, s.word), !.word = <<>>]

ReadChar(s, ch) ==
  IF s.escaped THEN [s EXCEPT !.word = Append(@, ch), !.escaped = FALSE]
  ELSE IF ch = "backslash" /\ ~s.single THEN [s EXCEPT !.escaped = TRUE]
  ELSE IF ch = "apostrophe" /\ ~s.double THEN [s EXCEPT !.single = ~@]
  ELSE IF ch = "quote" /\ ~s.single THEN [s EXCEPT !.double = ~@]
  ELSE IF ch \in Spaces /\ ~s.single /\ ~s.double THEN EndWord(s)
  ELSE [s EXCEPT !.word = Append(@, ch)]

ReadAll(s, text) ==
  LET After[n \in 0..Len(text)] == IF n = 0 THEN s ELSE ReadChar(After[n - 1], text[n])
  IN  After[Len(text)]
ShellWords(text) == EndWord(ReadAll(Ordinary, text)).words

\* What the prompt of an agent shows a command as (agent.rs); a person may copy it.
QuotedChar(ch) ==
  IF ch = "apostrophe" THEN <<"apostrophe", "backslash", "apostrophe", "apostrophe">> ELSE <<ch>>
Quoted(word) ==
  IF \E i \in 1..Len(word) : word[i] \in {"space", "quote", "apostrophe"}
  THEN <<"apostrophe">> \o FlattenSeq([i \in 1..Len(word) |-> QuotedChar(word[i])])
         \o <<"apostrophe">>
  ELSE word
ShellQuote(argv) ==
  FlattenSeq([i \in 1..Len(argv) |-> (IF i = 1 THEN <<>> ELSE <<"space">>) \o Quoted(argv[i])])

-----------------------------------------------------------------------------
(* main.rs.                                                                *)

Nowhere == [is |-> "none"]
Theirs == [is |-> "theirs"]
HalfWritten == [is |-> "cut"]
Garbled == [is |-> "garbled"]

CommandInit ==
  /\ recipeFile \in {Nowhere, Theirs}
  /\ commandsRun = 0 /\ command = "none" /\ creating = FALSE
  /\ found = recipeFile /\ exitStatus = SUCCESS

Exit(code) == exitStatus' = code /\ creating' = FALSE
KeepRecipe == UNCHANGED recipeFile

RefusedCommand(c) ==
  \/ ~Accepted(c)
  \/ c.name = "run" /\ (c.parallel < 1 \/ {"skip-unchanged", "diff"} \subseteq c.given
                        \/ {"skip-unchanged", "update-baselines"} \subseteq c.given)

\* Faulty: looks only for what it would force.
InitOverwrites(c) == KeepRecipe /\ creating' = TRUE /\ UNCHANGED exitStatus

HandleInit(c) ==
  /\ KeepRecipe
  /\ \/ recipeFile # Nowhere /\ "force" \notin c.given /\ Exit(FAILURE)
     \/ /\ recipeFile = Nowhere \/ "force" \in c.given
        /\ creating' = TRUE /\ UNCHANGED exitStatus

\* The name is written between quotes as it is. The words are written as Debug writes them:
\* a quote, a backslash and a newline as JSON has them, so that they are read back, but a
\* character that cannot be printed in a form that no reader of JSON or YAML takes.
Written(c) ==
  LET argv == ShellWords(c.text)
      printable == \A i \in 1..Len(argv) : \A j \in 1..Len(argv[i]) : argv[i][j] # "control"
  IN  IF c.quotedName \/ ~printable THEN Garbled ELSE [is |-> "recipe", argv |-> argv]

\* The file is opened and filled, whatever it is by now; a write that fails may have begun.
CreateRecipe ==
  /\ creating
  /\ \/ KeepRecipe /\ Exit(FAILURE)
     \/ recipeFile' = HalfWritten /\ Exit(FAILURE)
     \/ recipeFile' = Written(command) /\ Exit(SUCCESS)
  /\ UNCHANGED <<commandsRun, command, found>>

\* Whether the paths exist is all that is looked at.
HandleValidate == KeepRecipe /\ Exit(IF recipeFile = Nowhere THEN FAILURE ELSE SUCCESS)

\* These only say what they were asked to do.
HandleList == KeepRecipe /\ Exit(SUCCESS)
HandlePlugins == KeepRecipe /\ Exit(SUCCESS)
HandleDemo == KeepRecipe /\ Exit(SUCCESS)

Handle(c) ==
  IF c.name \in {"help", "version"} THEN KeepRecipe /\ Exit(SUCCESS)
  ELSE IF RefusedCommand(c) THEN KeepRecipe /\ Exit(USAGE)
  ELSE CASE c.name = "init" -> HandleInit(c)
         [] c.name = "validate" -> HandleValidate
         [] c.name = "run" -> KeepRecipe /\ \E code \in {SUCCESS, FAILURE} : Exit(code)
         [] c.name = "list" -> HandleList
         [] c.name = "demo" -> HandleDemo
         [] OTHER -> HandlePlugins

Give(commands) ==
  /\ commandsRun < MaxCommands /\ commandsRun' = commandsRun + 1 /\ ~creating
  /\ found' = recipeFile
  /\ \E c \in commands : command' = c /\ Handle(c)

\* Somebody writes or removes the file, between two commands or while one runs.
Meanwhile ==
  /\ commandsRun < MaxCommands \/ creating
  /\ recipeFile' \in {Nowhere, Theirs} \ {recipeFile}
  /\ UNCHANGED <<commandsRun, command, creating, found, exitStatus>>

-----------------------------------------------------------------------------
\* Words that are read back: a word that is empty vanishes, and one that is not quoted is
\* read with its backslashes and ends at a line.
ReadBack(word) ==
  word # <<>> /\ (Quoted(word) = word => \A i \in 1..Len(word) : word[i] \notin {"backslash", "newline"})
CanBePrinted(word) == \A i \in 1..Len(word) : word[i] # "control"

\* No command changes the file but an init that writes it, which without force does so
\* only if there was no file when it was given: one that came since, while it was between
\* its look and its write, is replaced. A failure means that nothing or less than a recipe
\* was written; a success, if the name and the words can be written, that the recipe runs
\* the command that was given, word by word. What validate has passed was there.
CommandsKeepFiles ==
  [][/\ commandsRun' # commandsRun =>
          LET c == command' IN
          /\ recipeFile' = recipeFile
          /\ c.name = "validate" /\ exitStatus' = SUCCESS => recipeFile # Nowhere
          /\ c.name = "run" /\ (c.parallel = 0 \/ {"skip-unchanged", "diff"} \subseteq c.given) =>
               exitStatus' = USAGE
     /\ creating /\ ~creating' =>
          /\ command.name = "init" /\ ("force" \in command.given \/ found = Nowhere)
          /\ exitStatus' = FAILURE => recipeFile' \in {recipeFile, HalfWritten}
          /\ exitStatus' = SUCCESS /\ ~command.quotedName
             /\ (\A i \in 1..Len(command.words) :
                   ReadBack(command.words[i]) /\ CanBePrinted(command.words[i])) =>
               recipeFile' = [is |-> "recipe", argv |-> command.words]]_commandVars

===============================================================================

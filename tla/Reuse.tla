-------------------------------- MODULE Reuse --------------------------------
(***************************************************************************)
(* What one verification leaves for later ones: the run cache of           *)
(* crates/termproof/src/cache.rs and the visual baselines of               *)
(* crates/termproof/src/evidence/diff.rs. Both are found under the         *)
(* sanitized names of a recipe and renderer, which several may share.      *)
(* The files a recipe reads change between verifications.                  *)
(***************************************************************************)
EXTENDS Naturals, Sequences, FiniteSets

CONSTANTS
  Recipes,   \* a recipe under a renderer
  Slug,      \* from each of them to its sanitized name
  Versions,  \* of the recipes' files and of the one file that a recipe depends on (ci_paths)
  Bytes,     \* what a file and a cache key are made of; a file may also be:
  NoFile, Unreadable,
  MissingText,        \* "<missing>"
  SourcePath, Options, \* of each recipe: the text of its path, and of what it is run with
  DataPath,           \* the path of the file it depends on
  Images,
  MaxDiffs,  \* bound on the visual diffs applied to a result
  Nil        \* no file, no entry, no result

VARIABLES
  version, shots,   \* the screenshot on the disk for each recipe
  cache, baselines,
  result,           \* the RunResult in hand; history: the files it was made with (ran)
  asked, key        \* the recipe it is for, and its cache key, Nil for none

reuseVars == <<version, shots, cache, baselines, result, asked, key>>

Contents == Seq(Bytes) \cup {NoFile, Unreadable}

ASSUME ReuseAssumption ==
  /\ Versions \subseteq [recipes : [Recipes -> Contents], data : Contents]
  /\ {NoFile, Unreadable, Nil} \cap Seq(Bytes) = {} /\ NoFile # Unreadable
  /\ MissingText \in Seq(Bytes) /\ DataPath \in Seq(Bytes)
  /\ SourcePath \in [Recipes -> Seq(Bytes)] /\ Options \in [Recipes -> Seq(Bytes)]

Slugs == {Slug[r] : r \in Recipes}

ReuseInit ==
  /\ version \in Versions
  /\ shots = [r \in Recipes |-> Nil]
  /\ cache = [s \in Slugs |-> Nil] /\ baselines = [s \in Slugs |-> Nil]
  /\ result = Nil /\ asked = Nil /\ key = Nil

\* What cache_key hashes of a file: of one that cannot be read nothing, as of an empty one,
\* and of one that is not there a text that another may have.
Fed(content) ==
  CASE content = NoFile -> MissingText [] content = Unreadable -> <<>> [] OTHER -> content

\* It hashes one text after another, and two cut differently are the same. (That SHA-256
\* differs for different texts is assumed.) There is no key without a readable recipe.
CacheKeyAt(r, files) ==
  IF files.recipes[r] = Unreadable THEN Nil
  ELSE SourcePath[r] \o Fed(files.recipes[r]) \o DataPath \o Fed(files.data) \o Options[r]
CacheKey(r) == CacheKeyAt(r, version)

AllTrue(verdicts) == \A i \in 1..Len(verdicts) : verdicts[i]
\* score_from_assertions as passed of all.
Score(verdicts) ==
  [passed |-> Cardinality({i \in 1..Len(verdicts) : verdicts[i]}), of |-> Len(verdicts)]

\* The runner: a verdict, its score and the screenshot, if one could be made.
Verify(r) ==
  /\ result = Nil
  /\ \E stepsPassed, asserted \in BOOLEAN, image \in Images \cup {Nil} :
       /\ shots' = [shots EXCEPT ![r] = image]
       /\ result' = [recipe |-> r, passed |-> stepsPassed /\ asserted, steps |-> stepsPassed,
                     verdicts |-> <<asserted>>, score |-> Score(<<asserted>>),
                     screenshot |-> image # Nil, diffs |-> 0, ran |-> version]
  /\ asked' = r /\ key' = CacheKey(r)
  /\ UNCHANGED <<version, cache, baselines>>

\* Faulty: whatever is found under the name.
LoadCachedByName(r) ==
  /\ result = Nil /\ CacheKey(r) # Nil /\ cache[Slug[r]] # Nil
  /\ LET entry == cache[Slug[r]] IN
     /\ entry.result.screenshot => shots[entry.result.recipe] # Nil
     /\ result' = entry.result
  /\ asked' = r /\ key' = CacheKey(r)
  /\ UNCHANGED <<version, shots, cache, baselines>>

\* A hit; everything else is a miss, and changes nothing.
LoadCached(r) ==
  /\ result = Nil /\ CacheKey(r) # Nil /\ cache[Slug[r]] # Nil
  /\ LET entry == cache[Slug[r]] IN
     /\ entry.key = CacheKey(r) /\ entry.result.passed
     /\ entry.result.screenshot => shots[entry.result.recipe] # Nil
     /\ result' = entry.result
  /\ asked' = r /\ key' = CacheKey(r)
  /\ UNCHANGED <<version, shots, cache, baselines>>

\* Only a passing result is stored, over what another one left.
StoreCached ==
  /\ result # Nil /\ result.passed /\ key # Nil
  /\ cache' = [cache EXCEPT ![Slug[result.recipe]] = [key |-> key, result |-> result]]
  /\ UNCHANGED <<version, shots, baselines, result, asked, key>>

\* What another binary or a broken disk left under a name does not read as a result.
LoseEntry(s) ==
  /\ cache[s] # Nil
  /\ cache' = [cache EXCEPT ![s] = Nil]
  /\ UNCHANGED <<version, shots, baselines, result, asked, key>>

-----------------------------------------------------------------------------
(* apply_visual_diff.                                                      *)

CanDiff == result # Nil /\ result.diffs < MaxDiffs
Baseline == Slug[result.recipe]

\* A mismatch fails the result; a match leaves its verdict.
Judged(matched) ==
  LET verdicts == Append(result.verdicts, matched) IN
  result' = [result EXCEPT !.verdicts = verdicts, !.score = Score(verdicts), !.diffs = @ + 1,
                           !.passed = @ /\ matched]

NoScreenshot ==
  /\ CanDiff /\ ~result.screenshot
  /\ Judged(FALSE)
  /\ UNCHANGED <<version, shots, cache, baselines, asked, key>>

\* A copy that fails, as of a screenshot that is gone, goes unnoticed.
UpdateBaseline ==
  /\ CanDiff /\ result.screenshot
  /\ Judged(TRUE)
  /\ \/ shots[result.recipe] # Nil /\ baselines' = [baselines EXCEPT ![Baseline] = shots[result.recipe]]
     \/ UNCHANGED baselines
  /\ UNCHANGED <<version, shots, cache, asked, key>>

\* screenshots_match: pixels, or bytes; of the two at least the baseline is there.
Compare ==
  /\ CanDiff /\ result.screenshot
  /\ Judged(baselines[Baseline] # Nil /\ baselines[Baseline] = shots[result.recipe])
  /\ UNCHANGED <<version, shots, cache, baselines, asked, key>>

-----------------------------------------------------------------------------
(* Between verifications.                                                  *)

Report ==
  /\ result # Nil
  /\ result' = Nil /\ asked' = Nil /\ key' = Nil
  /\ UNCHANGED <<version, shots, cache, baselines>>

Edit ==
  /\ result = Nil
  /\ version' \in Versions
  /\ UNCHANGED <<shots, cache, baselines, result, asked, key>>

Clean(r) ==
  /\ shots[r] # Nil
  /\ shots' = [shots EXCEPT ![r] = Nil]
  /\ UNCHANGED <<version, cache, baselines, result, asked, key>>

ReuseStep ==
  \/ \E r \in Recipes : Verify(r) \/ LoadCached(r) \/ Clean(r)
  \/ StoreCached \/ (\E s \in Slugs : LoseEntry(s))
  \/ NoScreenshot \/ UpdateBaseline \/ Compare \/ Report \/ Edit

ReuseSpec == ReuseInit /\ [][ReuseStep]_reuseVars

\* A key does not tell these apart.
Alike(content, other) == Fed(content) = Fed(other)

\* A verdict in hand is backed: one that passed has no failed step or assertion and the full
\* score, and one that failed has a reason. One from the cache was earned by a run with
\* files of the same key, whatever shares its name there; where that was of the same recipe,
\* unedited, what it depends on was the same then as it is now, or one time unreadable and
\* the other empty, or not there and saying so. The same after a visual diff.
VerdictIsBacked ==
  result # Nil =>
    /\ result.passed <=> result.steps /\ AllTrue(result.verdicts)
    /\ result.passed => result.score.passed = result.score.of
    /\ result.score = Score(result.verdicts)
    /\ result.passed /\ key # Nil =>
         /\ key = CacheKey(asked) /\ key = CacheKeyAt(result.recipe, result.ran)
         /\ result.recipe = asked /\ result.ran.recipes[asked] = version.recipes[asked] =>
              \/ result.ran.data = version.data
              \/ /\ {result.ran.data, version.data} \cap {NoFile, Unreadable} # {}
                 /\ Alike(result.ran.data, version.data)

=============================================================================

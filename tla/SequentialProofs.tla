--------------------------- MODULE SequentialProofs ---------------------------
(***************************************************************************)
(* What holds of components that one caller at a time works through, for   *)
(* every number of captures, lines, exchanges, recipes and diffs: the      *)
(* files of the evidence, the Python bridge, a verdict found again, the    *)
(* evidence of a run and its film, the readers of a recipe, the built-in   *)
(* assertions, and the steps and their arguments. They share no state:     *)
(* each theorem is of one component's own specification.                   *)
(***************************************************************************)
EXTENDS Artifacts, PythonBridge, Reuse, Evidence, CastVideo, RecipeFile, Assertions,
        StepArguments, FiniteSetTheorems, SequenceTheorems, TLAPS

-----------------------------------------------------------------------------
(* Artifacts: who is at which place, and what it has touched by then.      *)

ArtifactTypes ==
  /\ maker \in Atomic \cup {"screenshot", "mp4"} /\ wanted \in BOOLEAN
  /\ earlier \in {"none", "old"}
  /\ target \in {"none", "old", "damaged", "new"} /\ between \in {"none", "part", "whole"}
  /\ making \in {"called", "filling", "persisting", "persisting_again", "renamed",
                 "rasterizing", "agg", "ffmpeg"}
  /\ made \in {"nothing_yet", "ok", "skipped", "error", "killed"}

Places ==
  /\ making \in {"persisting", "persisting_again", "renamed"} => maker \in Atomic
  /\ making = "renamed" <=> maker \in Atomic /\ target = "new"
  /\ making = "filling" => maker \in Atomic \cup {"screenshot"}
  /\ making = "rasterizing" => maker = "screenshot"
  /\ making \in {"agg", "ffmpeg"} => maker = "mp4" /\ wanted /\ {"agg", "ffmpeg"} \subseteq tools
  /\ making \in {"called", "filling", "persisting", "agg"} => target = earlier
  /\ making = "persisting_again" => target \in {earlier, "none"}
  /\ made = "ok" => making \in {"renamed", "rasterizing", "ffmpeg"}
  /\ making = "renamed" => between = "none"
  /\ made = "nothing_yet" /\ making = "called" => between = "none"

ArtifactsInv == ArtifactTypes /\ Places /\ ArtifactsAreWhole

\* What evidence/render.rs, screenshot.rs and video.rs leave at a path is whole wherever they
\* report that it is, and one renamed into place is the old or the whole new one always, but
\* between a renaming that failed and the next.
THEOREM ArtifactsAlwaysWhole == ArtifactSpec => []ArtifactsAreWhole
<1> USE DEF ArtifactTypes, Places, ArtifactsAreWhole, Atomic, call
<1>1. ArtifactInit => ArtifactsInv
  BY DEF ArtifactInit, ArtifactsInv
<1>2. ArtifactsInv /\ [ArtifactStep]_artifactVars => ArtifactsInv'
  <2> SUFFICES ASSUME ArtifactsInv, [ArtifactStep]_artifactVars PROVE ArtifactsInv'
    OBVIOUS
  <2> USE DEF ArtifactsInv, At, Proceed, Return
  <2>1. CASE GiveUp
    BY <2>1 DEF GiveUp
  <2>2. CASE CreateTemporary
    BY <2>2 DEF CreateTemporary
  <2>3. CASE Fill
    BY <2>3 DEF Fill
  <2>4. CASE Persist
    BY <2>4 DEF Persist
  <2>5. CASE PersistFails
    BY <2>5 DEF PersistFails
  <2>6. CASE PersistFailsAgain
    BY <2>6 DEF PersistFailsAgain
  <2>7. CASE Rasterize
    BY <2>7 DEF Rasterize
  <2>8. CASE RasterizeFails
    BY <2>8 DEF RasterizeFails
  <2>9. CASE SkipVideo
    BY <2>9 DEF SkipVideo
  <2>10. CASE ResolveTools
    BY <2>10 DEF ResolveTools
  <2>11. CASE RunAgg
    BY <2>11 DEF RunAgg
  <2>12. CASE RunFfmpeg
    BY <2>12 DEF RunFfmpeg
  <2>13. CASE Killed
    BY <2>13 DEF Killed
  <2>15. CASE Persisted
    BY <2>15 DEF Persisted
  <2>16. CASE ToolWrites
    BY <2>16 DEF ToolWrites
  <2>14. CASE UNCHANGED artifactVars
    BY <2>14 DEF artifactVars
  <2> QED
    BY <2>1, <2>2, <2>3, <2>4, <2>5, <2>6, <2>7, <2>8, <2>9, <2>10, <2>11, <2>12, <2>13,
       <2>14, <2>15, <2>16 DEF ArtifactStep
<1>3. ArtifactsInv => ArtifactsAreWhole
  BY DEF ArtifactsInv
<1> QED
  BY <1>1, <1>2, <1>3, PTL DEF ArtifactSpec

-----------------------------------------------------------------------------
(* PythonBridge: how far Python is while the bridge is where it is.        *)

Exchanged == [request : Requests, answer : {"load_error", "error", "result"}]

BridgeTypes ==
  /\ script \in {"embedded"} \cup Own /\ plugin \in Plugins
  /\ bridge \in {"spawning", "starting", "shaking", "live", "refused", "dropped"}
  /\ python \in {"none", "importing", "failed", "waiting", "serving", "exited"}
  /\ exchanges \in Seq(Exchanged)

Lifetimes ==
  /\ bridge = "spawning" => python = "none" /\ (onDisk <=> script \in Own)
  /\ bridge = "starting" => python = "none" /\ onDisk
  /\ bridge \in {"shaking", "live"} => python # "none" /\ onDisk
  /\ bridge = "refused" => python \in {"none", "exited"}
  /\ bridge = "live" => python # "importing"
  /\ python = "failed" => plugin = "missing"
  /\ python \in {"waiting", "serving"} => plugin # "missing" /\ offered # {}
  /\ python \in {"none", "importing"} => exchanges = <<>>

BridgeInv == BridgeTypes /\ Lifetimes /\ BridgeFailsClosed

\* A bridge whose plugin could not be imported answers no call with a result, and one that
\* was dropped leaves neither Python nor its script, however many calls are made.
THEOREM BridgeAlwaysFailsClosed == BridgeSpec => []BridgeFailsClosed
<1> USE DEF BridgeTypes, Lifetimes, BridgeFailsClosed, Own, Plugins
<1>1. BridgeInit => BridgeInv
  <2> SUFFICES ASSUME BridgeInit PROVE BridgeInv
    OBVIOUS
  <2>1. onDisk <=> script \in Own
    BY Zenon DEF BridgeInit
  <2>2. exchanges = <<>> /\ 1..Len(exchanges) = {} /\ exchanges \in Seq(Exchanged)
    BY DEF BridgeInit
  <2>3. script = "own" => onDisk
    BY <2>1
  <2>4. /\ script \in {"embedded"} \cup Own /\ plugin \in Plugins
        /\ bridge = "spawning" /\ python = "none"
    BY DEF BridgeInit
  <2>5. BridgeTypes
    BY <2>2, <2>4
  <2>6. Lifetimes
    BY <2>1, <2>2, <2>4
  <2>7. BridgeFailsClosed
    BY <2>2, <2>3, <2>4
  <2> QED
    BY <2>5, <2>6, <2>7 DEF BridgeInv
<1>2. BridgeInv /\ [BridgeStep]_bridgeVars => BridgeInv'
  <2> SUFFICES ASSUME BridgeInv, [BridgeStep]_bridgeVars PROVE BridgeInv'
    OBVIOUS
  <2> USE DEF BridgeInv
  <2>1. CASE UseOwnScript
    BY <2>1 DEF UseOwnScript
  <2>2. CASE WriteEmbeddedBridge
    BY <2>2 DEF WriteEmbeddedBridge
  <2>3. CASE StartPython
    BY <2>3 DEF StartPython
  <2>4. CASE Handshake
    BY <2>4 DEF Handshake
  <2>5. CASE HandshakeFails
    BY <2>5 DEF HandshakeFails
  <2>6. CASE LoadFails
    BY <2>6 DEF LoadFails
  <2>7. CASE LoadExits
    BY <2>7 DEF LoadExits
  <2>8. CASE LoadPlugin
    BY <2>8 DEF LoadPlugin
  <2>9. CASE ReadReady
    BY <2>9 DEF ReadReady
  <2>10. CASE Exchange
    <3>1. PICK request \in Requests :
            exchanges' = Append(exchanges, [request |-> request, answer |-> Answer(request)])
      BY <2>10 DEF Exchange
    <3>2. Answer(request) \in {"load_error", "error", "result"}
      BY DEF Answer
    <3>3. exchanges' \in Seq(Exchanged)
      BY <3>1, <3>2 DEF Exchanged
    <3>4. Answer(request) = "result" => offered # {}
      BY <2>10 DEF Exchange, Answer
    <3>5. plugin = "missing" => Answer(request) = "load_error"
      BY <2>10 DEF Exchange, Answer
    <3>6. \A i \in 1..Len(exchanges') :
            exchanges'[i].answer = (IF i = Len(exchanges) + 1 THEN Answer(request)
                                    ELSE exchanges[i].answer)
      BY <3>1
    <3>7. Len(exchanges') = Len(exchanges) + 1 /\ Len(exchanges) \in Nat
      BY <3>1
    <3> QED
      BY <2>10, <3>3, <3>4, <3>5, <3>6, <3>7 DEF Exchange
  <2>11. CASE DropBridge
    BY <2>11 DEF DropBridge, Marked
  <2>12. CASE UNCHANGED bridgeVars
    BY <2>12 DEF bridgeVars
  <2> QED
    BY <2>1, <2>2, <2>3, <2>4, <2>5, <2>6, <2>7, <2>8, <2>9, <2>10, <2>11, <2>12
    DEF BridgeStep
<1>3. BridgeInv => BridgeFailsClosed
  BY DEF BridgeInv
<1> QED
  BY <1>1, <1>2, <1>3, PTL DEF BridgeSpec

-----------------------------------------------------------------------------
(* Reuse: a cached verdict was earned with files of the key it has.         *)

Keys == Seq(Bytes)
RunResults ==
  [recipe : Recipes, passed : BOOLEAN, steps : BOOLEAN, verdicts : Seq(BOOLEAN),
   score : [passed : Nat, of : Nat], screenshot : BOOLEAN, diffs : Nat,
   ran : Versions]

\* The verdict is that of the steps and the assertions, and so is the score.
Sound(r) ==
  /\ r.passed <=> r.steps /\ AllTrue(r.verdicts)
  /\ r.score = Score(r.verdicts)

KeyOfRun(r) == CacheKeyAt(r.recipe, r.ran)

ReuseTypes ==
  /\ version \in Versions
  /\ cache \in [Slugs -> [key : Keys, result : RunResults] \cup {Nil}]
  /\ result # Nil => result \in RunResults /\ asked \in Recipes /\ key = CacheKey(asked)

CacheIsEarned ==
  \A s \in Slugs : cache[s] # Nil =>
    /\ cache[s] \in [key : Keys, result : RunResults]
    /\ Sound(cache[s].result) /\ cache[s].result.passed
    /\ cache[s].key = KeyOfRun(cache[s].result)

ReuseInv ==
  /\ ReuseTypes /\ CacheIsEarned
  /\ result # Nil => Sound(result) /\ (key # Nil => key = KeyOfRun(result))

\* A key is a text, or there is none.
LEMMA KeyIsText ==
  ASSUME NEW r \in Recipes, NEW v \in Versions
  PROVE  /\ CacheKeyAt(r, v) \in Keys \cup {Nil} /\ Nil \notin Keys
         /\ Fed(v.recipes[r]) \in Seq(Bytes) /\ Fed(v.data) \in Seq(Bytes)
<1>1. v \in [recipes : [Recipes -> Contents], data : Contents]
  BY ReuseAssumption
<1>2. \A c \in Contents : Fed(c) \in Seq(Bytes)
  BY ReuseAssumption, EmptySeq DEF Fed, Contents
<1>3. Fed(v.recipes[r]) \in Seq(Bytes) /\ Fed(v.data) \in Seq(Bytes)
  BY <1>1, <1>2
<1>4. PICK a, b, c, d, e \in Seq(Bytes) :
        a = SourcePath[r] /\ b = Fed(v.recipes[r]) /\ c = DataPath /\ d = Fed(v.data) /\ e = Options[r]
  BY <1>3, ReuseAssumption
<1>5. a \o b \o c \o d \o e \in Seq(Bytes)
  BY ConcatProperties
<1> QED
  BY <1>3, <1>4, <1>5, ReuseAssumption DEF CacheKeyAt, Keys

\* What is between the same texts is the same.
LEMMA Cancelled ==
  ASSUME NEW S, NEW a \in Seq(S), NEW b \in Seq(S), NEW d \in Seq(S), NEW e \in Seq(S),
         (a \o d) \o b = (a \o e) \o b
  PROVE  d = e
<1>1. /\ Len(a) \in Nat /\ Len(b) \in Nat /\ Len(d) \in Nat /\ Len(e) \in Nat
      /\ a \o d \in Seq(S) /\ Len(a \o d) = Len(a) + Len(d)
      /\ a \o e \in Seq(S) /\ Len(a \o e) = Len(a) + Len(e)
  BY ConcatProperties
<1>2. /\ Len((a \o d) \o b) = Len(a) + Len(d) + Len(b)
      /\ Len((a \o e) \o b) = Len(a) + Len(e) + Len(b)
  BY <1>1, ConcatProperties
<1>3. Len(d) = Len(e)
  BY <1>1, <1>2
<1>4. ASSUME NEW x \in Seq(S), NEW i \in 1..Len(x)
      PROVE  ((a \o x) \o b)[Len(a) + i] = x[i]
  <2>1. Len(x) \in Nat /\ a \o x \in Seq(S) /\ Len(a \o x) = Len(a) + Len(x)
    BY ConcatProperties
  <2>2. Len(a) + i \in 1..Len(a) + Len(x)
    BY <1>1, <2>1
  <2>3. ((a \o x) \o b)[Len(a) + i] = (a \o x)[Len(a) + i]
    BY <1>1, <2>1, <2>2
  <2>4. (a \o x)[Len(a) + i] = x[i]
    BY <1>1, <2>1, <2>2
  <2> QED
    BY <2>3, <2>4
<1>5. \A i \in 1..Len(d) : d[i] = e[i]
  BY <1>3, <1>4
<1> QED
  BY <1>1, <1>3, <1>5, SeqEqual

\* score_from_assertions: the full score is that of all assertions passing, and no other.
LEMMA ScoreIsCount ==
  ASSUME NEW all \in Seq(BOOLEAN)
  PROVE  /\ Score(all) \in [passed : Nat, of : Nat]
         /\ AllTrue(all) => Score(all).passed = Score(all).of
<1> DEFINE passing == {i \in 1..Len(all) : all[i]}
<1>1. IsFiniteSet(1..Len(all)) /\ Cardinality(1..Len(all)) = Len(all) /\ Len(all) \in Nat
  <2>1. Len(all) \in Nat /\ 1 \in Int /\ Len(all) \in Int
    OBVIOUS
  <2> DEFINE n == Len(all)
  <2> HIDE DEF n
  <2>2. n \in Nat
    BY <2>1 DEF n
  <2>3. IsFiniteSet(1..n) /\ Cardinality(1..n) = (IF 1 > n THEN 0 ELSE n - 1 + 1)
    BY <2>2, FS_Interval
  <2> QED
    BY <2>2, <2>3 DEF n
<1>2. IsFiniteSet(passing) /\ Cardinality(passing) \in Nat
  BY <1>1, FS_Subset, FS_CardinalityType
<1>3. AllTrue(all) => passing = 1..Len(all)
  BY DEF AllTrue
<1> QED
  BY <1>1, <1>2, <1>3 DEF Score

WithDiff(r, matched) ==
  [r EXCEPT !.verdicts = Append(r.verdicts, matched),
            !.score = Score(Append(r.verdicts, matched)),
            !.diffs = @ + 1, !.passed = @ /\ matched]

\* One more assertion leaves a verdict sound that takes it into account.
LEMMA DiffIsJudged ==
  ASSUME NEW r \in RunResults, Sound(r), NEW matched \in BOOLEAN
  PROVE  /\ WithDiff(r, matched) \in RunResults /\ Sound(WithDiff(r, matched))
         /\ WithDiff(r, matched).recipe = r.recipe /\ WithDiff(r, matched).ran = r.ran
<1> DEFINE after == WithDiff(r, matched)
<1> DEFINE more == Append(r.verdicts, matched)
<1>1. r.verdicts \in Seq(BOOLEAN) /\ more \in Seq(BOOLEAN)
  BY DEF RunResults
<1>2. Score(more) \in [passed : Nat, of : Nat]
  BY <1>1, ScoreIsCount
<1>3. (r.passed /\ matched) \in BOOLEAN
  OBVIOUS
<1>4. after \in RunResults
  <2> HIDE DEF more
  <2> DEFINE scored == Score(more)  both == r.passed /\ matched
  <2>1. after = [r EXCEPT !.verdicts = more, !.score = scored, !.diffs = r.diffs + 1,
                          !.passed = both]
    BY DEF RunResults, more, WithDiff
  <2>2. scored \in [passed : Nat, of : Nat] /\ both \in BOOLEAN
    BY <1>2
  <2> HIDE DEF scored, both, after
  <2>3. DOMAIN r = {"recipe", "passed", "steps", "verdicts", "score", "screenshot", "diffs", "ran"}
    BY DEF RunResults
  <2>4. after = [recipe |-> r.recipe, passed |-> both, steps |-> r.steps, verdicts |-> more,
                 score |-> scored, screenshot |-> r.screenshot, diffs |-> r.diffs + 1,
                 ran |-> r.ran]
    BY <2>1, <2>3 DEF RunResults
  <2> QED
    BY <1>1, <2>2, <2>4 DEF RunResults
<1>5. /\ after.verdicts = more /\ after.score = Score(more) /\ after.steps = r.steps
      /\ after.recipe = r.recipe /\ (after.passed <=> r.passed /\ matched) /\ after.ran = r.ran
  BY DEF RunResults, WithDiff
<1>6. AllTrue(more) <=> AllTrue(r.verdicts) /\ matched
  <2>1. /\ Len(more) = Len(r.verdicts) + 1 /\ Len(r.verdicts) \in Nat
        /\ more[Len(r.verdicts) + 1] = matched
        /\ \A i \in 1..Len(r.verdicts) : more[i] = r.verdicts[i]
    BY <1>1
  <2> QED
    BY <2>1 DEF AllTrue
<1> QED
  BY <1>4, <1>5, <1>6 DEF Sound

\* A visual diff judges the result in hand.
LEMMA JudgedStaysSound ==
  ASSUME ReuseInv, CanDiff, NEW matched \in BOOLEAN, Judged(matched),
         UNCHANGED <<version, asked, key>>
  PROVE  /\ result' \in RunResults /\ asked' \in Recipes /\ key' = CacheKey(asked)'
         /\ Sound(result') /\ (key' # Nil => key' = KeyOfRun(result'))
<1>1. /\ result \in RunResults /\ Sound(result) /\ asked \in Recipes /\ key = CacheKey(asked)
      /\ (key # Nil => key = KeyOfRun(result))
  BY DEF ReuseInv, ReuseTypes, CanDiff
<1>2. result' = WithDiff(result, matched)
  BY DEF Judged, WithDiff
<1>3. /\ result' \in RunResults /\ Sound(result') /\ result'.recipe = result.recipe
      /\ result'.ran = result.ran
  BY <1>1, <1>2, DiffIsJudged
<1>4. KeyOfRun(result') = KeyOfRun(result)
  BY <1>3 DEF KeyOfRun
<1> QED
  BY <1>1, <1>3, <1>4 DEF CacheKey

\* No verdict in hand, fresh, from the cache or after a visual diff, is more than was earned.
THEOREM VerdictAlwaysBacked == ReuseSpec => []VerdictIsBacked
<1>1. ReuseInit => ReuseInv
  BY DEF ReuseInit, ReuseInv, ReuseTypes, CacheIsEarned
<1>2. ReuseInv /\ [ReuseStep]_reuseVars => ReuseInv'
  <2> SUFFICES ASSUME ReuseInv, [ReuseStep]_reuseVars PROVE ReuseInv'
    OBVIOUS
  <2> USE DEF ReuseInv, ReuseTypes
  <2>1. ASSUME NEW r \in Recipes, Verify(r) PROVE ReuseInv'
    <3>1. PICK stepsPassed \in BOOLEAN, asserted \in BOOLEAN, image \in Images \cup {Nil} :
            /\ result' = [recipe |-> r, passed |-> stepsPassed /\ asserted,
                          steps |-> stepsPassed, verdicts |-> <<asserted>>,
                          score |-> Score(<<asserted>>), screenshot |-> image # Nil,
                          diffs |-> 0, ran |-> version]
      BY <2>1 DEF Verify
    <3>2. asked' = r /\ key' = CacheKey(r) /\ UNCHANGED <<version, cache>>
      BY <2>1 DEF Verify
    <3>3. (stepsPassed /\ asserted) \in BOOLEAN /\ (image # Nil) \in BOOLEAN
      OBVIOUS
    <3>4. <<asserted>> \in Seq(BOOLEAN) /\ (AllTrue(<<asserted>>) <=> asserted)
      BY DEF AllTrue
    <3>5. Score(<<asserted>>) \in [passed : Nat, of : Nat]
      BY <3>4, ScoreIsCount
    <3>6. result' \in RunResults
      <4> DEFINE score == Score(<<asserted>>)  both == stepsPassed /\ asserted
                 shot == image # Nil  judged == <<asserted>>
      <4>1. result' = [recipe |-> r, passed |-> both, steps |-> stepsPassed,
                       verdicts |-> judged, score |-> score, screenshot |-> shot, diffs |-> 0,
                       ran |-> version]
        BY <3>1
      <4>2. score \in [passed : Nat, of : Nat] /\ both \in BOOLEAN /\ shot \in BOOLEAN
            /\ judged \in Seq(BOOLEAN)
        BY <3>3, <3>4, <3>5
      <4> HIDE DEF score, both, shot, judged
      <4> QED
        BY <4>1, <4>2 DEF RunResults
    <3>7. /\ result'.recipe = r /\ (result'.passed <=> stepsPassed /\ asserted)
          /\ result'.steps = stepsPassed /\ result'.verdicts = <<asserted>>
          /\ result'.score = Score(<<asserted>>) /\ result'.ran = version
      BY <3>1
    <3>8. Sound(result')
      BY <3>4, <3>7 DEF Sound
    <3>9. key' = KeyOfRun(result')
      BY <3>2, <3>7 DEF KeyOfRun, CacheKey
    <3>10. CacheIsEarned'
      BY <3>1, <3>2 DEF CacheIsEarned
    <3> QED
      BY <3>2, <3>6, <3>7, <3>8, <3>9, <3>10 DEF CacheKey
  <2>2. ASSUME NEW r \in Recipes, LoadCached(r) PROVE ReuseInv'
    <3>1. Slug[r] \in Slugs
      BY DEF Slugs
    <3>2. /\ cache[Slug[r]] # Nil /\ cache[Slug[r]].key = CacheKey(r)
          /\ result' = cache[Slug[r]].result /\ asked' = r /\ key' = CacheKey(r)
          /\ UNCHANGED <<version, cache>>
      BY <2>2 DEF LoadCached
    <3>3. result' \in RunResults /\ Sound(result') /\ CacheKey(r) = KeyOfRun(result')
      BY <3>1, <3>2 DEF CacheIsEarned
    <3>4. key' = CacheKey(asked)'
      BY <3>2 DEF CacheKey
    <3>5. CacheIsEarned'
      BY <3>2 DEF CacheIsEarned
    <3> QED
      BY <3>2, <3>3, <3>4, <3>5 DEF CacheKey
  <2>3. ASSUME NEW r \in Recipes, Clean(r) PROVE ReuseInv'
    BY <2>3 DEF Clean, CacheIsEarned, CacheKey
  <2>4. CASE StoreCached
    <3>1. /\ result # Nil /\ result.passed /\ key # Nil /\ UNCHANGED <<version, result, asked, key>>
          /\ cache' = [cache EXCEPT ![Slug[result.recipe]] = [key |-> key, result |-> result]]
      BY <2>4 DEF StoreCached
    <3>2. result \in RunResults /\ key = CacheKey(asked) /\ asked \in Recipes /\ key = KeyOfRun(result)
      BY <3>1
    <3>3. result.recipe \in Recipes /\ Slug[result.recipe] \in Slugs
      BY <3>2 DEF RunResults, Slugs
    <3>4. key \in Keys
      BY <3>1, <3>2, KeyIsText DEF CacheKey
    <3>5. cache' \in [Slugs -> [key : Keys, result : RunResults] \cup {Nil}]
      BY <3>1, <3>2, <3>3, <3>4
    <3>6. ASSUME NEW s \in Slugs, cache'[s] # Nil
          PROVE  /\ cache'[s] \in [key : Keys, result : RunResults]
                 /\ Sound(cache'[s].result) /\ cache'[s].result.passed
                 /\ cache'[s].key = KeyOfRun(cache'[s].result)
      <4>1. CASE s = Slug[result.recipe]
        BY <3>1, <3>2, <3>3, <3>4, <4>1
      <4>2. CASE s # Slug[result.recipe]
        BY <3>1, <3>6, <4>2 DEF CacheIsEarned
      <4> QED
        BY <4>1, <4>2
    <3>7. CacheIsEarned'
      BY <3>1, <3>6 DEF CacheIsEarned
    <3> QED
      BY <3>1, <3>5, <3>7 DEF CacheKey
  <2>5. ASSUME NEW s \in Slugs, LoseEntry(s) PROVE ReuseInv'
    BY <2>5 DEF LoseEntry, CacheIsEarned, CacheKey
  <2>6. ASSUME CanDiff, UNCHANGED <<version, cache, asked, key>>,
               NEW matched \in BOOLEAN, Judged(matched)
        PROVE  ReuseInv'
    <3>1. /\ result' \in RunResults /\ asked' \in Recipes /\ key' = CacheKey(asked)'
          /\ Sound(result') /\ (key' # Nil => key' = KeyOfRun(result'))
      BY <2>6, JudgedStaysSound
    <3>2. CacheIsEarned'
      BY <2>6 DEF CacheIsEarned
    <3> QED
      BY <2>6, <3>1, <3>2
  <2>7. CASE NoScreenshot
    BY <2>6, <2>7 DEF NoScreenshot
  <2>8. CASE UpdateBaseline
    BY <2>6, <2>8 DEF UpdateBaseline
  <2>9. CASE Compare
    <3> DEFINE matched == baselines[Baseline] # Nil /\ baselines[Baseline] = shots[result.recipe]
    <3>1. matched \in BOOLEAN
      OBVIOUS
    <3>2. CanDiff /\ UNCHANGED <<version, cache, asked, key>> /\ Judged(matched)
      BY <2>9 DEF Compare
    <3> HIDE DEF matched
    <3> QED
      BY <2>6, <3>1, <3>2
  <2>10. CASE Report
    BY <2>10 DEF Report, CacheIsEarned
  <2>11. CASE Edit
    BY <2>11 DEF Edit, CacheIsEarned
  <2>12. CASE UNCHANGED reuseVars
    BY <2>12 DEF reuseVars, CacheIsEarned, CacheKey
  <2> QED
    BY <2>1, <2>2, <2>3, <2>4, <2>5, <2>7, <2>8, <2>9, <2>10, <2>11, <2>12 DEF ReuseStep
<1>3. ReuseInv => VerdictIsBacked
  <2> SUFFICES ASSUME ReuseInv, result # Nil PROVE VerdictIsBacked
    BY DEF VerdictIsBacked
  <2>1. /\ result \in RunResults /\ asked \in Recipes /\ key = CacheKey(asked)
        /\ Sound(result) /\ (key # Nil => key = KeyOfRun(result)) /\ version \in Versions
    BY DEF ReuseInv, ReuseTypes
  <2>2. result.verdicts \in Seq(BOOLEAN) /\ result.recipe \in Recipes /\ result.ran \in Versions
    BY <2>1 DEF RunResults
  <2>3. AllTrue(result.verdicts) => Score(result.verdicts).passed = Score(result.verdicts).of
    BY <2>2, ScoreIsCount
  <2>4. ASSUME key # Nil, result.recipe = asked, result.ran.recipes[asked] = version.recipes[asked]
        PROVE  \/ result.ran.data = version.data
               \/ /\ {result.ran.data, version.data} \cap {NoFile, Unreadable} # {}
                  /\ Alike(result.ran.data, version.data)
    <3>1. /\ Fed(version.recipes[asked]) \in Seq(Bytes) /\ Fed(version.data) \in Seq(Bytes)
          /\ Fed(result.ran.data) \in Seq(Bytes)
      BY <2>1, <2>2, KeyIsText
    <3>2. PICK a, b, d, e \in Seq(Bytes) :
            /\ a = SourcePath[asked] \o Fed(version.recipes[asked]) \o DataPath
            /\ b = Options[asked] /\ d = Fed(result.ran.data) /\ e = Fed(version.data)
      <4>1. PICK x, y, z \in Seq(Bytes) :
              x = SourcePath[asked] /\ y = Fed(version.recipes[asked]) /\ z = DataPath
        BY <2>1, <3>1, ReuseAssumption
      <4>2. (x \o y) \o z \in Seq(Bytes)
        BY ConcatProperties
      <4>3. Options[asked] \in Seq(Bytes)
        BY <2>1, ReuseAssumption
      <4> QED
        BY <3>1, <4>1, <4>2, <4>3
    <3>3. version.recipes[asked] # Unreadable
      BY <2>1, <2>4 DEF CacheKey, CacheKeyAt
    <3>4. (a \o d) \o b = (a \o e) \o b
      <4>1. CacheKeyAt(asked, version) = (a \o e) \o b
        BY <3>2, <3>3 DEF CacheKeyAt
      <4>2. CacheKeyAt(asked, result.ran) = (a \o d) \o b
        BY <2>4, <3>2, <3>3 DEF CacheKeyAt
      <4> QED
        BY <2>1, <2>4, <4>1, <4>2 DEF CacheKey, KeyOfRun
    <3>5. d = e
      BY <3>4, Cancelled
    <3> QED
      BY <3>2, <3>5 DEF Alike, Fed
  <2> QED
    BY <2>1, <2>3, <2>4 DEF Sound, VerdictIsBacked, KeyOfRun
<1> QED
  BY <1>1, <1>2, <1>3, PTL DEF ReuseSpec

-----------------------------------------------------------------------------
(* Evidence. The steps captured.                                           *)

GridTexts == {Text(f) : f \in Nat}
Captured ==
  [kind : {"checkpoint", "failure"}, grid : Nat, text : GridTexts,
   raw : Nat \cup {None}]

\* What a session shows only ever moves on.
Newest == CASE backend = "pty" -> emulated [] backend = "tmux" -> frame [] OTHER -> snapshot

Collected ==
  /\ frame \in Nat /\ logged \in 0..frame /\ emulated \in 0..logged /\ snapshot \in 0..frame
  /\ backend = "pty" => snapshot <= logged
  /\ steps \in Seq(Captured)
  /\ \A i \in 1..Len(steps) :
       /\ steps[i].grid <= Newest
       /\ backend = "pty" /\ steps[i].raw # None =>
            steps[i].raw <= logged /\ (steps[i].grid = emulated \/ steps[i].raw <= emulated)
  /\ CapturesAreOrdered

\* A step that captures nothing leaves what was captured in order while the session moves on.
LEMMA SessionStep ==
  ASSUME Collected, UNCHANGED <<backend, steps>>, frame' \in Nat, logged' \in 0..frame',
         emulated' \in 0..logged', snapshot' \in 0..frame', backend = "pty" => snapshot' <= logged',
         Newest <= Newest', logged <= logged', emulated' \in {emulated, logged}
  PROVE  Collected'
<1> USE DEF Collected
<1>1. \A i \in 1..Len(steps) : steps[i].grid \in Nat /\ steps[i].raw \in Nat \cup {None}
  <2>1. \A i \in 1..Len(steps) : steps[i] \in Captured
    OBVIOUS
  <2> QED
    BY <2>1 DEF Captured
<1>2. Newest \in Nat /\ Newest' \in Nat
  BY DEF Newest
<1>3. ASSUME NEW i \in 1..Len(steps)
      PROVE  /\ steps[i].grid <= Newest'
             /\ backend = "pty" /\ steps[i].raw # None =>
                  /\ steps[i].raw <= logged'
                  /\ steps[i].grid = emulated' \/ steps[i].raw <= emulated'
  <2>1. steps[i].grid <= Newest'
    BY <1>1, <1>2, <1>3
  <2>2. ASSUME backend = "pty", steps[i].raw # None
        PROVE  /\ steps[i].raw <= logged'
               /\ steps[i].grid = emulated' \/ steps[i].raw <= emulated'
    <3>1. steps[i].raw <= logged /\ (steps[i].grid = emulated \/ steps[i].raw <= emulated)
      BY <1>3, <2>2
    <3>2. steps[i].raw \in Nat
      BY <1>1, <1>3, <2>2
    <3> QED
      BY <3>1, <3>2
  <2> QED
    BY <2>1, <2>2
<1>4. CapturesAreOrdered'
  BY DEF CapturesAreOrdered
<1> QED
  BY <1>3, <1>4

\* A captured screen is no earlier than those before it, but for one that could not be read;
\* the log kept with it is ahead of it by no more than the reader has yet to show.
LEMMA CaptureStep ==
  ASSUME Collected, Capture
  PROVE  Collected' /\ Len(steps') >= Len(steps) /\ \A i \in 1..Len(steps) : steps'[i] = steps[i]
<1> USE DEF Collected
<1>1. PICK kind \in {"checkpoint", "failure"}, grid \in Grids :
        Record(kind, grid) /\ snapshot' = Log(grid)
  BY DEF Capture
<1> DEFINE taken == [kind |-> kind, grid |-> grid, text |-> Text(grid),
                     raw |-> IF kind = "failure" THEN Log(grid) ELSE None]
<1>2. steps' = Append(steps, taken) /\ snapshot' = Log(grid)
      /\ UNCHANGED <<backend, frame, logged, emulated>>
  BY <1>1 DEF Record, Capture, readerVars
<1>3. /\ grid \in Nat /\ grid <= Newest /\ Log(grid) \in 0..frame
      /\ backend = "pty" => grid = emulated /\ Log(grid) = snapshot
      /\ backend # "pty" => Log(grid) = grid
      /\ grid = 0 \/ grid = Newest
  BY <1>1 DEF Grids, Log, Newest
<1>4. /\ taken.grid = grid /\ taken.text = Text(grid) /\ taken.raw \in {None, Log(grid)}
      /\ taken \in Captured
  BY <1>3 DEF Captured, GridTexts
<1> HIDE DEF taken
<1>5. /\ steps' \in Seq(Captured) /\ Len(steps') = Len(steps) + 1 /\ Len(steps) \in Nat
      /\ steps'[Len(steps) + 1] = taken
      /\ \A i \in 1..Len(steps) : steps'[i] = steps[i] /\ steps[i] \in Captured
  BY <1>2, <1>4
<1>6. \A i \in 1..Len(steps) : steps[i].grid \in Nat /\ steps[i].raw \in Nat \cup {None}
  BY <1>5 DEF Captured
<1>7. Newest' = Newest \/ (Newest' = grid /\ grid = snapshot /\ grid = Newest)
  BY <1>2, <1>3 DEF Newest, Log
<1>8. Newest \in Nat /\ Newest' = Newest
  BY <1>7 DEF Newest
<1> DEFINE n == Len(steps) + 1
<1>9. \A i \in 1..Len(steps') : i \in 1..Len(steps) \/ i = n
  BY <1>5
<1> HIDE DEF n
<1>10. n \in Nat /\ n = Len(steps) + 1
  BY <1>5 DEF n
<1>11. ASSUME NEW i \in 1..Len(steps')
       PROVE  /\ steps'[i].grid <= Newest'
              /\ backend = "pty" /\ steps'[i].raw # None =>
                   /\ steps'[i].raw <= logged
                   /\ steps'[i].grid = emulated \/ steps'[i].raw <= emulated
  <2>1. CASE i = n
    BY <1>3, <1>4, <1>5, <1>8, <1>10, <2>1
  <2>2. CASE i \in 1..Len(steps)
    BY <1>5, <1>8, <2>2
  <2> QED
    BY <1>9, <2>1, <2>2
<1>12. ASSUME NEW i \in 1..Len(steps')
       PROVE  /\ steps'[i].text = Text(steps'[i].grid)
              /\ steps'[i].grid # 0 => \A j \in 1..i : steps'[j].grid <= steps'[i].grid
              /\ steps'[i].raw # None /\ backend # "pty" => steps'[i].raw = steps'[i].grid
  <2>1. CASE i = n
    <3>1. ASSUME NEW j \in 1..i, grid # 0 PROVE steps'[j].grid <= grid
      <4>1. j \in 1..Len(steps) \/ j = n
        BY <1>5, <1>10, <2>1
      <4> QED
        BY <1>3, <1>4, <1>5, <1>6, <1>8, <1>10, <3>1, <4>1
    <3> QED
      BY <1>3, <1>4, <1>5, <1>10, <2>1, <3>1
  <2>2. CASE i \in 1..Len(steps)
    <3>1. \A j \in 1..i : j \in 1..Len(steps)
      BY <1>5, <2>2
    <3> QED
      BY <1>5, <2>2, <3>1 DEF CapturesAreOrdered
  <2> QED
    BY <1>9, <2>1, <2>2
<1>13. ASSUME NEW i \in 1..Len(steps'), steps'[i].raw # None, NEW j \in i..Len(steps'),
              steps'[i].grid < steps'[j].grid
       PROVE  steps'[i].raw <= steps'[j].grid
  <2>1. CASE i \in 1..Len(steps) /\ j \in 1..Len(steps)
    <3>1. j \in i..Len(steps)
      BY <1>5, <1>13, <2>1
    <3> QED
      BY <1>5, <1>13, <2>1, <3>1 DEF CapturesAreOrdered
  <2>2. CASE i \in 1..Len(steps) /\ j = n
    <3>1. steps'[j].grid = grid /\ steps'[i] = steps[i] /\ steps[i].raw \in Nat
      BY <1>4, <1>5, <1>6, <1>10, <1>13, <2>2
    <3>2. CASE backend = "pty"
      BY <1>3, <1>13, <2>2, <3>1, <3>2
    <3>3. CASE backend # "pty"
      <4>1. steps[i].raw = steps[i].grid
        BY <1>13, <2>2, <3>1, <3>3 DEF CapturesAreOrdered
      <4> QED
        BY <1>6, <1>13, <2>2, <3>1, <4>1, <1>3
    <3> QED
      BY <3>2, <3>3
  <2>3. CASE i = n
    <3>1. j = n
      BY <1>5, <1>9, <1>10, <2>3
    <3> QED
      BY <1>3, <1>4, <1>5, <1>10, <1>13, <2>3, <3>1
  <2>4. j \in 1..Len(steps')
    BY <1>5, <1>9, <1>10
  <2> QED
    BY <1>9, <2>1, <2>2, <2>3, <2>4, <1>10
<1>14. CapturesAreOrdered'
  BY <1>2, <1>12, <1>13 DEF CapturesAreOrdered
<1>15. backend = "pty" => snapshot' <= logged
  BY <1>2, <1>3
<1> QED
  BY <1>2, <1>3, <1>5, <1>11, <1>14, <1>15

\* Whatever a step does, what was captured stays, and in order.
LEMMA CollectedStep ==
  ASSUME Collected, [EvidenceNext]_evidenceVars
  PROVE  Collected' /\ Len(steps') >= Len(steps) /\ \A i \in 1..Len(steps) : steps'[i] = steps[i]
<1>1. Len(steps) \in Nat
  BY DEF Collected
<1>2. CASE Capture
  BY <1>2, CaptureStep
<1>3. ASSUME Draw \/ StoreRaw \/ StoreScreen \/ SessionCall PROVE Collected' /\ steps' = steps
  <2>1. /\ UNCHANGED <<backend, steps>> /\ frame' \in Nat /\ logged' \in 0..frame'
        /\ emulated' \in 0..logged' /\ snapshot' \in 0..frame'
        /\ backend = "pty" => snapshot' <= logged'
        /\ logged <= logged' /\ emulated' \in {emulated, logged} /\ emulated <= emulated'
        /\ frame <= frame' /\ (backend \notin {"pty", "tmux"} => snapshot <= snapshot')
    BY <1>3 DEF Draw, StoreRaw, StoreScreen, SessionCall, readerVars, Collected
  <2>2. Newest <= Newest'
    BY <2>1 DEF Newest, Collected
  <2> QED
    BY <2>1, <2>2, SessionStep
<1>4. ASSUME UNCHANGED <<backend, frame, logged, emulated, snapshot, steps>>
      PROVE  Collected' /\ steps' = steps
  BY <1>4 DEF Collected, CapturesAreOrdered, Newest
<1>5. CASE Publish
  BY <1>1, <1>4, <1>5 DEF Publish, collectorVars, readerVars
<1>6. CASE PublishStep
  <2>1. CASE KeepLocal \/ UploadImage
    <3>1. ASSUME NEW url, Rendered(url) PROVE UNCHANGED collectorVars
      BY <3>1 DEF Rendered
    <3>2. UNCHANGED collectorVars
      BY <2>1, <3>1 DEF KeepLocal, UploadImage
    <3> QED
      BY <1>1, <1>4, <3>2 DEF collectorVars, readerVars
  <2>2. CASE RemoveTarget \/ PublishFails \/ WriteText \/ WriteRaw \/ ReuseImage \/ Render
             \/ RenderFails \/ WriteManifest
    <3>1. UNCHANGED collectorVars
      BY <2>2 DEF RemoveTarget, PublishFails, WriteText, WriteRaw, ReuseImage, Render,
                  RenderFails, WriteManifest
    <3> QED
      BY <1>1, <1>4, <3>1 DEF collectorVars, readerVars
  <2> QED
    BY <1>6, <2>1, <2>2 DEF PublishStep
<1>7. CASE UNCHANGED evidenceVars
  BY <1>1, <1>4, <1>7 DEF evidenceVars, collectorVars, readerVars
<1> QED
  BY <1>1, <1>2, <1>3, <1>5, <1>6, <1>7 DEF EvidenceNext

(* What publish makes of them.                                             *)

Looked == {Look(f) : f \in Nat}
Made ==
  [shot : AnyPath \cup {None}, url : Looked \cup {None}, sameAs : Nat \cup {None},
   failed : BOOLEAN, text : AnyPath, raw : AnyPath \cup {None}]

PublishTypes ==
  /\ stage \in {"idle", "step", "raw", "check", "upload"} /\ cursor \in Nat \ {0}
  /\ published \in Seq(Made) /\ Len(published) <= Len(steps)
  /\ stage # "idle" => Len(published) + 1 = cursor
  /\ stage \in {"raw", "check", "upload"} => cursor <= Len(steps)
  /\ returned => stage = "idle"
  /\ previous \in Nat \cup {None}
  /\ lastRendered \in [step : Nat, shot : AnyPath, url : Looked \cup {None}] \cup {None}

Named(entry) == {entry.text, entry.raw, entry.shot} \ {None}

\* The files of the step being published that are there by now.
Written ==
  /\ stage \in {"raw", "check", "upload"} => TextPath(cursor) \in DOMAIN files
  /\ stage = "raw" => steps[cursor].raw # None
  /\ stage \in {"check", "upload"} /\ steps[cursor].raw # None => RawPath(cursor) \in DOMAIN files
  /\ stage = "upload" => /\ previous = steps[cursor].grid
                         /\ ImagePath(cursor) \in DOMAIN files
                         /\ files[ImagePath(cursor)] = Look(steps[cursor].grid)

\* One entry: its files are there, and its image is its own or that of the first of a run.
Shown(i) == LET entry == published[i] IN
  /\ Named(entry) \subseteq DOMAIN files
  /\ entry.text = TextPath(i) /\ entry.raw \in {None, RawPath(i)}
  /\ entry.failed <=> (entry.shot = None)
  /\ entry.shot # None =>
       /\ entry.shot = ImagePath(IF entry.sameAs = None THEN i ELSE entry.sameAs)
       /\ stage # "idle" \/ returned => files[entry.shot] = Look(steps[i].grid)
  /\ entry.url # None => entry.shot # None /\ entry.url = Look(steps[i].grid)
  /\ entry.sameAs # None =>
       /\ entry.sameAs \in 1..(i - 1) /\ published[entry.sameAs].sameAs = None
       /\ \A j \in entry.sameAs..i : Look(steps[j].grid) = Look(steps[i].grid)

EntriesShown == \A i \in 1..Len(published) : Shown(i)

\* Deduper: while it has a screen to compare with, it has that screen's image, and the
\* steps since then look like it. Only between rendering and uploading has it none.
Remembered ==
  stage \notin {"idle", "upload"} /\ previous # None =>
    /\ lastRendered # None
    /\ LET s == lastRendered.step IN
         /\ s \in 1..Len(published) /\ lastRendered.shot = ImagePath(s)
         /\ published[s].shot = ImagePath(s) /\ published[s].url = lastRendered.url
         /\ published[s].sameAs = None
         /\ \A j \in s..Len(published) : Look(steps[j].grid) = Look(previous)

Messaged == {ErrorsOf(attempts) : attempts \in Outcomes}
Traced ==
  /\ degraded \in Seq(Messaged)
  /\ \A i, j \in 1..Len(degraded) : degraded[i] = degraded[j] => i = j
  /\ survived = {degraded[i] : i \in 1..Len(degraded)}

EvidenceInv ==
  /\ Collected /\ PublishTypes /\ Written /\ EntriesShown /\ Remembered /\ ManifestIsLast
  /\ Traced

\* Writing one file leaves every other as it is.
LEMMA OneFileWritten ==
  ASSUME NEW path, NEW content, Write(path, content)
  PROVE  /\ DOMAIN files' = DOMAIN files \cup {path} /\ files'[path] = content
         /\ \A p \in DOMAIN files : p # path => files'[p] = files[p]
         /\ lost' = lost \ {path}
BY DEF Write

\* A look is a number, and so no mark of a missing one.
LEMMA LooksAreNumbers == Looked \subseteq Nat
<1>1. \A f \in Nat : Look(f) \in Nat
  BY DEF Look
<1> QED
  BY <1>1 DEF Looked

\* What the steps published name stays on the disk, and their images stay as they are.
FilesStay ==
  /\ \A j \in 1..Len(published) : Named(published[j]) \subseteq DOMAIN files'
  /\ \A j \in 1..Len(published) :
       ImagePath(j) \in DOMAIN files => files'[ImagePath(j)] = files[ImagePath(j)]

StepsStay == Len(steps') >= Len(steps) /\ \A i \in 1..Len(steps) : steps'[i] = steps[i]

\* An entry stays as it was shown while neither its image nor its step changes.
LEMMA ShownStays ==
  ASSUME EvidenceInv, FilesStay, StepsStay, NEW i \in 1..Len(published),
         Len(published') >= Len(published),
         \A j \in 1..Len(published) : published'[j] = published[j],
         stage' # "idle" \/ returned' => stage # "idle" \/ returned
  PROVE  Shown(i)'
<1>1. Shown(i) /\ Len(published) \in Nat /\ Len(published) <= Len(steps) /\ Len(steps) \in Nat
  BY DEF EvidenceInv, EntriesShown, PublishTypes, Collected
<1> DEFINE entry == published[i]
<1>2. published'[i] = entry /\ steps'[i] = steps[i]
  BY <1>1 DEF StepsStay
<1>3. Named(entry) \subseteq DOMAIN files'
  BY <1>1 DEF FilesStay, Shown
<1>4. entry.sameAs # None =>
        /\ entry.sameAs \in 1..(i - 1) /\ published'[entry.sameAs].sameAs = None
        /\ \A j \in entry.sameAs..i : Look(steps'[j].grid) = Look(steps'[i].grid)
  <2> SUFFICES ASSUME entry.sameAs # None
               PROVE  /\ entry.sameAs \in 1..(i - 1) /\ published'[entry.sameAs].sameAs = None
                      /\ \A j \in entry.sameAs..i : Look(steps'[j].grid) = Look(steps'[i].grid)
    OBVIOUS
  <2>1. /\ entry.sameAs \in 1..(i - 1) /\ published[entry.sameAs].sameAs = None
        /\ \A j \in entry.sameAs..i : Look(steps[j].grid) = Look(steps[i].grid)
    BY <1>1 DEF Shown
  <2>2. entry.sameAs \in 1..Len(published) /\ \A j \in entry.sameAs..i : j \in 1..Len(steps)
    BY <1>1, <2>1
  <2> QED
    BY <1>2, <2>1, <2>2 DEF StepsStay
<1>5. ASSUME entry.shot # None
      PROVE  /\ entry.shot = ImagePath(IF entry.sameAs = None THEN i ELSE entry.sameAs)
             /\ stage' # "idle" \/ returned' => files'[entry.shot] = Look(steps'[i].grid)
  <2> DEFINE j == IF entry.sameAs = None THEN i ELSE entry.sameAs
  <2>1. entry.shot = ImagePath(j) /\ entry.shot \in DOMAIN files
        /\ (stage # "idle" \/ returned => files[entry.shot] = Look(steps[i].grid))
    BY <1>1, <1>5 DEF Shown, Named
  <2>2. j \in 1..Len(published)
    BY <1>1 DEF Shown
  <2>3. files'[entry.shot] = files[entry.shot]
    BY <2>1, <2>2 DEF FilesStay
  <2> QED
    BY <1>2, <2>1, <2>3
<1>6. /\ entry.failed <=> (entry.shot = None)
      /\ entry.url # None => entry.shot # None /\ entry.url = Look(steps'[i].grid)
      /\ entry.text = TextPath(i) /\ entry.raw \in {None, RawPath(i)}
  BY <1>1, <1>2 DEF Shown
<1> HIDE DEF entry
<1> QED
  BY <1>2, <1>3, <1>4, <1>5, <1>6 DEF Shown

\* All entries stay shown where publish adds none.
LEMMA EntriesStay ==
  ASSUME EvidenceInv, FilesStay, StepsStay, published' = published,
         stage' # "idle" \/ returned' => stage # "idle" \/ returned
  PROVE  EntriesShown'
<1>1. Len(published) \in Nat
  BY DEF EvidenceInv, PublishTypes
<1>2. \A i \in 1..Len(published) : Shown(i)'
  BY <1>1, ShownStays
<1> QED
  BY <1>2 DEF EntriesShown

\* One entry more, of the step at the cursor, is shown if its files are there and its image
\* is its own or that of the first of its run.
LEMMA OneMoreEntry ==
  ASSUME EvidenceInv, FilesStay, steps' = steps, stage \in {"check", "upload"},
         NEW entry \in Made, published' = Append(published, entry),
         Named(entry) \subseteq DOMAIN files',
         entry.text = TextPath(cursor), entry.raw \in {None, RawPath(cursor)},
         entry.failed <=> (entry.shot = None),
         entry.shot # None =>
           /\ entry.shot = ImagePath(IF entry.sameAs = None THEN cursor ELSE entry.sameAs)
           /\ files'[entry.shot] = Look(steps[cursor].grid),
         entry.url # None => entry.shot # None /\ entry.url = Look(steps[cursor].grid),
         entry.sameAs # None =>
           /\ entry.sameAs \in 1..Len(published) /\ published[entry.sameAs].sameAs = None
           /\ \A j \in entry.sameAs..cursor : Look(steps[j].grid) = Look(steps[cursor].grid)
  PROVE  /\ EntriesShown' /\ published' \in Seq(Made) /\ Len(published') = cursor
         /\ published'[cursor] = entry
         /\ \A j \in 1..Len(published) : published'[j] = published[j]
<1>1. published \in Seq(Made) /\ Len(published) + 1 = cursor /\ Len(published) \in Nat
  BY DEF EvidenceInv, PublishTypes
<1>2. /\ published' \in Seq(Made) /\ Len(published') = cursor /\ published'[cursor] = entry
      /\ \A j \in 1..Len(published) : published'[j] = published[j]
  BY <1>1
<1>3. \A i \in 1..Len(published) : Shown(i)'
  <2>1. StepsStay
    BY DEF StepsStay, EvidenceInv, Collected
  <2> QED
    BY <1>1, <1>2, <2>1, ShownStays
<1>4. PICK n \in Nat : n = cursor
  BY <1>1
<1>5. Shown(n)'
  <2>1. entry.sameAs # None =>
          /\ entry.sameAs \in 1..(n - 1) /\ published'[entry.sameAs].sameAs = None
          /\ \A j \in entry.sameAs..n : Look(steps'[j].grid) = Look(steps'[n].grid)
    BY <1>1, <1>2, <1>4
  <2>2. published'[n] = entry /\ steps' = steps
    BY <1>2, <1>4
  <2>3. entry.shot # None =>
           /\ entry.shot = ImagePath(IF entry.sameAs = None THEN n ELSE entry.sameAs)
           /\ files'[entry.shot] = Look(steps'[n].grid)
    BY <1>4, <2>2
  <2>4. /\ entry.url # None => entry.shot # None /\ entry.url = Look(steps'[n].grid)
        /\ entry.text = TextPath(n) /\ entry.raw \in {None, RawPath(n)}
    BY <1>4, <2>2
  <2> QED
    BY <2>1, <2>2, <2>3, <2>4 DEF Shown
<1>6. \A i \in 1..Len(published') : Shown(i)'
  <2>1. \A i \in 1..Len(published') : i \in 1..Len(published) \/ i = n
    BY <1>1, <1>2, <1>4
  <2> QED
    BY <1>3, <1>5, <2>1
<1> QED
  BY <1>2, <1>6 DEF EntriesShown

EntryWith(shot, url, same, failed) ==
  [shot |-> shot, url |-> url, sameAs |-> same, failed |-> failed, text |-> TextPath(cursor),
   raw |-> IF steps[cursor].raw = None THEN None ELSE RawPath(cursor)]

\* The three ways in which publish completes an entry.
LEMMA EntryCompleted ==
  ASSUME NEW shot, NEW url, NEW same
  PROVE  /\ [Entry(cursor) EXCEPT !.shot = shot, !.url = url, !.sameAs = same]
              = EntryWith(shot, url, same, FALSE)
         /\ [Entry(cursor) EXCEPT !.shot = shot, !.url = url] = EntryWith(shot, url, None, FALSE)
         /\ [Entry(cursor) EXCEPT !.failed = TRUE] = EntryWith(None, None, None, TRUE)
<1> DEFINE raw == IF steps[cursor].raw = None THEN None ELSE RawPath(cursor)
           text == TextPath(cursor)  no == FALSE  yes == TRUE
           With(a, b, c, d) == [shot |-> a, url |-> b, sameAs |-> c, failed |-> d,
                                text |-> text, raw |-> raw]
<1>1. Entry(cursor) = With(None, None, None, no)
  BY DEF Entry
<1>2. /\ EntryWith(shot, url, same, FALSE) = With(shot, url, same, no)
      /\ EntryWith(shot, url, None, FALSE) = With(shot, url, None, no)
      /\ EntryWith(None, None, None, TRUE) = With(None, None, None, yes)
  BY DEF EntryWith
<1> HIDE DEF raw, text, no, yes
<1>3. [With(None, None, None, no) EXCEPT !.shot = shot] = With(shot, None, None, no)
  OBVIOUS
<1>4. /\ [With(shot, None, None, no) EXCEPT !.url = url] = With(shot, url, None, no)
      /\ [With(shot, url, None, no) EXCEPT !.sameAs = same] = With(shot, url, same, no)
  OBVIOUS
<1>5. [With(None, None, None, no) EXCEPT !.failed = yes] = With(None, None, None, yes)
  OBVIOUS
<1> HIDE DEF With
<1>6. [Entry(cursor) EXCEPT !.failed = TRUE] = [Entry(cursor) EXCEPT !.failed = yes]
  BY DEF yes
<1> QED
  BY <1>1, <1>2, <1>3, <1>4, <1>5, <1>6

\* The files a published step names: its text, its part of the log, and its image.
LEMMA EntryOfStep ==
  ASSUME PublishTypes, Written, stage \in {"check", "upload"},
         NEW shot \in AnyPath \cup {None}, NEW url \in Looked \cup {None},
         NEW same \in Nat \cup {None}, NEW failed \in BOOLEAN
  PROVE  /\ EntryWith(shot, url, same, failed) \in Made
         /\ Named(EntryWith(shot, url, same, failed)) \subseteq DOMAIN files \cup ({shot} \ {None})
         /\ EntryWith(shot, url, same, failed).text = TextPath(cursor)
         /\ EntryWith(shot, url, same, failed).raw \in {None, RawPath(cursor)}
<1>1. cursor \in Nat /\ TextPath(cursor) \in AnyPath /\ RawPath(cursor) \in AnyPath
  BY DEF PublishTypes, TextPath, RawPath, AnyPath, PathKinds
<1> DEFINE raw == IF steps[cursor].raw = None THEN None ELSE RawPath(cursor)
           entry == EntryWith(shot, url, same, failed)
<1>2. TextPath(cursor) \in DOMAIN files /\ {raw} \ {None} \subseteq DOMAIN files
      /\ raw \in AnyPath \cup {None}
  BY <1>1 DEF Written
<1>3. entry = [shot |-> shot, url |-> url, sameAs |-> same, failed |-> failed,
               text |-> TextPath(cursor), raw |-> raw]
  BY DEF EntryWith
<1>0. raw \in {None, RawPath(cursor)}
  OBVIOUS
<1> HIDE DEF raw, entry
<1>4. entry \in Made
  BY <1>1, <1>2, <1>3 DEF Made
<1>5. entry.text = TextPath(cursor) /\ entry.raw = raw /\ entry.shot = shot
  BY <1>3
<1>6. Named(entry) \subseteq DOMAIN files \cup ({shot} \ {None})
  BY <1>2, <1>5 DEF Named
<1> QED
  BY <1>0, <1>4, <1>5, <1>6 DEF entry

\* Files that are added disturb none that the entries name.
LEMMA MoreFiles ==
  ASSUME EvidenceInv, DOMAIN files \subseteq DOMAIN files',
         \A j \in 1..Len(published) :
           ImagePath(j) \in DOMAIN files => files'[ImagePath(j)] = files[ImagePath(j)]
  PROVE  FilesStay
BY DEF FilesStay, EvidenceInv, EntriesShown, Shown

\* No loss, and no file that is not there instead of it.
LEMMA ManifestStays ==
  ASSUME ManifestIsLast, DOMAIN files \cup lost \subseteq DOMAIN files' \cup lost',
         ManifestPath \in DOMAIN files' =>
           ManifestPath \in DOMAIN files /\ files'[ManifestPath] = files[ManifestPath]
  PROVE  ManifestIsLast'
<1>1. ManifestPath' = ManifestPath
  BY DEF ManifestPath
<1> HIDE DEF ManifestPath
<1> QED
  BY <1>1 DEF ManifestIsLast

PublishInv == PublishTypes /\ Written /\ EntriesShown /\ Remembered /\ ManifestIsLast

\* Nothing of publish changes while screens are captured; one that fails keeps what it made.
LEMMA QuietStep ==
  ASSUME EvidenceInv, StepsStay, Len(steps) \in Nat, Len(steps') \in Nat,
         UNCHANGED <<cursor, previous, lastRendered, published, returned, files, lost>>,
         \/ stage = "idle" /\ stage' = "idle"
         \/ stage' \in {stage, "idle"} /\ steps' = steps
  PROVE  PublishInv'
<1>1. FilesStay
  BY MoreFiles
<1>2. PublishTypes /\ Written /\ Remembered /\ ManifestIsLast
  BY DEF EvidenceInv
<1>3. Len(published) \in Nat
  BY <1>2 DEF PublishTypes
<1>4. PublishTypes'
  BY <1>2, <1>3 DEF PublishTypes, StepsStay
<1>5. Written'
  BY <1>2 DEF Written
<1>6. Remembered'
  BY <1>2 DEF Remembered
<1>7. ManifestIsLast'
  BY <1>2, ManifestStays
<1>8. stage' # "idle" \/ returned' => stage # "idle" \/ returned
  OBVIOUS
<1>9. EntriesShown'
  BY <1>1, <1>8, EntriesStay
<1> QED
  BY <1>4, <1>5, <1>6, <1>7, <1>9 DEF PublishInv

\* A file of the step being published disturbs none of those published before, nor what a
\* manifest names.
LEMMA WritingStep ==
  ASSUME EvidenceInv, NEW kind \in {"txt", "raw", "png"}, NEW content,
         Write([step |-> cursor, kind |-> kind], content), stage # "idle"
  PROVE  /\ FilesStay /\ ManifestIsLast'
         /\ DOMAIN files' = DOMAIN files \cup {[step |-> cursor, kind |-> kind]}
         /\ files'[[step |-> cursor, kind |-> kind]] = content
<1> DEFINE path == [step |-> cursor, kind |-> kind]
<1>1. /\ DOMAIN files' = DOMAIN files \cup {path} /\ files'[path] = content
      /\ \A p \in DOMAIN files : p # path => files'[p] = files[p]
      /\ lost' = lost \ {path}
  BY OneFileWritten
<1>2. cursor \in Nat /\ cursor # 0 /\ Len(published) + 1 = cursor /\ Len(published) \in Nat
  BY DEF EvidenceInv, PublishTypes
<1>3. \A j \in 1..Len(published) : ImagePath(j) # path
  BY <1>2 DEF ImagePath
<1>4. ManifestPath # path
  BY <1>2 DEF ManifestPath
<1> HIDE DEF path
<1>5. FilesStay
  BY <1>1, <1>3, MoreFiles
<1>6. ManifestIsLast'
  <2>1. ManifestIsLast
    BY DEF EvidenceInv
  <2> QED
    BY <1>1, <1>4, <2>1, ManifestStays
<1> QED
  BY <1>1, <1>5, <1>6 DEF path

\* The steps of publish that leave the entries as they are.
LEMMA FileStep ==
  ASSUME EvidenceInv, WriteText \/ WriteRaw \/ Render
  PROVE  PublishInv'
<1>1. /\ PublishTypes /\ Written /\ Remembered /\ Collected
      /\ Len(steps) \in Nat /\ Len(published) \in Nat
  BY DEF EvidenceInv, Collected, PublishTypes
<1>2. UNCHANGED <<steps, cursor, lastRendered, published, returned>>
  BY DEF WriteText, WriteRaw, Render, collectorVars
<1>3. StepsStay
  BY <1>2 DEF StepsStay
<1>4. stage \in {"step", "raw", "check"} /\ stage' \in {"raw", "check", "upload"}
  BY DEF WriteText, WriteRaw, Render
<1>5. cursor <= Len(steps) /\ cursor \in Nat \ {0}
  BY <1>1 DEF WriteText, WriteRaw, Render, PublishTypes
<1>6. ASSUME NEW kind \in {"txt", "raw", "png"}, NEW content,
             Write([step |-> cursor, kind |-> kind], content),
             PublishTypes', Written', Remembered'
      PROVE  PublishInv'
  <2>1. FilesStay /\ ManifestIsLast'
    BY <1>4, <1>6, WritingStep
  <2>2. EntriesShown'
    BY <1>2, <1>3, <1>4, <2>1, EntriesStay
  <2> QED
    BY <1>6, <2>1, <2>2 DEF PublishInv
<1>7. previous' = previous => PublishTypes'
  BY <1>1, <1>2, <1>4, <1>5 DEF PublishTypes
<1>8. previous' = previous => Remembered'
  BY <1>1, <1>2, <1>4 DEF Remembered
<1>9. CASE WriteText
  <2>1. /\ Write([step |-> cursor, kind |-> "txt"], steps[cursor].text) /\ previous' = previous
        /\ stage' = IF steps[cursor].raw = None THEN "check" ELSE "raw"
    BY <1>9 DEF WriteText, TextPath
  <2>2. TextPath(cursor) \in DOMAIN files'
    BY <1>4, <2>1, WritingStep DEF TextPath
  <2>3. Written'
    BY <1>2, <2>1, <2>2 DEF Written
  <2> QED
    BY <1>6, <1>7, <1>8, <2>1, <2>3
<1>10. CASE WriteRaw
  <2>1. /\ Write([step |-> cursor, kind |-> "raw"], steps[cursor].raw) /\ previous' = previous
        /\ stage = "raw" /\ stage' = "check"
    BY <1>10 DEF WriteRaw, RawPath
  <2>2. DOMAIN files' = DOMAIN files \cup {RawPath(cursor)}
    BY <1>4, <2>1, WritingStep DEF RawPath
  <2>3. Written'
    BY <1>1, <1>2, <2>1, <2>2 DEF Written
  <2> QED
    BY <1>6, <1>7, <1>8, <2>1, <2>3
<1>11. CASE Render
  <2>1. /\ Write([step |-> cursor, kind |-> "png"], Look(steps[cursor].grid))
        /\ previous' = steps[cursor].grid /\ stage = "check" /\ stage' = "upload"
    BY <1>11 DEF Render, ImagePath
  <2>2. DOMAIN files' = DOMAIN files \cup {ImagePath(cursor)}
        /\ files'[ImagePath(cursor)] = Look(steps[cursor].grid)
    BY <1>4, <2>1, WritingStep DEF ImagePath
  <2>3. Written'
    BY <1>1, <1>2, <2>1, <2>2 DEF Written
  <2>4. previous' \in Nat
    <3>1. steps[cursor] \in Captured
      BY <1>1, <1>5 DEF Collected
    <3> QED
      BY <2>1, <3>1 DEF Captured
  <2>5. PublishTypes'
    BY <1>1, <1>2, <1>4, <1>5, <2>4 DEF PublishTypes
  <2>6. Remembered'
    BY <2>1 DEF Remembered
  <2> QED
    BY <1>6, <2>1, <2>3, <2>5, <2>6
<1> QED
  BY <1>9, <1>10, <1>11

\* A publish begins with no entries and a Deduper that remembers nothing.
LEMMA PublishBegins ==
  ASSUME EvidenceInv, Publish
  PROVE  PublishInv'
<1>1. /\ published' = <<>> /\ stage' = "step" /\ cursor' = 1 /\ previous' = None
      /\ lastRendered' = None /\ returned' = FALSE /\ UNCHANGED <<steps, files, lost>>
      /\ Len(steps) \in Nat /\ ManifestIsLast
  BY DEF Publish, collectorVars, diskVars, EvidenceInv, Collected
<1>2. Len(published') = 0 /\ published' \in Seq(Made)
  BY <1>1
<1>3. PublishTypes'
  BY <1>1, <1>2 DEF PublishTypes
<1>4. Written' /\ Remembered'
  BY <1>1 DEF Written, Remembered
<1>5. EntriesShown'
  BY <1>2 DEF EntriesShown
<1>6. ManifestIsLast'
  BY <1>1, ManifestStays
<1> QED
  BY <1>3, <1>4, <1>5, <1>6 DEF PublishInv

\* The manifest names what the entries name, all of which is there.
LEMMA ManifestWritten ==
  ASSUME EvidenceInv, WriteManifest
  PROVE  PublishInv'
<1>1. /\ UNCHANGED <<steps, cursor, previous, lastRendered, published>>
      /\ Write(ManifestPath, published) /\ stage = "step" /\ stage' = "idle" /\ returned' = TRUE
  BY DEF WriteManifest, collectorVars
<1>2. PublishTypes /\ EntriesShown /\ Len(published) \in Nat /\ Len(steps) \in Nat
  BY DEF EvidenceInv, PublishTypes, Collected
<1>3. /\ DOMAIN files' = DOMAIN files \cup {ManifestPath} /\ files'[ManifestPath] = published
      /\ \A p \in DOMAIN files : p # ManifestPath => files'[p] = files[p]
  BY <1>1, OneFileWritten
<1>4. FilesStay
  BY <1>3, MoreFiles DEF ImagePath, ManifestPath
<1>5. StepsStay
  BY <1>1, <1>2 DEF StepsStay
<1>6. EntriesShown'
  BY <1>1, <1>4, <1>5, EntriesStay
<1>7. PublishTypes'
  BY <1>1, <1>2 DEF PublishTypes
<1>8. Written' /\ Remembered'
  BY <1>1 DEF Written, Remembered
<1>9. ManifestIsLast'
  <2>1. \A i \in 1..Len(published) : Named(published[i]) \subseteq DOMAIN files
    BY <1>2 DEF EntriesShown, Shown
  <2>2. ManifestPath' = ManifestPath
    BY DEF ManifestPath
  <2> HIDE DEF ManifestPath
  <2> QED
    BY <1>3, <2>1, <2>2 DEF ManifestIsLast, Named
<1> QED
  BY <1>6, <1>7, <1>8, <1>9 DEF PublishInv

\* What every step that adds an entry has in common.
LEMMA EntryAdded ==
  ASSUME EvidenceInv, stage \in {"check", "upload"}, NEW entry, NextStep(entry),
         UNCHANGED <<collectorVars, returned>>,
         published' \in Seq(Made), Len(published') = cursor,
         previous' \in Nat \cup {None},
         lastRendered' \in [step : Nat, shot : AnyPath, url : Looked \cup {None}] \cup {None}
  PROVE  PublishTypes' /\ Written'
<1>1. PublishTypes /\ Len(steps) \in Nat /\ steps' = steps
  BY DEF EvidenceInv, Collected, collectorVars
<1>2. cursor' = cursor + 1 /\ stage' = "step" /\ cursor \in Nat \ {0} /\ cursor <= Len(steps)
      /\ ~returned
  BY <1>1 DEF NextStep, PublishTypes
<1>3. PublishTypes'
  BY <1>1, <1>2 DEF PublishTypes
<1> QED
  BY <1>2, <1>3 DEF Written

\* A screen that looks like the last one rendered has its image.
LEMMA ImageReused ==
  ASSUME EvidenceInv, ReuseImage
  PROVE  PublishInv'
<1>1. /\ PublishTypes /\ Written /\ Remembered /\ EntriesShown /\ Collected /\ ManifestIsLast
      /\ Len(steps) \in Nat /\ Len(published) \in Nat /\ Len(published) + 1 = cursor
      /\ cursor \in Nat \ {0} /\ cursor <= Len(steps) /\ stage = "check" /\ ~returned
  BY DEF EvidenceInv, Collected, PublishTypes, ReuseImage
<1>2. /\ UNCHANGED <<collectorVars, returned, previous, lastRendered, files, lost, steps>>
      /\ NextStep(IF lastRendered = None THEN Entry(cursor)
                  ELSE [Entry(cursor) EXCEPT !.shot = lastRendered.shot,
                                             !.url = lastRendered.url,
                                             !.sameAs = lastRendered.step])
      /\ previous # None /\ Look(previous) = Look(steps[cursor].grid)
  BY DEF ReuseImage, Matches, collectorVars, diskVars
<1> DEFINE s == lastRendered.step
<1>3. /\ lastRendered # None /\ s \in 1..Len(published) /\ lastRendered.shot = ImagePath(s)
      /\ published[s].shot = ImagePath(s) /\ published[s].url = lastRendered.url
      /\ published[s].sameAs = None
      /\ \A j \in s..Len(published) : Look(steps[j].grid) = Look(previous)
  BY <1>1, <1>2 DEF Remembered
<1>4. lastRendered.url \in Looked \cup {None} /\ ImagePath(s) \in AnyPath /\ ImagePath(s) # None
      /\ s # None /\ s \in Nat
  BY <1>1, <1>3, EvidenceAssumption DEF PublishTypes, AnyPath, PathKinds, ImagePath
<1> DEFINE url == lastRendered.url  entry == EntryWith(ImagePath(s), url, s, FALSE)
<1>5. published' = Append(published, entry) /\ cursor' = cursor + 1 /\ stage' = "step"
  <2> DEFINE shot == lastRendered.shot  same == lastRendered.step
  <2>1. [Entry(cursor) EXCEPT !.shot = shot, !.url = url, !.sameAs = same]
          = EntryWith(shot, url, same, FALSE)
    <3> HIDE DEF shot, url, same
    <3> QED
      BY EntryCompleted
  <2>2. shot = ImagePath(s)
    BY <1>3
  <2>3. published' = Append(published, [Entry(cursor) EXCEPT !.shot = shot, !.url = url,
                                                             !.sameAs = same])
    BY <1>2, <1>3 DEF NextStep
  <2> QED
    BY <1>2, <2>1, <2>2, <2>3 DEF NextStep
<1>6. entry.shot = ImagePath(s) /\ entry.url = url /\ entry.sameAs = s /\ entry.failed = FALSE
  BY DEF EntryWith
<1>7. /\ entry \in Made /\ Named(entry) \subseteq DOMAIN files \cup ({ImagePath(s)} \ {None})
      /\ entry.text = TextPath(cursor) /\ entry.raw \in {None, RawPath(cursor)}
  BY <1>1, <1>4, EntryOfStep
<1> HIDE DEF entry
<1>8. Shown(s)
  BY <1>1, <1>3 DEF EntriesShown
<1>9. /\ ImagePath(s) \in DOMAIN files /\ files[ImagePath(s)] = Look(steps[s].grid)
      /\ url # None => url = Look(steps[s].grid)
  BY <1>1, <1>3, <1>4, <1>8 DEF Shown, Named
<1>10. \A j \in s..cursor : Look(steps[j].grid) = Look(steps[cursor].grid)
  <2>1. \A j \in s..cursor : j \in s..Len(published) \/ j = cursor
    BY <1>1, <1>3
  <2> QED
    BY <1>2, <1>3, <2>1
<1>11. Look(steps[s].grid) = Look(steps[cursor].grid)
  BY <1>1, <1>3, <1>10
<1>12. FilesStay
  BY <1>2, MoreFiles
<1>13. /\ EntriesShown' /\ published' \in Seq(Made) /\ Len(published') = cursor
       /\ published'[cursor] = entry
       /\ \A j \in 1..Len(published) : published'[j] = published[j]
  <2>1. Named(entry) \subseteq DOMAIN files'
    BY <1>2, <1>7, <1>9
  <2>2. (entry.failed <=> (entry.shot = None)) /\ entry.shot # None /\ entry.sameAs # None
    BY <1>4, <1>6
  <2>3. /\ entry.shot = ImagePath(IF entry.sameAs = None THEN cursor ELSE entry.sameAs)
        /\ files'[entry.shot] = Look(steps[cursor].grid)
    BY <1>2, <1>4, <1>6, <1>9, <1>11
  <2>4. entry.url # None => entry.url = Look(steps[cursor].grid)
    BY <1>6, <1>9, <1>11
  <2>5. /\ entry.sameAs \in 1..Len(published) /\ published[entry.sameAs].sameAs = None
        /\ \A j \in entry.sameAs..cursor : Look(steps[j].grid) = Look(steps[cursor].grid)
    BY <1>3, <1>6, <1>10
  <2> QED
    BY <1>1, <1>2, <1>5, <1>7, <1>12, <2>1, <2>2, <2>3, <2>4, <2>5, OneMoreEntry
<1>14. PublishTypes' /\ Written'
  BY <1>1, <1>2, <1>13, EntryAdded DEF PublishTypes
<1>15. Remembered'
  <2>1. \A j \in s..Len(published') : Look(steps'[j].grid) = Look(previous')
    BY <1>2, <1>10, <1>13
  <2>2. s \in 1..Len(published') /\ published'[s] = published[s]
    BY <1>1, <1>3, <1>13
  <2> QED
    BY <1>2, <1>3, <2>1, <2>2 DEF Remembered, ImagePath
<1>16. ManifestIsLast'
  BY <1>1, <1>2, ManifestStays
<1> QED
  BY <1>13, <1>14, <1>15, <1>16 DEF PublishInv

\* A step whose image could not be made says so; what is damaged is its own file.
LEMMA ImageFailed ==
  ASSUME EvidenceInv, RenderFails
  PROVE  PublishInv'
<1>1. /\ PublishTypes /\ Written /\ ManifestIsLast /\ Len(published) + 1 = cursor
      /\ stage = "check"
  BY DEF EvidenceInv, PublishTypes, RenderFails
<1>2. /\ UNCHANGED <<collectorVars, returned, steps>> /\ previous' = None /\ lastRendered' = None
      /\ UNCHANGED <<files, lost>> \/ Write(ImagePath(cursor), Damaged)
      /\ NextStep([Entry(cursor) EXCEPT !.failed = TRUE])
  BY DEF RenderFails, collectorVars, diskVars
<1> DEFINE entry == EntryWith(None, None, None, TRUE)
<1>3. published' = Append(published, entry) /\ cursor' = cursor + 1 /\ stage' = "step"
      /\ NextStep(entry)
  <2>1. [Entry(cursor) EXCEPT !.failed = TRUE] = entry
    BY EntryCompleted
  <2> HIDE DEF entry
  <2> QED
    BY <1>2, <2>1 DEF NextStep
<1>4. entry.shot = None /\ entry.url = None /\ entry.sameAs = None /\ entry.failed = TRUE
  BY DEF EntryWith
<1>5. /\ entry \in Made /\ Named(entry) \subseteq DOMAIN files \cup ({None} \ {None})
      /\ entry.text = TextPath(cursor) /\ entry.raw \in {None, RawPath(cursor)}
  <2>1. entry \in Made /\ Named(entry) \subseteq DOMAIN files \cup ({None} \ {None})
    BY <1>1, EntryOfStep
  <2>2. entry.text = TextPath(cursor) /\ entry.raw \in {None, RawPath(cursor)}
    BY DEF EntryWith
  <2> QED
    BY <2>1, <2>2
<1> HIDE DEF entry
<1>6. FilesStay /\ ManifestIsLast' /\ DOMAIN files \subseteq DOMAIN files'
  <2>1. CASE UNCHANGED <<files, lost>>
    BY <1>1, <2>1, MoreFiles, ManifestStays
  <2>2. CASE Write(ImagePath(cursor), Damaged)
    BY <1>1, <2>2, WritingStep DEF ImagePath
  <2> QED
    BY <1>2, <2>1, <2>2
<1>7. Named(entry) \subseteq DOMAIN files' /\ (entry.failed <=> (entry.shot = None))
  BY <1>4, <1>5, <1>6
<1>8. /\ EntriesShown' /\ published' \in Seq(Made) /\ Len(published') = cursor
      /\ published'[cursor] = entry
      /\ \A j \in 1..Len(published) : published'[j] = published[j]
  BY <1>1, <1>2, <1>3, <1>4, <1>5, <1>6, <1>7, OneMoreEntry
<1>9. PublishTypes' /\ Written'
  BY <1>1, <1>2, <1>3, <1>8, EntryAdded
<1>10. Remembered'
  BY <1>2 DEF Remembered
<1> QED
  BY <1>6, <1>8, <1>9, <1>10 DEF PublishInv

\* A step whose image was rendered has it, and what was uploaded is what it shows.
LEMMA ImageRendered ==
  ASSUME EvidenceInv, stage = "upload", NEW url, Rendered(url),
         url \in {None, files[ImagePath(cursor)]}
  PROVE  PublishInv'
<1>1. /\ PublishTypes /\ Written /\ ManifestIsLast /\ Len(published) + 1 = cursor
      /\ cursor \in Nat \ {0} /\ Len(published) \in Nat /\ previous = steps[cursor].grid
      /\ ImagePath(cursor) \in DOMAIN files
      /\ files[ImagePath(cursor)] = Look(steps[cursor].grid)
  BY DEF EvidenceInv, PublishTypes, Written
<1>2. /\ UNCHANGED <<collectorVars, previous, returned, files, lost, steps>>
      /\ lastRendered' = [step |-> cursor, shot |-> ImagePath(cursor), url |-> url]
      /\ NextStep([Entry(cursor) EXCEPT !.shot = ImagePath(cursor), !.url = url])
  BY DEF Rendered, collectorVars, diskVars
<1> DEFINE shot == ImagePath(cursor)  entry == EntryWith(shot, url, None, FALSE)
<1>3. published' = Append(published, entry) /\ cursor' = cursor + 1 /\ stage' = "step"
      /\ NextStep(entry)
  <2>1. [Entry(cursor) EXCEPT !.shot = shot, !.url = url] = entry
    <3> HIDE DEF shot
    <3> QED
      BY EntryCompleted
  <2>2. NextStep([Entry(cursor) EXCEPT !.shot = shot, !.url = url])
    BY <1>2
  <2> HIDE DEF entry
  <2> QED
    BY <1>2, <2>1, <2>2 DEF NextStep
<1>4. entry.shot = shot /\ entry.url = url /\ entry.sameAs = None /\ entry.failed = FALSE
  BY DEF EntryWith
<1>5. previous \in Nat
  <2>1. cursor \in 1..Len(steps) /\ steps \in Seq(Captured)
    BY <1>1 DEF EvidenceInv, PublishTypes, Collected
  <2>2. steps[cursor] \in Captured
    BY <2>1
  <2> QED
    BY <1>1, <2>2 DEF Captured
<1>6. url \in Looked \cup {None} /\ (url # None => url = Look(steps[cursor].grid))
  BY <1>1, <1>5 DEF Looked
<1>7. shot \in AnyPath /\ shot # None
  BY <1>1, EvidenceAssumption DEF AnyPath, PathKinds, ImagePath
<1>8. /\ entry \in Made /\ Named(entry) \subseteq DOMAIN files \cup ({shot} \ {None})
      /\ entry.text = TextPath(cursor) /\ entry.raw \in {None, RawPath(cursor)}
  BY <1>1, <1>6, <1>7, EntryOfStep
<1> HIDE DEF entry
<1>9. FilesStay /\ ManifestIsLast'
  BY <1>1, <1>2, MoreFiles, ManifestStays
<1>10. /\ EntriesShown' /\ published' \in Seq(Made) /\ Len(published') = cursor
       /\ published'[cursor] = entry
       /\ \A j \in 1..Len(published) : published'[j] = published[j]
  <2>1. Named(entry) \subseteq DOMAIN files' /\ (entry.failed <=> (entry.shot = None))
    BY <1>1, <1>2, <1>4, <1>7, <1>8
  <2>2. /\ entry.shot = ImagePath(IF entry.sameAs = None THEN cursor ELSE entry.sameAs)
        /\ files'[entry.shot] = Look(steps[cursor].grid)
    BY <1>1, <1>2, <1>4
  <2>3. entry.url # None => entry.shot # None /\ entry.url = Look(steps[cursor].grid)
    BY <1>4, <1>6, <1>7
  <2> QED
    BY <1>2, <1>3, <1>4, <1>8, <1>9, <2>1, <2>2, <2>3, OneMoreEntry
<1>11. lastRendered' \in [step : Nat, shot : AnyPath, url : Looked \cup {None}]
  BY <1>1, <1>2, <1>6, <1>7
<1>12. PublishTypes' /\ Written'
  BY <1>2, <1>3, <1>5, <1>10, <1>11, EntryAdded
<1>13. Remembered'
  <2>1. lastRendered' # None
    BY <1>11, LooksAreNumbers, EvidenceAssumption DEF Renders
  <2>2. /\ lastRendered'.step = cursor /\ lastRendered'.shot = ImagePath(cursor)
        /\ lastRendered'.url = url
    BY <1>2
  <2>3. cursor \in 1..Len(published')
    BY <1>1, <1>10
  <2>4. \A j \in cursor..Len(published') : Look(steps'[j].grid) = Look(previous')
    <3>1. \A j \in cursor..Len(published') : j = cursor
      BY <1>1, <1>10
    <3> QED
      BY <1>1, <1>2, <3>1
  <2> QED
    BY <1>2, <1>4, <1>10, <2>1, <2>2, <2>3, <2>4 DEF Remembered, ImagePath
<1> QED
  BY <1>9, <1>10, <1>12, <1>13 DEF PublishInv

\* What is removed to be replaced is the next file of the publish: no entry names it.
LEMMA TargetRemoved ==
  ASSUME EvidenceInv, RemoveTarget
  PROVE  PublishInv'
<1>1. /\ PublishTypes /\ Written /\ Remembered /\ EntriesShown /\ Collected /\ ManifestIsLast
      /\ Len(steps) \in Nat /\ Len(published) \in Nat /\ Len(published) + 1 = cursor
      /\ stage \in {"step", "raw"} /\ cursor \in Nat \ {0}
  BY DEF EvidenceInv, Collected, PublishTypes, RemoveTarget
<1>2. /\ UNCHANGED <<steps, stage, cursor, previous, lastRendered, published, returned>>
      /\ DOMAIN files' = DOMAIN files \ {Target} /\ lost' = lost \cup {Target}
      /\ \A p \in DOMAIN files' : files'[p] = files[p]
  BY DEF RemoveTarget, collectorVars, publishVars
<1>3. ASSUME NEW j \in 1..Len(published)
      PROVE  Target \notin Named(published[j]) /\ Target # ImagePath(j)
  <2>1. Shown(j) /\ j # cursor /\ j # 0
    BY <1>1 DEF EntriesShown
  <2>2. Target \in {RawPath(cursor), TextPath(cursor), ManifestPath}
    BY <1>1 DEF Target
  <2>3. \A i \in 1..Len(published) : Target # ImagePath(i)
    BY <2>2 DEF RawPath, TextPath, ManifestPath, ImagePath
  <2>4. Target # TextPath(j) /\ Target # RawPath(j)
    BY <2>1, <2>2 DEF RawPath, TextPath, ManifestPath
  <2>5. published[j].shot # None => \E i \in 1..Len(published) : published[j].shot = ImagePath(i)
    BY <1>1, <2>1 DEF Shown
  <2> QED
    BY <2>1, <2>3, <2>4, <2>5 DEF Shown, Named
<1>4. FilesStay
  <2>1. ASSUME NEW j \in 1..Len(published) PROVE Named(published[j]) \subseteq DOMAIN files'
    BY <1>1, <1>2, <1>3 DEF EntriesShown, Shown
  <2> QED
    BY <1>2, <1>3, <2>1 DEF FilesStay
<1>5. EntriesShown'
  <2>1. StepsStay
    BY <1>1, <1>2 DEF StepsStay
  <2> QED
    BY <1>1, <1>2, <1>4, <2>1, EntriesStay
<1>6. ManifestIsLast'
  BY <1>1, <1>2, ManifestStays
<1>7. PublishTypes' /\ Remembered'
  BY <1>1, <1>2 DEF PublishTypes, Remembered
<1>8. Written'
  <2>1. stage = "raw" => Target = RawPath(cursor)
    BY DEF Target
  <2>2. RawPath(cursor) # TextPath(cursor)
    BY DEF RawPath, TextPath
  <2> QED
    BY <1>1, <1>2, <2>1, <2>2 DEF Written
<1> QED
  BY <1>5, <1>6, <1>7, <1>8 DEF PublishInv

\* A publish writes its files in order, and so puts back all that an earlier one has lost:
\* what is still missing lies ahead of it.
LossAhead ==
  /\ \A p \in lost : \/ p = ManifestPath
                     \/ \E i \in 1..Len(steps) : p = TextPath(i)
                     \/ \E i \in 1..Len(steps) : p = RawPath(i) /\ steps[i].raw # None
  /\ stage # "idle" => \A i \in 1..cursor :
       /\ TextPath(i) \in lost => i = cursor /\ stage = "step"
       /\ RawPath(i) \in lost /\ i <= Len(steps) => i = cursor /\ stage \in {"step", "raw"}

LEMMA LossStep ==
  ASSUME EvidenceInv, LossAhead, LossIsRepaired, [EvidenceNext]_evidenceVars
  PROVE  LossAhead' /\ LossIsRepaired'
<1>1. /\ PublishTypes /\ Written /\ Len(steps) \in Nat /\ cursor \in Nat \ {0}
      /\ Len(steps') \in Nat /\ StepsStay
  BY CollectedStep DEF EvidenceInv, Collected, PublishTypes, StepsStay
<1>2. \A i, j \in Nat : /\ TextPath(i) # RawPath(j) /\ TextPath(i) # ImagePath(j)
                        /\ RawPath(i) # ImagePath(j)
                        /\ TextPath(i) # ManifestPath /\ RawPath(i) # ManifestPath
                        /\ TextPath(i) = TextPath(j) => i = j
                        /\ RawPath(i) = RawPath(j) => i = j
  BY DEF TextPath, RawPath, ImagePath, ManifestPath
<1>3. ASSUME lost' \subseteq lost
      PROVE  \A p \in lost' : \/ p = ManifestPath
                              \/ \E i \in 1..Len(steps') : p = TextPath(i)
                              \/ \E i \in 1..Len(steps') : p = RawPath(i) /\ steps'[i].raw # None
  BY <1>1, <1>3 DEF LossAhead, StepsStay
<1> DEFINE Ahead(n, at) == \A i \in 1..n :
             /\ TextPath(i) \in lost' => i = n /\ at = "step"
             /\ RawPath(i) \in lost' /\ i <= Len(steps') => i = n /\ at \in {"step", "raw"}
<1>4. ASSUME lost' \subseteq lost, stage' # "idle" => Ahead(cursor', stage'),
             returned' => lost' = {}
      PROVE  LossAhead' /\ LossIsRepaired'
  <2> HIDE DEF ManifestPath, TextPath, RawPath
  <2>1. /\ ManifestPath' = ManifestPath /\ \A i : TextPath(i)' = TextPath(i)
        /\ \A i : RawPath(i)' = RawPath(i)
    BY DEF ManifestPath, TextPath, RawPath
  <2> QED
    BY <1>3, <1>4, <2>1 DEF LossAhead, LossIsRepaired
<1>5. CASE UNCHANGED <<lost, stage, cursor, returned, steps>>
  BY <1>4, <1>5 DEF LossAhead, LossIsRepaired
<1>6. CASE UNCHANGED <<lost, returned>> /\ stage' = "idle"
  BY <1>4, <1>6 DEF LossIsRepaired
<1>7. CASE Publish
  <2>1. lost' = lost /\ stage' = "step" /\ cursor' = 1 /\ ~returned'
    BY <1>7 DEF Publish, diskVars
  <2> QED
    BY <1>4, <2>1
<1>8. CASE stage = "check" /\ stage' \in {"check", "upload"} /\ lost' \subseteq lost
           /\ UNCHANGED <<cursor, steps>> /\ ~returned'
  BY <1>4, <1>8 DEF LossAhead
<1>9. CASE WriteText
  <2>1. /\ lost' = lost \ {TextPath(cursor)} /\ UNCHANGED <<cursor, steps, returned>>
        /\ stage = "step" /\ stage' = IF steps[cursor].raw = None THEN "check" ELSE "raw"
        /\ cursor <= Len(steps)
    BY <1>9, OneFileWritten DEF WriteText, collectorVars
  <2>2. ~returned
    BY <1>1, <2>1 DEF PublishTypes
  <2>3. RawPath(cursor) \in lost => steps[cursor].raw # None
    BY <1>1, <1>2, <2>1 DEF LossAhead
  <2>4. Ahead(cursor', stage')
    BY <1>1, <1>2, <2>1, <2>3 DEF LossAhead
  <2> QED
    BY <1>4, <2>1, <2>2, <2>4
<1>10. CASE WriteRaw
  <2>1. /\ lost' = lost \ {RawPath(cursor)} /\ UNCHANGED <<cursor, steps, returned>>
        /\ stage = "raw" /\ stage' = "check"
    BY <1>10, OneFileWritten DEF WriteRaw, collectorVars
  <2>2. ~returned
    BY <1>1, <2>1 DEF PublishTypes
  <2>3. Ahead(cursor', stage')
    BY <1>1, <1>2, <2>1 DEF LossAhead
  <2> QED
    BY <1>4, <2>1, <2>2, <2>3
<1>11. CASE \E entry : NextStep(entry) /\ stage \in {"check", "upload"} /\ lost' \subseteq lost
                       /\ UNCHANGED <<steps, returned>>
  <2>1. cursor' = cursor + 1 /\ stage' = "step" /\ ~returned'
    BY <1>1, <1>11 DEF NextStep, PublishTypes
  <2>2. \A i \in 1..cursor' : i \in 1..cursor \/ i = cursor'
    BY <1>1, <2>1
  <2>3. \A i \in 1..cursor : TextPath(i) \notin lost' /\ (i <= Len(steps) => RawPath(i) \notin lost')
    BY <1>11 DEF LossAhead
  <2> QED
    BY <1>4, <1>11, <2>1, <2>2, <2>3
<1>12. CASE WriteManifest
  <2>1. /\ lost' = lost \ {ManifestPath} /\ UNCHANGED <<cursor, steps>> /\ stage = "step"
        /\ stage' = "idle" /\ cursor > Len(steps)
    BY <1>12, OneFileWritten DEF WriteManifest, collectorVars
  <2>2. \A i \in 1..Len(steps) : TextPath(i) \notin lost /\ RawPath(i) \notin lost
    BY <1>1, <2>1 DEF LossAhead
  <2>3. lost' = {}
    BY <2>1, <2>2 DEF LossAhead
  <2> QED
    BY <1>4, <2>1, <2>3
<1>13. CASE RemoveTarget
  <2>1. /\ lost' = lost \cup {Target} /\ UNCHANGED <<cursor, steps, stage, returned>>
        /\ stage \in {"step", "raw"} /\ ~returned
    BY <1>1, <1>13 DEF RemoveTarget, collectorVars, publishVars, PublishTypes
  <2>2. \/ Target = RawPath(cursor) /\ stage = "raw" /\ steps[cursor].raw # None
           /\ cursor <= Len(steps)
        \/ Target = TextPath(cursor) /\ stage = "step" /\ cursor <= Len(steps)
        \/ Target = ManifestPath
    BY <1>1, <2>1 DEF Target, Written, PublishTypes
  <2>3. \A p \in lost' : \/ p = ManifestPath
                         \/ \E i \in 1..Len(steps) : p = TextPath(i)
                         \/ \E i \in 1..Len(steps) : p = RawPath(i) /\ steps[i].raw # None
    BY <1>1, <2>1, <2>2 DEF LossAhead
  <2>4. Ahead(cursor, stage)
    BY <1>1, <1>2, <2>1, <2>2 DEF LossAhead
  <2>5. /\ ManifestPath' = ManifestPath /\ \A i : TextPath(i)' = TextPath(i)
        /\ \A i : RawPath(i)' = RawPath(i)
    BY DEF ManifestPath, TextPath, RawPath
  <2> HIDE DEF ManifestPath, TextPath, RawPath
  <2> QED
    BY <2>1, <2>3, <2>4, <2>5 DEF LossAhead, LossIsRepaired
<1>14. CASE Draw \/ StoreRaw \/ StoreScreen \/ SessionCall \/ Capture \/ PublishFails
            \/ UNCHANGED evidenceVars
  BY <1>5, <1>6, <1>14 DEF Draw, StoreRaw, StoreScreen, SessionCall, Capture, PublishFails,
     evidenceVars, publishVars, diskVars, collectorVars
<1>15. CASE Render
  <2>1. ~returned'
    BY <1>1, <1>15 DEF Render, PublishTypes
  <2>2. lost' \subseteq lost /\ UNCHANGED <<cursor, steps>> /\ stage = "check" /\ stage' = "upload"
    BY <1>15 DEF Render, Write, collectorVars
  <2> QED
    BY <1>8, <2>1, <2>2
<1>16. CASE KeepLocal \/ UploadImage
  <2>1. ASSUME NEW url, Rendered(url), stage = "upload"
        PROVE  LossAhead' /\ LossIsRepaired'
    <3>1. UNCHANGED <<steps, returned, lost>> /\ \E entry : NextStep(entry)
      BY <2>1 DEF Rendered, collectorVars, diskVars
    <3> QED
      BY <1>11, <2>1, <3>1
  <2> QED
    BY <1>16, <2>1 DEF KeepLocal, UploadImage
<1>17. CASE ReuseImage \/ RenderFails
  <2>1. lost' \subseteq lost
    BY <1>17 DEF ReuseImage, RenderFails, Write, diskVars
  <2>2. stage = "check" /\ UNCHANGED <<steps, returned>> /\ \E entry : NextStep(entry)
    BY <1>17 DEF ReuseImage, RenderFails, collectorVars
  <2> QED
    BY <1>11, <2>1, <2>2
<1> QED
  BY <1>7, <1>9, <1>10, <1>12, <1>13, <1>14, <1>15, <1>16, <1>17 DEF EvidenceNext, PublishStep

\* FallbackUploader: a failure that a later store made up for is kept, once.
LEMMA TracedStep ==
  ASSUME EvidenceInv, [EvidenceNext]_evidenceVars
  PROVE  Traced'
<1>1. Traced
  BY DEF EvidenceInv
<1>2. CASE UNCHANGED <<survived, degraded>>
  BY <1>1, <1>2 DEF Traced
<1>3. CASE UploadImage
  <2>1. PICK attempts \in Outcomes :
          /\ Upload(attempts)
          /\ survived' = IF Uploaded(attempts) /\ ErrorsOf(attempts) # <<>>
                         THEN survived \cup {ErrorsOf(attempts)} ELSE survived
    BY <1>3 DEF UploadImage
  <2> DEFINE message == ErrorsOf(attempts)
             new == Uploaded(attempts) /\ message # <<>>
  <2>2. message \in Messaged
    BY DEF Messaged
  <2>3. degraded' = IF new /\ \A i \in 1..Len(degraded) : degraded[i] # message
                    THEN Append(degraded, message) ELSE degraded
    BY <2>1 DEF Upload, RecordDegraded
  <2>4. survived' = IF new THEN survived \cup {message} ELSE survived
    BY <2>1
  <2> HIDE DEF message, new
  <2>5. degraded \in Seq(Messaged) /\ Len(degraded) \in Nat
    BY <1>1 DEF Traced
  <2>6. CASE new /\ \A i \in 1..Len(degraded) : degraded[i] # message
    <3>1. /\ degraded' \in Seq(Messaged) /\ Len(degraded') = Len(degraded) + 1
          /\ degraded'[Len(degraded) + 1] = message
          /\ \A i \in 1..Len(degraded) : degraded'[i] = degraded[i]
      BY <2>2, <2>3, <2>5, <2>6
    <3>2. \A i \in 1..Len(degraded') : i \in 1..Len(degraded) \/ i = Len(degraded) + 1
      BY <2>5, <3>1
    <3>3. ASSUME NEW i \in 1..Len(degraded'), NEW j \in 1..Len(degraded'),
                 degraded'[i] = degraded'[j]
          PROVE  i = j
      BY <1>1, <2>6, <3>1, <3>2, <3>3 DEF Traced
    <3>4. survived' = {degraded'[i] : i \in 1..Len(degraded')}
      <4>1. 1..Len(degraded') = 1..Len(degraded) \cup {Len(degraded) + 1}
        BY <2>5, <3>1
      <4> QED
        BY <1>1, <2>4, <2>6, <3>1, <4>1 DEF Traced
    <3> QED
      BY <3>1, <3>3, <3>4 DEF Traced
  <2>7. CASE new /\ \E i \in 1..Len(degraded) : degraded[i] = message
    <3>1. degraded' = degraded
      BY <2>3, <2>7
    <3>2. survived' = survived
      BY <1>1, <2>4, <2>7 DEF Traced
    <3> QED
      BY <1>1, <3>1, <3>2 DEF Traced
  <2>8. CASE ~new
    BY <1>1, <2>3, <2>4, <2>8 DEF Traced
  <2> QED
    BY <2>6, <2>7, <2>8
<1>4. UploadImage \/ UNCHANGED <<survived, degraded>>
  BY DEF EvidenceNext, Capture, SessionCall, Draw, StoreRaw, StoreScreen, Publish,
         PublishStep, RemoveTarget, PublishFails, WriteText, WriteRaw, ReuseImage, Render, RenderFails, KeepLocal, WriteManifest,
         evidenceVars, uploaderVars
<1> QED
  BY <1>2, <1>3, <1>4

\* The traces are as many as the failures they are of.
LEMMA TracedOnce ==
  ASSUME Traced
  PROVE  DegradedIsTraced
<1>1. degraded \in Seq(Messaged) /\ Len(degraded) \in Nat
  BY DEF Traced
<1> DEFINE n == Len(degraded)  kept == [i \in 1..n |-> degraded[i]]
<1>2. kept \in [1..n -> survived] /\ \A i, j \in 1..n : kept[i] = kept[j] => i = j
  BY DEF Traced
<1>3. \A message \in survived : \E i \in 1..n : kept[i] = message
  BY DEF Traced
<1> HIDE DEF kept
<1>4. ExistsBijection(1..n, survived)
  BY <1>2, <1>3 DEF ExistsBijection, Bijection, Injection, Surjection, IsInjective
<1>5. Cardinality(survived) = n
  BY <1>1, <1>4, FS_CountingElements
<1> QED
  BY <1>5 DEF DegradedIsTraced, Traced

\* The parts hold at first,
LEMMA EvidenceBegins ==
  ASSUME EvidenceInit
  PROVE  EvidenceInv /\ LossAhead /\ LossIsRepaired
<1>1. /\ steps = <<>> /\ published = <<>> /\ degraded = <<>> /\ survived = {} /\ stage = "idle"
      /\ frame = 0 /\ logged = 0 /\ emulated = 0 /\ snapshot = 0 /\ lost = {} /\ cursor = 1 /\ previous = None /\ lastRendered = None
      /\ ~returned /\ DOMAIN files = {}
  BY DEF EvidenceInit, UploaderInit
<1>2. Len(steps) = 0 /\ Len(published) = 0 /\ Len(degraded) = 0
  BY <1>1
<1>3. steps \in Seq(Captured) /\ published \in Seq(Made) /\ degraded \in Seq(Messaged)
  BY <1>1
<1>4. Collected
  BY <1>1, <1>2, <1>3 DEF Collected, CapturesAreOrdered
<1>5. PublishTypes
  BY <1>1, <1>2, <1>3 DEF PublishTypes
<1>6. Written /\ EntriesShown /\ Remembered /\ ManifestIsLast
  BY <1>1, <1>2 DEF Written, EntriesShown, Remembered, ManifestIsLast
<1>7. Traced
  BY <1>1, <1>2, <1>3 DEF Traced
<1> QED
  BY <1>1, <1>4, <1>5, <1>6, <1>7 DEF EvidenceInv, LossAhead, LossIsRepaired

\* are kept by every step,
LEMMA EvidenceStep ==
  ASSUME EvidenceInv, [EvidenceNext]_evidenceVars
  PROVE  EvidenceInv'
<1>1. Collected' /\ StepsStay /\ Traced'
  BY CollectedStep, TracedStep DEF EvidenceInv, StepsStay
<1>2. Len(steps) \in Nat /\ Len(steps') \in Nat
  BY <1>1 DEF EvidenceInv, Collected
<1>3. CASE Capture \/ SessionCall \/ Draw \/ StoreRaw \/ StoreScreen \/ PublishFails
           \/ UNCHANGED evidenceVars
  <2>1. UNCHANGED <<cursor, previous, lastRendered, published, returned, files, lost>>
    BY <1>3 DEF Capture, SessionCall, Draw, StoreRaw, StoreScreen, PublishFails, evidenceVars,
                publishVars, diskVars
  <2>2. \/ stage = "idle" /\ stage' = "idle"
        \/ stage' \in {stage, "idle"} /\ steps' = steps
    BY <1>3 DEF Capture, SessionCall, Draw, StoreRaw, StoreScreen, PublishFails, evidenceVars,
                publishVars, collectorVars
  <2>3. PublishInv'
    BY <1>1, <1>2, <2>1, <2>2, QuietStep
  <2> QED
    BY <1>1, <2>3 DEF EvidenceInv, PublishInv
<1>4. CASE Publish
  BY <1>1, <1>4, PublishBegins DEF EvidenceInv, PublishInv
<1>5. CASE WriteText \/ WriteRaw \/ Render
  BY <1>1, <1>5, FileStep DEF EvidenceInv, PublishInv
<1>6. CASE ReuseImage
  BY <1>1, <1>6, ImageReused DEF EvidenceInv, PublishInv
<1>7. CASE RenderFails
  BY <1>1, <1>7, ImageFailed DEF EvidenceInv, PublishInv
<1>8. CASE KeepLocal
  <2>1. stage = "upload" /\ Rendered(None)
    BY <1>8 DEF KeepLocal
  <2> QED
    BY <1>1, <2>1, ImageRendered DEF EvidenceInv, PublishInv
<1>9. CASE UploadImage
  <2>1. PICK attempts \in Outcomes :
          Rendered(IF Uploaded(attempts) THEN files[ImagePath(cursor)] ELSE None)
    BY <1>9 DEF UploadImage
  <2> DEFINE url == IF Uploaded(attempts) THEN files[ImagePath(cursor)] ELSE None
  <2>2. stage = "upload" /\ Rendered(url) /\ url \in {None, files[ImagePath(cursor)]}
    BY <1>9, <2>1 DEF UploadImage
  <2> HIDE DEF url
  <2> QED
    BY <1>1, <2>2, ImageRendered DEF EvidenceInv, PublishInv
<1>10. CASE WriteManifest
  BY <1>1, <1>10, ManifestWritten DEF EvidenceInv, PublishInv
<1>11. CASE RemoveTarget
  BY <1>1, <1>11, TargetRemoved DEF EvidenceInv, PublishInv
<1> QED
  BY <1>3, <1>4, <1>5, <1>6, <1>7, <1>8, <1>9, <1>10, <1>11 DEF EvidenceNext, PublishStep

\* and say what the evidence promises.
LEMMA EvidenceInvShows ==
  ASSUME EvidenceInv, LossIsRepaired
  PROVE  StepsShowScreens /\ NothingDangles
<1>1. CapturesAreOrdered /\ ManifestIsLast /\ DegradedIsTraced
  BY TracedOnce DEF EvidenceInv, Collected
<1>2. ASSUME NEW i \in 1..Len(published) PROVE Shown(i)
  BY DEF EvidenceInv, EntriesShown
<1>4. ImagesShowSteps
  BY <1>2 DEF ImagesShowSteps, Shown, Named
<1> QED
  BY <1>1, <1>4 DEF StepsShowScreens, NothingDangles

\* However many steps are captured and published, while the program goes on drawing, and
\* wherever renders fail: an image, a reused one too, shows the screen its step captured.
\* Text and grid are of one instant; a failure's log is that of a tmux pane at that instant,
\* and on a pty of the session's last call, ahead of no later screen that differs.
THEOREM StepsAlwaysShowScreens == EvidenceSpec => []StepsShowScreens
<1> DEFINE Inv == EvidenceInv /\ LossAhead /\ LossIsRepaired
<1>1. EvidenceInit => Inv
  BY EvidenceBegins
<1>2. Inv /\ [EvidenceNext]_evidenceVars => Inv'
  BY EvidenceStep, LossStep
<1>3. Inv => StepsShowScreens
  BY EvidenceInvShows
<1> QED
  BY <1>1, <1>2, <1>3, PTL DEF EvidenceSpec

\* Wherever a publish stops, and however many there are, a manifest names no file that is
\* missing but one that a later write removed and could not replace; the next publish that
\* returns has replaced it. What a later store made up for is traced once.
THEOREM NothingEverDangles == EvidenceSpec => []NothingDangles
<1> DEFINE Inv == EvidenceInv /\ LossAhead /\ LossIsRepaired
<1>1. EvidenceInit => Inv
  BY EvidenceBegins
<1>2. Inv /\ [EvidenceNext]_evidenceVars => Inv'
  BY EvidenceStep, LossStep
<1>3. Inv => NothingDangles
  BY EvidenceInvShows
<1> QED
  BY <1>1, <1>2, <1>3, PTL DEF EvidenceSpec

-----------------------------------------------------------------------------
(* CastVideo.                                                              *)

Shot == [at : Nat, screen : Screens]

VideoTypes ==
  /\ phase \in {"open", "events", "draw", "done", "failed"}
  /\ castTime \in Nat /\ playback \in Nat /\ nextFrame \in Nat
  /\ screen \in Screens /\ frames \in Seq(Screens) /\ shown \in Seq(Shot)
  /\ drawn \in 0..Len(frames)

\* Playback is where the last screen shown was, and no pause counted for more than its limit.
Clocked ==
  /\ \A i \in 1..Len(shown) :
       LET before == IF i = 1 THEN 0 ELSE shown[i - 1].at
       IN  before <= shown[i].at /\ shown[i].at <= before + IdleLimit
  /\ playback = IF shown = <<>> THEN 0 ELSE shown[Len(shown)].at
  /\ shown # <<>> => screen = shown[Len(shown)].screen

InOrderOf(fs, sh) ==
  \E place \in [1..Len(fs) -> 1..Len(sh)] :
    /\ \A k \in 1..Len(fs) : sh[place[k]].screen = fs[k]
    /\ \A k \in 1..(Len(fs) - 1) : place[k] <= place[k + 1]

\* The next frame is due where the frames so far end, which is just past the playback time.
Sampled ==
  /\ phase \in {"open", "events"} =>
       /\ nextFrame = Len(frames) * Interval /\ InOrderOf(frames, shown)
       /\ shown = <<>> => nextFrame = 0
       /\ shown # <<>> => playback < nextFrame /\ nextFrame <= playback + Interval
  /\ phase = "open" => shown = <<>>
  /\ phase \in {"draw", "done"} =>
       /\ frames # <<>> /\ frames[Len(frames)] = screen
       /\ shown # <<>> => InOrderOf(frames, shown)
  /\ phase = "done" => video = frames

VideoInv == VideoTypes /\ Clocked /\ Sampled

\* Frames that show the last screen may follow those there are.
LEMMA FramesFollow ==
  ASSUME NEW fs \in Seq(Screens), NEW sh \in Seq(Shot), InOrderOf(fs, sh),
         NEW fs2 \in Seq(Screens), NEW sh2 \in Seq(Shot),
         Len(fs) <= Len(fs2), Len(sh) <= Len(sh2),
         \A k \in 1..Len(fs) : fs2[k] = fs[k],
         \A k \in 1..Len(sh) : sh2[k] = sh[k],
         \A k \in 1..Len(fs2) : k > Len(fs) => sh2 # <<>> /\ fs2[k] = sh2[Len(sh2)].screen
  PROVE  InOrderOf(fs2, sh2)
<1>1. PICK place \in [1..Len(fs) -> 1..Len(sh)] :
        /\ \A k \in 1..Len(fs) : sh[place[k]].screen = fs[k]
        /\ \A k \in 1..(Len(fs) - 1) : place[k] <= place[k + 1]
  BY DEF InOrderOf
<1> DEFINE m == Len(fs)  m2 == Len(fs2)  n == Len(sh)  n2 == Len(sh2)
           place2 == [k \in 1..m2 |-> IF k <= m THEN place[k] ELSE n2]
<1>2. m \in Nat /\ m2 \in Nat /\ n \in Nat /\ n2 \in Nat /\ m <= m2 /\ n <= n2
  OBVIOUS
<1>3. \A k \in 1..m : place[k] \in 1..n
  BY <1>1
<1>4. \A k \in 1..m2 : k > m => n2 # 0
  <2>1. sh2 # <<>> => n2 # 0
    OBVIOUS
  <2> QED
    BY <2>1
<1>5. place2 \in [1..m2 -> 1..n2]
  <2> HIDE DEF m, m2, n, n2
  <2>1. ASSUME NEW k \in 1..m2 PROVE (IF k <= m THEN place[k] ELSE n2) \in 1..n2
    <3>1. CASE k <= m
      <4>1. k \in 1..m
        BY <1>2, <3>1
      <4>2. place[k] \in 1..n
        BY <1>3, <4>1
      <4> QED
        BY <1>2, <3>1, <4>2
    <3>2. CASE k > m
      <4>1. n2 # 0
        BY <1>4, <3>2
      <4>2. ~(k <= m) /\ n2 \in 1..n2
        BY <1>2, <3>2, <4>1
      <4> QED
        BY <4>2
    <3> QED
      BY <1>2, <3>1, <3>2
  <2> QED
    BY <2>1
<1>6. ASSUME NEW k \in 1..m2 PROVE sh2[place2[k]].screen = fs2[k]
  <2>1. CASE k <= m
    <3>1. k \in 1..m /\ place2[k] = place[k]
      BY <1>2, <2>1
    <3> QED
      BY <1>1, <1>3, <3>1
  <2>2. CASE k > m
    <3>1. place2[k] = n2
      BY <1>2, <2>2
    <3> QED
      BY <2>2, <3>1
  <2> QED
    BY <1>2, <2>1, <2>2
<1>7. ASSUME NEW k \in 1..(m2 - 1) PROVE place2[k] <= place2[k + 1]
  <2> HIDE DEF m, m2, n, n2
  <2>1. k \in 1..m2 /\ k + 1 \in 1..m2
    BY <1>2
  <2>2. CASE k + 1 <= m
    <3>1. k \in 1..(m - 1) /\ place2[k] = place[k] /\ place2[k + 1] = place[k + 1]
      BY <1>2, <2>1, <2>2
    <3> QED
      BY <1>1, <3>1 DEF m
  <2>3. CASE k + 1 > m
    <3>1. place2[k + 1] = n2 /\ place2[k] \in 1..n2
      BY <1>2, <1>5, <2>1, <2>3
    <3> QED
      BY <1>2, <3>1
  <2> QED
    BY <1>2, <2>1, <2>2, <2>3
<1> HIDE DEF place2
<1> QED
  BY <1>5, <1>6, <1>7 DEF InOrderOf

\* What a whole division leaves is less than what is divided by.
LEMMA WholeDivision ==
  ASSUME NEW a \in Nat, NEW b \in Nat \ {0}
  PROVE  a \div b \in Nat /\ (a \div b) * b <= a /\ a < (a \div b) * b + b
OBVIOUS

\* The frames that are due at a time bring the next one just past it.
LEMMA DueFrames ==
  ASSUME VideoTypes, NEW time \in Nat
  PROVE  /\ Due(time) \in Nat
         /\ LET next == nextFrame + Due(time) * Interval IN
              /\ next \in Nat /\ time < next
              /\ nextFrame <= time \/ nextFrame = 0 => next <= time + Interval
              /\ time < nextFrame => Due(time) = 0 /\ next = nextFrame
<1>1. Interval \in Nat \ {0} /\ nextFrame \in Nat
  BY VideoAssumption DEF VideoTypes
<1>2. CASE time < nextFrame
  <2>1. Due(time) = 0 /\ Due(time) * Interval = 0
    BY <1>1, <1>2 DEF Due
  <2> QED
    BY <1>1, <1>2, <2>1
<1>3. CASE nextFrame <= time
  <2> DEFINE q == (time - nextFrame) \div Interval
  <2>1. time - nextFrame \in Nat
    BY <1>1, <1>3
  <2>2. q \in Nat /\ q * Interval <= time - nextFrame /\ time - nextFrame < q * Interval + Interval
    BY <1>1, <2>1, WholeDivision
  <2>3. Due(time) = q + 1
    BY <1>1, <1>3 DEF Due
  <2> HIDE DEF q
  <2>4. (q + 1) * Interval = q * Interval + Interval /\ q * Interval \in Nat
    BY <1>1, <2>2
  <2> QED
    BY <1>1, <1>3, <2>2, <2>3, <2>4
<1> QED
  BY <1>1, <1>2, <1>3

\* An output event: the clock, the frames that are due, and the screen they show.
LEMMA OutputStep ==
  ASSUME VideoInv, Output
  PROVE  VideoInv'
<1>1. PICK timestamp \in Stamps, after \in Screens :
        /\ playback' = playback + Elapsed(timestamp) /\ castTime' = timestamp /\ screen' = after
        /\ frames' = frames \o [i \in 1..Due(playback + Elapsed(timestamp)) |-> after]
        /\ nextFrame' = nextFrame + Due(playback + Elapsed(timestamp)) * Interval
        /\ shown' = Append(shown, [at |-> playback + Elapsed(timestamp), screen |-> after])
  BY DEF Output
<1>2. phase = "events" /\ UNCHANGED <<phase, drawn, video>>
  BY DEF Output
<1> DEFINE time == playback + Elapsed(timestamp)  d == Due(time)
           more == [i \in 1..d |-> after]  now == [at |-> time, screen |-> after]
<1>3. /\ castTime \in Nat /\ playback \in Nat /\ nextFrame \in Nat /\ timestamp \in Nat
      /\ IdleLimit \in Nat /\ Interval \in Nat \ {0}
      /\ frames \in Seq(Screens) /\ shown \in Seq(Shot) /\ drawn \in 0..Len(frames)
  BY VideoAssumption DEF VideoInv, VideoTypes
<1>4. time \in Nat /\ playback <= time /\ time <= playback + IdleLimit
  BY <1>3 DEF Elapsed, Smaller, Larger
<1>5. /\ playback' = time /\ castTime' = timestamp /\ screen' = after
      /\ frames' = frames \o more /\ nextFrame' = nextFrame + d * Interval
      /\ shown' = Append(shown, now)
  BY <1>1
<1>6. now \in Shot /\ now.at = time /\ now.screen = after
  BY <1>4 DEF Shot
<1>7. /\ d \in Nat /\ nextFrame' \in Nat /\ time < nextFrame'
      /\ nextFrame <= time \/ nextFrame = 0 => nextFrame' <= time + Interval
      /\ time < nextFrame => nextFrame' = nextFrame
  <2>1. /\ Due(time) \in Nat
        /\ LET next == nextFrame + Due(time) * Interval IN
             /\ next \in Nat /\ time < next
             /\ nextFrame <= time \/ nextFrame = 0 => next <= time + Interval
             /\ time < nextFrame => Due(time) = 0 /\ next = nextFrame
    <3> HIDE DEF time
    <3> QED
      BY <1>4, DueFrames DEF VideoInv
  <2> QED
    BY <1>5, <2>1
<1> HIDE DEF time, d, now
<1>8. more \in Seq(Screens) /\ Len(more) = d /\ \A k \in 1..d : more[k] = after
  BY <1>7
<1> HIDE DEF more
<1>9. /\ frames' \in Seq(Screens) /\ Len(frames') = Len(frames) + d /\ Len(frames) \in Nat
      /\ \A k \in 1..Len(frames) : frames'[k] = frames[k]
      /\ \A k \in 1..Len(frames') : k > Len(frames) => frames'[k] = after
  <2>1. frames' \in Seq(Screens) /\ Len(frames') = Len(frames) + d /\ Len(frames) \in Nat
    <3>1. frames' = frames \o more /\ frames \in Seq(Screens) /\ more \in Seq(Screens)
      BY <1>3, <1>5, <1>8
    <3>2. frames \o more \in Seq(Screens)
      BY <3>1
    <3>3. Len(frames \o more) = Len(frames) + Len(more) /\ Len(frames) \in Nat
      BY <3>1
    <3> QED
      BY <1>8, <3>1, <3>2, <3>3
  <2>2. \A k \in 1..Len(frames) : frames'[k] = frames[k]
    BY <1>3, <1>5, <1>7, <1>8
  <2>3. ASSUME NEW k \in 1..Len(frames'), k > Len(frames) PROVE frames'[k] = after
    <3>1. k - Len(frames) \in 1..d
      BY <1>7, <2>1, <2>3
    <3>2. frames'[k] = more[k - Len(frames)]
      BY <1>3, <1>5, <1>7, <1>8, <2>1, <2>3, <3>1
    <3> QED
      BY <1>8, <3>1, <3>2
  <2> QED
    BY <2>1, <2>2, <2>3
<1>10. /\ shown' \in Seq(Shot) /\ shown' # <<>> /\ Len(shown') = Len(shown) + 1
       /\ Len(shown) \in Nat /\ shown'[Len(shown')] = now
       /\ \A k \in 1..Len(shown) : shown'[k] = shown[k]
  <2>1. shown' = Append(shown, now) /\ shown \in Seq(Shot) /\ now \in Shot
    BY <1>3, <1>5, <1>6
  <2>2. /\ Append(shown, now) \in Seq(Shot)
        /\ Len(Append(shown, now)) = Len(shown) + 1 /\ Len(shown) \in Nat
    BY <2>1
  <2>3. Append(shown, now)[Len(shown) + 1] = now
    BY <2>1
  <2>4. \A k \in 1..Len(shown) : Append(shown, now)[k] = shown[k]
    BY <2>1
  <2>5. Len(shown') # 0
    BY <2>1, <2>2
  <2>6. shown' # <<>>
    BY <2>5
  <2> QED
    BY <2>1, <2>2, <2>3, <2>4, <2>6
<1>11. VideoTypes'
  <2>1. drawn' \in 0..Len(frames')
    BY <1>2, <1>3, <1>7, <1>9
  <2> QED
    BY <1>2, <1>3, <1>4, <1>5, <1>7, <1>9, <1>10, <2>1 DEF VideoInv, VideoTypes
<1>12. Clocked'
  <2>1. playback' = shown'[Len(shown')].at /\ screen' = shown'[Len(shown')].screen
    BY <1>5, <1>6, <1>10
  <2>2. ASSUME NEW i \in 1..Len(shown')
        PROVE  LET before == IF i = 1 THEN 0 ELSE shown'[i - 1].at
               IN  before <= shown'[i].at /\ shown'[i].at <= before + IdleLimit
    <3>1. CASE i \in 1..Len(shown)
      <4>1. i # 1 => i - 1 \in 1..Len(shown)
        BY <1>10, <3>1
      <4>2. LET before == IF i = 1 THEN 0 ELSE shown[i - 1].at
            IN  before <= shown[i].at /\ shown[i].at <= before + IdleLimit
        BY <3>1 DEF VideoInv, Clocked
      <4> QED
        BY <1>10, <3>1, <4>1, <4>2
    <3>2. CASE i = Len(shown) + 1
      <4>1. shown'[i].at = time
        BY <1>6, <1>10, <3>2
      <4>2. CASE i = 1
        <5>1. playback = 0
          BY <1>3, <1>10, <3>2, <4>2 DEF VideoInv, Clocked
        <5> QED
          BY <1>4, <4>1, <4>2, <5>1
      <4>3. CASE i # 1
        <5>1. i - 1 = Len(shown) /\ Len(shown) \in 1..Len(shown) /\ shown # <<>>
          BY <1>10, <3>2, <4>3
        <5>2. playback = shown[Len(shown)].at
          BY <5>1 DEF VideoInv, Clocked
        <5>3. shown'[i - 1].at = playback
          BY <1>10, <5>1, <5>2
        <5> QED
          BY <1>4, <4>1, <4>3, <5>3
      <4> QED
        BY <4>2, <4>3
    <3> QED
      BY <1>10, <3>1, <3>2
  <2> QED
    BY <1>10, <2>1, <2>2 DEF Clocked
<1>13. Sampled'
  <2>1. /\ nextFrame = Len(frames) * Interval /\ InOrderOf(frames, shown)
        /\ shown = <<>> => nextFrame = 0
        /\ shown # <<>> => playback < nextFrame /\ nextFrame <= playback + Interval
    BY <1>2 DEF VideoInv, Sampled
  <2>2. nextFrame' = Len(frames') * Interval
    <3>1. (Len(frames) + d) * Interval = Len(frames) * Interval + d * Interval
      BY <1>3, <1>7, <1>9
    <3> QED
      BY <1>5, <1>9, <2>1, <3>1
  <2>3. playback' < nextFrame' /\ nextFrame' <= playback' + Interval
    BY <1>3, <1>4, <1>5, <1>7, <2>1
  <2>4. InOrderOf(frames', shown')
    <3>1. \A k \in 1..Len(frames') :
            k > Len(frames) => shown' # <<>> /\ frames'[k] = shown'[Len(shown')].screen
      BY <1>6, <1>9, <1>10
    <3>2. Len(frames) <= Len(frames') /\ Len(shown) <= Len(shown')
      BY <1>7, <1>9, <1>10
    <3> QED
      BY <1>3, <1>9, <1>10, <2>1, <3>1, <3>2, FramesFollow
  <2> QED
    BY <1>2, <1>10, <2>2, <2>3, <2>4 DEF Sampled
<1> QED
  BY <1>11, <1>12, <1>13 DEF VideoInv

\* The end of the cast: the final screen is a frame.
LEMMA CastEnds ==
  ASSUME VideoInv, EndOfCast
  PROVE  VideoInv'
<1>1. /\ phase = "events" /\ phase' = "draw"
      /\ frames' = IF frames = <<>> \/ frames[Len(frames)] # screen
                   THEN Append(frames, screen) ELSE frames
      /\ UNCHANGED <<castTime, playback, nextFrame, screen, drawn, video, shown>>
  BY DEF EndOfCast, Goto
<1>2. VideoTypes /\ Clocked /\ frames \in Seq(Screens) /\ screen \in Screens /\ Len(frames) \in Nat
      /\ shown \in Seq(Shot) /\ InOrderOf(frames, shown)
  BY <1>1 DEF VideoInv, VideoTypes, Sampled
<1>3. /\ frames' \in Seq(Screens) /\ Len(frames') \in {Len(frames), Len(frames) + 1}
      /\ \A k \in 1..Len(frames) : frames'[k] = frames[k]
      /\ \A k \in 1..Len(frames') : k > Len(frames) => frames'[k] = screen
      /\ frames' # <<>> /\ frames'[Len(frames')] = screen
  <2>1. CASE frames = <<>> \/ frames[Len(frames)] # screen
    BY <1>1, <1>2, <2>1
  <2>2. CASE ~(frames = <<>> \/ frames[Len(frames)] # screen)
    BY <1>1, <1>2, <2>2
  <2> QED
    BY <2>1, <2>2
<1>4. VideoTypes'
  <2>1. drawn' \in 0..Len(frames')
    BY <1>1, <1>2, <1>3 DEF VideoTypes
  <2> QED
    BY <1>1, <1>2, <1>3, <2>1 DEF VideoTypes
<1>5. Clocked'
  BY <1>1, <1>2 DEF Clocked
<1>6. shown # <<>> => InOrderOf(frames', shown)
  <2> SUFFICES ASSUME shown # <<>> PROVE InOrderOf(frames', shown)
    OBVIOUS
  <2>1. screen = shown[Len(shown)].screen
    BY <1>2 DEF Clocked
  <2>2. /\ Len(frames) <= Len(frames') /\ Len(shown) <= Len(shown)
        /\ \A k \in 1..Len(frames') :
             k > Len(frames) => shown # <<>> /\ frames'[k] = shown[Len(shown)].screen
    BY <1>2, <1>3, <2>1
  <2> QED
    BY <1>2, <1>3, <2>2, FramesFollow
<1>7. Sampled'
  BY <1>1, <1>3, <1>6 DEF Sampled
<1> QED
  BY <1>4, <1>5, <1>7 DEF VideoInv

\* Every other step of the conversion.
LEMMA VideoInvStep ==
  ASSUME VideoInv, [VideoStep]_videoVars
  PROVE  VideoInv'
<1>1. VideoTypes /\ Clocked /\ Sampled /\ frames \in Seq(Screens) /\ Len(frames) \in Nat
  BY DEF VideoInv, VideoTypes
<1>2. CASE OpenFails
  BY <1>1, <1>2 DEF OpenFails, Goto, VideoInv, VideoTypes, Clocked, Sampled
<1>3. CASE ReadHeader
  BY <1>1, <1>3 DEF ReadHeader, Goto, VideoInv, VideoTypes, Clocked, Sampled
<1>4. CASE BadLine
  BY <1>1, <1>4 DEF BadLine, Goto, VideoInv, VideoTypes, Clocked, Sampled
<1>5. CASE SkipLine
  BY <1>1, <1>5 DEF SkipLine, VideoInv, VideoTypes, Clocked, Sampled
<1>6. CASE Output
  BY <1>6, OutputStep
<1>7. CASE EndOfCast
  BY <1>7, CastEnds
<1>8. CASE DrawFrame
  <2>1. drawn' \in 0..Len(frames)
    BY <1>1, <1>8 DEF DrawFrame, VideoTypes
  <2> QED
    BY <1>1, <1>8, <2>1 DEF DrawFrame, VideoInv, VideoTypes, Clocked, Sampled
<1>9. CASE ToolFails
  BY <1>1, <1>9 DEF ToolFails, Goto, VideoInv, VideoTypes, Clocked, Sampled
<1>10. CASE Encode
  <2>1. SubSeq(frames, 1, Len(frames)) = frames
    BY <1>1
  <2>2. video' = frames
    BY <1>10, <2>1 DEF Encode
  <2> QED
    BY <1>1, <1>10, <2>2 DEF Encode, Goto, VideoInv, VideoTypes, Clocked, Sampled
<1>11. CASE UNCHANGED videoVars
  BY <1>1, <1>11 DEF videoVars, VideoInv, VideoTypes, Clocked, Sampled
<1> QED
  BY <1>2, <1>3, <1>4, <1>5, <1>6, <1>7, <1>8, <1>9, <1>10, <1>11 DEF VideoStep

\* Whatever the timestamps of a cast, playback never goes back and spends no more than the
\* limit on a pause, as many frames are sampled as it is long, and a video that was made
\* shows screens of the cast in their order and ends with the last of them.
THEOREM VideoAlwaysWhole == VideoSpec => []VideoIsWhole
<1>1. VideoInit => VideoInv
  <2> SUFFICES ASSUME VideoInit PROVE VideoInv
    OBVIOUS
  <2>1. Len(frames) = 0 /\ Len(shown) = 0 /\ Interval \in Nat
    BY VideoAssumption DEF VideoInit
  <2>2. InOrderOf(frames, shown)
    <3> DEFINE nowhere == [k \in 1..Len(frames) |-> k]
    <3>1. 1..Len(frames) = {} /\ 1..(Len(frames) - 1) = {}
      BY <2>1
    <3>2. nowhere \in [1..Len(frames) -> 1..Len(shown)]
      BY <3>1
    <3>3. /\ \A k \in 1..Len(frames) : shown[nowhere[k]].screen = frames[k]
          /\ \A k \in 1..(Len(frames) - 1) : nowhere[k] <= nowhere[k + 1]
      BY <3>1
    <3> HIDE DEF nowhere
    <3> QED
      BY <3>2, <3>3 DEF InOrderOf
  <2>3. VideoTypes
    BY <2>1, VideoAssumption DEF VideoInit, VideoTypes
  <2>4. Clocked
    BY <2>1 DEF VideoInit, Clocked
  <2>5. Sampled
    BY <2>1, <2>2 DEF VideoInit, Sampled
  <2> QED
    BY <2>3, <2>4, <2>5 DEF VideoInv
<1>2. VideoInv /\ [VideoStep]_videoVars => VideoInv'
  BY VideoInvStep
<1>3. VideoInv => VideoIsWhole
  <2> SUFFICES ASSUME VideoInv PROVE VideoIsWhole
    OBVIOUS
  <2> DEFINE n == Len(frames)
  <2>1. /\ Interval \in Nat \ {0} /\ playback \in Nat /\ nextFrame \in Nat
        /\ frames \in Seq(Screens) /\ n \in Nat
    BY VideoAssumption DEF VideoInv, VideoTypes
  <2>2. ASSUME phase = "events", shown # <<>>
        PROVE  (n - 1) * Interval <= playback /\ playback < n * Interval
    <3>1. nextFrame = n * Interval /\ playback < nextFrame /\ nextFrame <= playback + Interval
      BY <2>2 DEF VideoInv, Sampled
    <3> HIDE DEF n
    <3>2. (n - 1) * Interval = n * Interval - Interval
      BY <2>1
    <3> QED
      BY <2>1, <3>1, <3>2
  <2>3. ASSUME phase = "done"
        PROVE  video # <<>> /\ video[Len(video)] = screen /\ (shown # <<>> => InOrder(video))
    BY <2>3 DEF VideoInv, Sampled, InOrder, InOrderOf
  <2>4. \A i \in 1..Len(shown) :
          LET before == IF i = 1 THEN 0 ELSE shown[i - 1].at
          IN  before <= shown[i].at /\ shown[i].at <= before + IdleLimit
    BY DEF VideoInv, Clocked
  <2> QED
    BY <2>2, <2>3, <2>4 DEF VideoIsWhole
<1> QED
  BY <1>1, <1>2, <1>3, PTL DEF VideoSpec

-----------------------------------------------------------------------------
(* RecipeFile.                                                             *)

\* What each reader made of the document.
Readings ==
  /\ document \in Documents /\ reading \in {"validate", "typed", "loaded", "read"}
  /\ reading # "validate" =>
       issues = VersionIssues(document) \cup SchemaIssues(document)
                \cup LegacyIntIssues(document) \cup PluginIssues(document)
  /\ reading \in {"loaded", "read"} =>
       (typed <=> \A f \in Fields : YamlAccepts(Typed[f], document[f]))
  /\ reading = "read" => loaded = \A f \in Fields : FieldAccepts(Runnable[f], document[f])

\* The fields of a recipe.
LEMMA NamesOfFields ==
  Fields = {"argv", "cwd", "env", "pty", "action", "step_name", "step_timeout", "kind",
            "assertion_name", "recipe_version", "name", "description", "intent", "priority",
            "execution", "determinism", "ci_paths", "checks", "operator", "renderers",
            "expect_exit_code", "timeout_seconds", "cols", "rows"}
BY DEF Fields, Typed, Join, CommandFields, StepFields, AssertionFields, RecipeFields

\* The fields whose numbers have a size.
LEMMA SizedFields ==
  /\ Typed["recipe_version"] = Defaulted("u32")
  /\ Typed["cols"] = Defaulted("u32") /\ Typed["rows"] = Defaulted("u32")
  /\ Typed["expect_exit_code"] = Optional("i32")
  /\ \A f \in Fields \ {"recipe_version", "cols", "rows", "expect_exit_code"} :
       Typed[f].type \notin {"u32", "i32"}
<1>1. Typed["recipe_version"] = Defaulted("u32")
  BY DEF Typed, Join, CommandFields, StepFields, AssertionFields, RecipeFields
<1>2. Typed["cols"] = Defaulted("u32") /\ Typed["rows"] = Defaulted("u32")
  BY DEF Typed, Join, CommandFields, StepFields, AssertionFields, RecipeFields
<1>3. Typed["expect_exit_code"] = Optional("i32")
  BY DEF Typed, Join, CommandFields, StepFields, AssertionFields, RecipeFields
<1>4. ASSUME NEW f \in Fields \ {"recipe_version", "cols", "rows", "expect_exit_code"}
      PROVE  Typed[f].type \notin {"u32", "i32"}
  BY DEF Fields, Typed, Join, CommandFields, StepFields, AssertionFields, RecipeFields,
         Needed, Defaulted, Optional
<1> QED
  BY <1>1, <1>2, <1>3, <1>4

\* What a field whose size the structs give accepts.
LEMMA SizedAccepts ==
  /\ \A v \in ValueKinds :
       FieldAccepts(Defaulted("u32"), v) <=> v \in {"absent", "zero", "one", "wide"}
  /\ \A v \in ValueKinds : FieldAccepts(Defaulted("u16"), v) <=> v \in {"absent", "zero", "one"}
  /\ \A v \in ValueKinds :
       FieldAccepts(Optional("i32"), v) <=> v \in {"absent", "null", "minus", "zero", "one", "wide"}
<1>1. ASSUME NEW v \in ValueKinds
      PROVE  FieldAccepts(Defaulted("u32"), v) <=> v \in {"absent", "zero", "one", "wide"}
  BY DEF FieldAccepts, Defaulted, OfType, ValueKinds, WholeNumbers
<1>2. ASSUME NEW v \in ValueKinds
      PROVE  FieldAccepts(Defaulted("u16"), v) <=> v \in {"absent", "zero", "one"}
  BY DEF FieldAccepts, Defaulted, OfType, ValueKinds, WholeNumbers
<1>3. ASSUME NEW v \in ValueKinds
      PROVE  FieldAccepts(Optional("i32"), v)
               <=> v \in {"absent", "null", "minus", "zero", "one", "wide"}
  BY DEF FieldAccepts, Optional, OfType, ValueKinds, WholeNumbers
<1> QED
  BY <1>1, <1>2, <1>3

\* A value that YAML takes and the field does not is a scalar where a text is asked for.
LEMMA YamlTakes ==
  ASSUME NEW field, NEW v
  PROVE  /\ FieldAccepts(field, v) => YamlAccepts(field, v)
         /\ YamlAccepts(field, v) =>
              \/ FieldAccepts(field, v)
              \/ field.type = "text" /\ v \in Scalars
              \/ field.type = "texts" /\ v = "mixed"
         /\ field.type \notin {"text", "texts"} /\ YamlAccepts(field, v) => FieldAccepts(field, v)
<1>1. FieldAccepts(field, v) => YamlAccepts(field, v)
  BY DEF YamlAccepts
<1>2. YamlAccepts(field, v) =>
        \/ FieldAccepts(field, v)
        \/ field.type = "text" /\ v \in Scalars
        \/ field.type = "texts" /\ v = "mixed"
  BY DEF YamlAccepts
<1> QED
  BY <1>1, <1>2

\* The fields that validation never types are texts that may be absent.
LEMMA NeverTypedFields ==
  \A f \in NeverTyped : Typed[f].type = "text" /\ Typed[f].default
BY DEF NeverTyped, Typed, Join, CommandFields, StepFields, AssertionFields, RecipeFields,
       Needed, Defaulted, Optional

\* What the typed loader takes, validation refuses for few reasons.
LEMMA TypedIsValid ==
  ASSUME NEW d \in Documents, \A f \in Fields : YamlAccepts(Typed[f], d[f]),
         NEW i \in VersionIssues(d) \cup SchemaIssues(d) \cup LegacyIntIssues(d)
                   \cup PluginIssues(d),
         i.severity = "error"
  PROVE  \/ i.path = "recipe_version" /\ d[i.path] # "one"
         \/ i.path \in {"cols", "rows"} /\ d[i.path] = "zero"
         \/ i.path \in {"action", "kind"} /\ d[i.path] # "known"
         \/ Typed[i.path].type = "text" /\ d[i.path] \in Scalars
         \/ Typed[i.path].type = "texts" /\ d[i.path] = "mixed"
<1>0. {"recipe_version", "cols", "rows", "expect_exit_code"} \subseteq Fields
      /\ \A f \in Fields : d[f] \in ValueKinds
  BY NamesOfFields DEF Documents
<1>1. CASE i \in VersionIssues(d)
  BY <1>1 DEF VersionIssues, IssueAt
<1>2. CASE i \in SchemaIssues(d)
  <2>1. PICK f \in Fields : i = IssueAt(f) /\ ~SchemaAllows(Typed[f], d[f])
    BY <1>2 DEF SchemaIssues
  <2>2. ~FieldAccepts(Typed[f], d[f]) /\ i.path = f
    BY <2>1 DEF SchemaAllows, IssueAt
  <2> QED
    BY <2>1, <2>2, YamlTakes
<1>3. CASE i \in LegacyIntIssues(d)
  <2>1. CASE \E f \in {"cols", "rows"} :
               /\ i = IssueAt(f) /\ d[f] \notin {"absent", "null", "one", "wide", "huge"}
    <3>1. PICK f \in {"cols", "rows"} :
            i = IssueAt(f) /\ d[f] \notin {"absent", "null", "one", "wide", "huge"}
      BY <2>1
    <3>2. Typed[f] = Defaulted("u32") /\ Typed[f].type = "u32" /\ f \in Fields
      BY <1>0, <3>1, SizedFields DEF Defaulted
    <3>3. FieldAccepts(Typed[f], d[f])
      BY <3>2, YamlTakes
    <3>4. d[f] \in {"absent", "zero", "one", "wide"}
      BY <1>0, <3>2, <3>3, SizedAccepts
    <3> QED
      BY <3>1, <3>4 DEF IssueAt
  <2>2. CASE /\ i = IssueAt("expect_exit_code")
             /\ d["expect_exit_code"] \notin {"absent", "null"} \cup WholeNumbers
    <3>1. Typed["expect_exit_code"] = Optional("i32") /\ Typed["expect_exit_code"].type = "i32"
      BY SizedFields DEF Optional
    <3>2. FieldAccepts(Typed["expect_exit_code"], d["expect_exit_code"])
      BY <1>0, <3>1, YamlTakes
    <3>3. d["expect_exit_code"] \in {"absent", "null", "minus", "zero", "one", "wide"}
      BY <1>0, <3>1, <3>2, SizedAccepts
    <3> QED
      BY <2>2, <3>3 DEF WholeNumbers
  <2> QED
    BY <1>3, <2>1, <2>2 DEF LegacyIntIssues
<1>4. CASE i \in PluginIssues(d)
  BY <1>4 DEF PluginIssues, IssueAt
<1> QED
  BY <1>1, <1>2, <1>3, <1>4

\* A document of which validation has no error.
NoError(d) ==
  ~ \E i \in VersionIssues(d) \cup SchemaIssues(d) \cup LegacyIntIssues(d) \cup PluginIssues(d) :
      i.severity = "error"

\* What such a document may hold.
LEMMA ValidFields ==
  ASSUME NEW d \in Documents, NoError(d)
  PROVE  /\ d["recipe_version"] \in {"absent", "one"}
         /\ \A f \in {"cols", "rows"} : d[f] \in {"absent", "null", "one", "wide", "huge"}
         /\ d["expect_exit_code"] \in {"absent", "null"} \cup WholeNumbers
         /\ \A f \in Fields \ {"recipe_version", "cols", "rows", "expect_exit_code"} :
              SchemaAllows(Typed[f], d[f]) \/ LegacyTolerated(d, f)
<1>1. \A f : IssueAt(f).severity = "error"
  BY DEF IssueAt
<1>2. d["recipe_version"] \in {"absent", "one"}
  <2> SUFFICES ASSUME d["recipe_version"] \notin {"absent", "one"} PROVE FALSE
    OBVIOUS
  <2>1. IssueAt("recipe_version") \in VersionIssues(d)
    BY DEF VersionIssues
  <2> QED
    BY <1>1, <2>1 DEF NoError
<1>3. ASSUME NEW f \in {"cols", "rows"}, d[f] \notin {"absent", "null", "one", "wide", "huge"}
      PROVE  FALSE
  <2>1. IssueAt(f) \in LegacyIntIssues(d)
    BY <1>3 DEF LegacyIntIssues
  <2> QED
    BY <1>1, <2>1 DEF NoError
<1>4. ASSUME d["expect_exit_code"] \notin {"absent", "null"} \cup WholeNumbers
      PROVE  FALSE
  <2>1. IssueAt("expect_exit_code") \in LegacyIntIssues(d)
    BY <1>4 DEF LegacyIntIssues
  <2> QED
    BY <1>1, <2>1 DEF NoError
<1>5. ASSUME NEW f \in Fields \ {"recipe_version", "cols", "rows", "expect_exit_code"},
             ~SchemaAllows(Typed[f], d[f]), ~LegacyTolerated(d, f)
      PROVE  FALSE
  <2>1. IssueAt(f) \in SchemaIssues(d)
    BY <1>5 DEF SchemaIssues, LegacyIntOwned
  <2> QED
    BY <1>1, <2>1 DEF NoError
<1> QED
  BY <1>2, <1>3, <1>4, <1>5

\* What validation lets through and the typed loader does not take.
LEMMA ValidIsNearlyTyped ==
  ASSUME NEW d \in Documents, NoError(d), NEW f \in Fields
  PROVE  \/ YamlAccepts(Typed[f], d[f])
         \/ d[f] = "null" /\ f \in NullTolerant
         \/ f \in NeverTyped /\ d[f] \in {"texts", "mixed", "nested", "map"}
         \/ d[f] = "huge" /\ Typed[f].type \in {"u32", "i32"}
<1>1. d[f] \in ValueKinds
  BY DEF Documents
<1>2. CASE f = "recipe_version"
  BY <1>1, <1>2, ValidFields, SizedFields, SizedAccepts, YamlTakes
<1>3. CASE f \in {"cols", "rows"}
  <2>1. Typed[f] = Defaulted("u32") /\ Typed[f].type = "u32"
    BY <1>3, SizedFields DEF Defaulted
  <2>2. d[f] \in {"absent", "null", "one", "wide", "huge"}
    BY <1>3, ValidFields
  <2>3. f \in NullTolerant
    BY <1>3 DEF NullTolerant
  <2> QED
    BY <1>1, <2>1, <2>2, <2>3, SizedAccepts, YamlTakes
<1>4. CASE f = "expect_exit_code"
  <2>1. Typed[f] = Optional("i32") /\ Typed[f].type = "i32"
    BY <1>4, SizedFields DEF Optional
  <2>2. d[f] \in {"absent", "null"} \cup WholeNumbers
    BY <1>4, ValidFields
  <2> QED
    BY <1>1, <2>1, <2>2, SizedAccepts, YamlTakes DEF WholeNumbers
<1>5. CASE f \notin {"recipe_version", "cols", "rows", "expect_exit_code"}
  <2>1. Typed[f].type \notin {"u32", "i32"}
    BY <1>5, SizedFields
  <2>2. SchemaAllows(Typed[f], d[f]) \/ LegacyTolerated(d, f)
    BY <1>5, ValidFields
  <2>3. CASE FieldAccepts(Typed[f], d[f])
    BY <2>3, YamlTakes
  <2>4. CASE f \in NeverTyped
    <3>1. Typed[f].type = "text" /\ Typed[f].default
      BY <2>4, NeverTypedFields
    <3>2. d[f] \in Scalars \cup {"absent", "text", "known"}
            => YamlAccepts(Typed[f], d[f])
      BY <3>1 DEF YamlAccepts, FieldAccepts, OfType
    <3>3. d[f] \in Scalars \cup {"absent", "text", "known"}
          \/ d[f] \in {"texts", "mixed", "nested", "map"}
      BY <1>1 DEF ValueKinds
    <3> QED
      BY <2>4, <3>2, <3>3
  <2>5. CASE d[f] = "null" /\ f \in NullTolerant
    BY <2>5
  <2> QED
    BY <2>1, <2>2, <2>3, <2>4, <2>5 DEF SchemaAllows, LegacyTolerated
<1> QED
  BY <1>2, <1>3, <1>4, <1>5

\* What both take, the runner takes unless it is wider than a terminal or only YAML's text.
LEMMA RunnerTakes ==
  ASSUME NEW d \in Documents, NoError(d), \A f \in Fields : YamlAccepts(Typed[f], d[f]),
         \A f \in {"cols", "rows"} : d[f] # "wide",
         \A f \in NeverTyped \cup NullTolerant : ~(d[f] \in Scalars /\ Typed[f].type = "text")
  PROVE  \A f \in Fields : FieldAccepts(Runnable[f], d[f])
<1> SUFFICES ASSUME NEW f \in Fields PROVE FieldAccepts(Runnable[f], d[f])
  OBVIOUS
<1>1. d[f] \in ValueKinds
  BY DEF Documents
<1>2. CASE f \in Untouched
  <2>1. Runnable[f] = [Optional("value") EXCEPT !.default = TRUE]
    BY <1>2 DEF Runnable
  <2>2. Runnable[f].type = "value" /\ Runnable[f].default /\ Runnable[f].option
    BY <2>1 DEF Optional
  <2> QED
    BY <1>1, <2>2 DEF FieldAccepts, OfType
<1>3. CASE f \notin Untouched /\ f \in {"cols", "rows"}
  <2>1. Runnable[f] = Defaulted("u16")
    BY <1>3 DEF Runnable
  <2>2. Typed[f] = Defaulted("u32") /\ FieldAccepts(Typed[f], d[f])
    BY <1>3, SizedFields, YamlTakes DEF Defaulted
  <2>3. d[f] \in {"absent", "zero", "one", "wide"} /\ d[f] # "wide"
    BY <1>1, <1>3, <2>2, SizedAccepts
  <2> QED
    BY <1>1, <2>1, <2>3, SizedAccepts
<1>4. CASE f \notin Untouched /\ f \notin {"cols", "rows"}
  <2>1. Runnable[f] = Typed[f]
    BY <1>4 DEF Runnable
  <2>2. CASE Typed[f].type \notin {"text", "texts"}
    BY <2>1, <2>2, YamlTakes
  <2>3. CASE Typed[f].type \in {"text", "texts"}
    <3>1. f \notin {"recipe_version", "cols", "rows", "expect_exit_code"}
      BY <2>3, SizedFields DEF Defaulted, Optional
    <3>2. SchemaAllows(Typed[f], d[f]) \/ LegacyTolerated(d, f)
      BY <3>1, ValidFields
    <3>3. SchemaAllows(Typed[f], d[f]) => FieldAccepts(Typed[f], d[f])
      BY <2>3 DEF SchemaAllows
    <3>4. "mixed" \notin Scalars /\ "null" # "mixed"
      BY DEF Scalars, WholeNumbers
    <3>5. LegacyTolerated(d, f) => f \in NeverTyped \cup NullTolerant
      BY DEF LegacyTolerated
    <3>6. f \in NeverTyped => Typed[f].type # "texts"
      BY NeverTypedFields
    <3> QED
      BY <2>1, <3>2, <3>3, <3>4, <3>5, <3>6, YamlTakes DEF LegacyTolerated
  <2> QED
    BY <2>2, <2>3
<1> QED
  BY <1>2, <1>3, <1>4

\* Of every document, whatever each of its fields holds: validation refuses of what the typed
\* loader takes only the version, the dimensions, a plugin nobody configured or a scalar that
\* YAML read as a text; it lets through only a null, an untyped text or a number without its
\* size that the typed loader does not take; and what both take the runner takes unless it is
\* wider than a terminal or only a text to YAML.
THEOREM ReadersAlwaysAgree == RecipeSpec => []ReadersAgree
<1>1. RecipeInit(Documents) => Readings
  BY DEF RecipeInit, Readings
<1>2. Readings /\ [RecipeStep]_recipeVars => Readings'
  <2> SUFFICES ASSUME Readings, [RecipeStep]_recipeVars PROVE Readings'
    OBVIOUS
  <2>1. CASE ValidateRecipeValue
    BY <2>1 DEF ValidateRecipeValue, Readings
  <2>2. CASE FromStr
    <3>1. (\A f \in Fields : FieldAccepts(Typed[f], document[f]))
            => \A f \in Fields : YamlAccepts(Typed[f], document[f])
      BY YamlTakes
    <3> QED
      BY <2>2, <3>1 DEF FromStr, Readings
  <2>3. CASE FromFile
    BY <2>3 DEF FromFile, Readings
  <2>4. CASE UNCHANGED recipeVars
    BY <2>4 DEF recipeVars, Readings
  <2> QED
    BY <2>1, <2>2, <2>3, <2>4 DEF RecipeStep
<1>3. Readings => ReadersAgree
  <2> SUFFICES ASSUME Readings, reading = "read" PROVE ReadersAgree
    BY DEF ReadersAgree
  <2>1. document \in Documents
        /\ issues = VersionIssues(document) \cup SchemaIssues(document)
                    \cup LegacyIntIssues(document) \cup PluginIssues(document)
    BY DEF Readings
  <2>2. /\ typed <=> \A f \in Fields : YamlAccepts(Typed[f], document[f])
        /\ loaded <=> \A f \in Fields : FieldAccepts(Runnable[f], document[f])
    BY DEF Readings
  <2>3. ~HasErrors <=> NoError(document)
    BY <2>1 DEF HasErrors, NoError
  <2>4. ASSUME typed, NEW i \in issues, i.severity = "error"
        PROVE  \/ i.path = "recipe_version" /\ document[i.path] # "one"
               \/ i.path \in {"cols", "rows"} /\ document[i.path] = "zero"
               \/ i.path \in {"action", "kind"} /\ document[i.path] # "known"
               \/ Typed[i.path].type = "text" /\ document[i.path] \in Scalars
               \/ Typed[i.path].type = "texts" /\ document[i.path] = "mixed"
    BY <2>1, <2>2, <2>4, TypedIsValid
  <2>5. ASSUME ~HasErrors, NEW f \in Fields
        PROVE  \/ YamlAccepts(Typed[f], document[f])
               \/ document[f] = "null" /\ f \in NullTolerant
               \/ f \in NeverTyped /\ document[f] \in {"texts", "mixed", "nested", "map"}
               \/ document[f] = "huge" /\ Typed[f].type \in {"u32", "i32"}
    BY <2>1, <2>3, <2>5, ValidIsNearlyTyped
  <2>6. ASSUME ~HasErrors, typed, \A f \in {"cols", "rows"} : document[f] # "wide",
               \A f \in NeverTyped \cup NullTolerant :
                 ~(document[f] \in Scalars /\ Typed[f].type = "text")
        PROVE  loaded
    BY <2>1, <2>2, <2>3, <2>6, RunnerTakes
  <2> QED
    BY <2>4, <2>5, <2>6 DEF ReadersAgree
<1> QED
  BY <1>1, <1>2, <1>3, PTL DEF RecipeSpec

-----------------------------------------------------------------------------
(* Assertions.                                                             *)

\* Each verdict is its assertion's.
JudgedSoFar ==
  /\ recipe \in AnyRecipe /\ facts \in AnyWorld
  /\ verdicts \in Seq(BOOLEAN) /\ Len(verdicts) <= Len(EvaluatedList)
  /\ \A i \in 1..Len(verdicts) : verdicts[i] <=> Dispatch(EvaluatedList[i]) = "passed"

\* The assertions a recipe evaluates, of which one at most is not its own.
LEMMA EvaluatedIsTyped ==
  ASSUME recipe \in AnyRecipe
  PROVE  /\ EvaluatedList \in Seq(AnyAssertion) /\ Len(recipe.assertions) \in Nat
         /\ \A i \in 1..Len(EvaluatedList) : i > Len(recipe.assertions) =>
              recipe.expected # {} /\ EvaluatedList[i] = Exact("exit_code", recipe.expected)
<1>1. recipe.assertions \in Seq(AnyAssertion) /\ recipe.expected \in Codes
  BY DEF AnyRecipe
<1> DEFINE own == recipe.assertions  exact == Exact("exit_code", recipe.expected)
<1>2. own \in Seq(AnyAssertion) /\ Len(own) \in Nat
  BY <1>1
<1>3. exact \in AnyAssertion
  <2>1. recipe.expected \in SUBSET Int
    BY <1>1 DEF Codes
  <2>2. String("exit_code") \in AnyValue
    BY AssertionAssumption DEF String, Value, AnyValue, AnyType
  <2>3. Absent \in AnyValue
    BY AssertionAssumption DEF Absent, Value, AnyValue, AnyType
  <2>4. Value("int", "code", recipe.expected) \in AnyValue
    BY <2>1, AssertionAssumption DEF Value, AnyValue, AnyType
  <2> QED
    BY <2>2, <2>3, <2>4 DEF Exact, AssertionOf, AnyAssertion
<1> HIDE DEF own, exact
<1>4. CASE recipe.expected = {}
  <2>1. EvaluatedList = own \o <<>>
    BY <1>4 DEF EvaluatedList, own
  <2>2. EvaluatedList = own
    BY <1>2, <2>1
  <2> QED
    BY <1>2, <2>2 DEF own
<1>5. CASE recipe.expected # {}
  <2>1. EvaluatedList = own \o <<exact>>
    BY <1>5 DEF EvaluatedList, own, exact
  <2>2. own \o <<exact>> \in Seq(AnyAssertion) /\ Len(own \o <<exact>>) = Len(own) + 1
    BY <1>2, <1>3
  <2>3. (own \o <<exact>>)[Len(own) + 1] = exact
    BY <1>2, <1>3
  <2>4. \A i \in 1..(Len(own) + 1) : i > Len(own) => i = Len(own) + 1
    BY <1>2
  <2>5. \A i \in 1..Len(EvaluatedList) : i > Len(own) => EvaluatedList[i] = exact
    BY <2>1, <2>2, <2>3, <2>4
  <2> QED
    BY <1>2, <1>5, <2>1, <2>2, <2>5 DEF own, exact
<1> QED
  BY <1>4, <1>5

\* What an assertion needs, kind by kind.
LEMMA NeedsByKind ==
  ASSUME NEW a \in AnyAssertion, a.type.is = "string"
  PROVE  /\ a.type.text \in {"output_contains", "output_not_contains", "screen_contains",
                             "screen_not_contains"} =>
              (WellFormed(a) <=> a.value.is = "string")
         /\ a.type.text \in {"exit_code", "file_exists"} => (WellFormed(a) <=> a.value.is \in AnyType)
         /\ a.type.text = "file_contains" =>
              (WellFormed(a) <=> a.value.is = "string" /\ a.path.is \in AnyType)
         /\ a.type.text = "json_schema" =>
              (WellFormed(a) <=> a.schema_path.is \in AnyType \ {"null"}
                                  \/ a.schema.is \in {"object", "string"})
<1>1. ASSUME a.type.text \in {"output_contains", "output_not_contains", "screen_contains",
                              "screen_not_contains"}
      PROVE  WellFormed(a) <=> a.value.is = "string"
  <2>1. Needs[a.type.text] = [value |-> {"string"}] /\ a.type.text \in DOMAIN Needs
    BY <1>1 DEF Needs
  <2>2. DOMAIN [value |-> {"string"}] = {"value"}
    OBVIOUS
  <2> QED
    BY <1>1, <2>1, <2>2 DEF WellFormed
<1>2. ASSUME a.type.text \in {"exit_code", "file_exists"} PROVE WellFormed(a) <=> a.value.is \in AnyType
  <2>1. Needs[a.type.text] = [value |-> AnyType] /\ a.type.text \in DOMAIN Needs
    BY <1>2 DEF Needs
  <2> QED
    BY <1>2, <2>1 DEF WellFormed
<1>3. ASSUME a.type.text = "file_contains"
      PROVE  WellFormed(a) <=> a.value.is = "string" /\ a.path.is \in AnyType
  <2>1. Needs[a.type.text] = [value |-> {"string"}, path |-> AnyType] /\ a.type.text \in DOMAIN Needs
    BY <1>3 DEF Needs
  <2> QED
    BY <1>3, <2>1 DEF WellFormed
<1>4. ASSUME a.type.text = "json_schema"
      PROVE  WellFormed(a) <=> \/ a.schema_path.is \in AnyType \ {"null"}
                               \/ a.schema.is \in {"object", "string"}
  <2>1. a.type.text \notin DOMAIN Needs
    BY <1>4 DEF Needs
  <2> QED
    BY <1>4, <2>1 DEF WellFormed
<1> QED
  BY <1>1, <1>2, <1>3, <1>4

\* Only a well-formed assertion passes.
LEMMA PassedIsWellFormed ==
  ASSUME NEW a \in AnyAssertion, Dispatch(a) = "passed"
  PROVE  WellFormed(a)
<1>1. /\ a.value \in AnyValue /\ a.path \in AnyValue
      /\ a.schema_path \in AnyValue /\ a.schema \in AnyValue
  BY DEF AnyAssertion
<1>2. /\ a.value.is \in AnyType \cup {"absent"} /\ a.path.is \in AnyType \cup {"absent"}
      /\ a.schema_path.is \in AnyType \cup {"absent"} /\ a.schema.is \in AnyType \cup {"absent"}
  BY <1>1 DEF AnyValue
<1>3. a.type.is = "string"
  BY DEF Dispatch
<1>4. CASE a.type.text = "output_contains"
  <2>1. ContainsText(a, facts.output, TRUE) = "passed"
    BY <1>3, <1>4 DEF Dispatch
  <2> QED
    BY <1>3, <1>4, <2>1, NeedsByKind DEF ContainsText
<1>5. CASE a.type.text = "output_not_contains"
  <2>1. ContainsText(a, facts.output, FALSE) = "passed"
    BY <1>3, <1>5 DEF Dispatch
  <2> QED
    BY <1>3, <1>5, <2>1, NeedsByKind DEF ContainsText
<1>6. CASE a.type.text = "screen_contains"
  <2>1. ContainsText(a, facts.screen, TRUE) = "passed"
    BY <1>3, <1>6 DEF Dispatch
  <2> QED
    BY <1>3, <1>6, <2>1, NeedsByKind DEF ContainsText
<1>7. CASE a.type.text = "screen_not_contains"
  <2>1. ContainsText(a, facts.screen, FALSE) = "passed"
    BY <1>3, <1>7 DEF Dispatch
  <2> QED
    BY <1>3, <1>7, <2>1, NeedsByKind DEF ContainsText
<1>8. CASE a.type.text = "exit_code"
  <2>1. ExitCodeMatches(a) = "passed"
    BY <1>3, <1>8 DEF Dispatch
  <2> QED
    BY <1>2, <1>3, <1>8, <2>1, NeedsByKind DEF ExitCodeMatches
<1>9. CASE a.type.text = "file_exists"
  <2>1. FileExists(a) = "passed"
    BY <1>3, <1>9 DEF Dispatch
  <2> QED
    BY <1>2, <1>3, <1>9, <2>1, NeedsByKind DEF FileExists
<1>10. CASE a.type.text = "file_contains"
  <2>1. FileContains(a) = "passed"
    BY <1>3, <1>10 DEF Dispatch
  <2> QED
    BY <1>2, <1>3, <1>10, <2>1, NeedsByKind DEF FileContains
<1>11. CASE a.type.text = "json_schema"
  <2>1. JsonSchema(a) = "passed"
    BY <1>3, <1>11 DEF Dispatch
  <2>2. ResolvedSchema(a) # "none"
    BY <2>1 DEF JsonSchema
  <2>3. CASE a.schema_path.is \notin {"absent", "null"}
    BY <1>2, <1>3, <1>11, <2>3, NeedsByKind
  <2>4. CASE a.schema_path.is \in {"absent", "null"}
    <3>1. a.schema.is \in {"object", "string"}
      BY <2>2, <2>4 DEF ResolvedSchema
    <3> QED
      BY <1>3, <1>11, <3>1, NeedsByKind
  <2> QED
    BY <2>3, <2>4
<1> QED
  BY <1>3, <1>4, <1>5, <1>6, <1>7, <1>8, <1>9, <1>10, <1>11 DEF Dispatch

\* One and its negation.
LEMMA OneOfTwoPasses ==
  ASSUME NEW a \in AnyAssertion, NEW b \in AnyAssertion, Opposed(a, b)
  PROVE  (Dispatch(a) = "passed" <=> Dispatch(b) # "passed") <=> WellFormed(a)
<1>1. /\ a.type.is = "string" /\ b.type.is = "string" /\ a.value = b.value
      /\ \/ a.type.text = "output_contains" /\ b.type.text = "output_not_contains"
         \/ a.type.text = "screen_contains" /\ b.type.text = "screen_not_contains"
  BY DEF Opposed, Negation
<1>2. WellFormed(a) <=> a.value.is = "string"
  BY <1>1, NeedsByKind
<1>3. ASSUME NEW haystack
      PROVE  (ContainsText(a, haystack, TRUE) = "passed" <=> ContainsText(b, haystack, FALSE) # "passed")
               <=> a.value.is = "string"
  BY <1>1 DEF ContainsText, Holds
<1>4. CASE a.type.text = "output_contains"
  <2>1. /\ Dispatch(a) = ContainsText(a, facts.output, TRUE)
        /\ Dispatch(b) = ContainsText(b, facts.output, FALSE)
    BY <1>1, <1>4 DEF Dispatch
  <2> QED
    BY <1>2, <1>3, <2>1
<1>5. CASE a.type.text = "screen_contains"
  <2>1. /\ Dispatch(a) = ContainsText(a, facts.screen, TRUE)
        /\ Dispatch(b) = ContainsText(b, facts.screen, FALSE)
    BY <1>1, <1>5 DEF Dispatch
  <2> QED
    BY <1>2, <1>3, <2>1
<1> QED
  BY <1>1, <1>4, <1>5

\* The exit code that is expected is matched by itself.
LEMMA ExpectedIsMatched ==
  ASSUME recipe \in AnyRecipe, facts \in AnyWorld, recipe.expected # {}
  PROVE  Dispatch(Exact("exit_code", recipe.expected)) = "passed" <=> facts.exit = recipe.expected
<1>1. PICK only \in Int : recipe.expected = {only}
  BY DEF AnyRecipe, Codes
<1>2. facts.exit = {} \/ \E code \in Int : facts.exit = {code}
  BY DEF AnyWorld, Codes
<1> DEFINE exact == Exact("exit_code", recipe.expected)
<1>3. /\ exact.type.is = "string" /\ exact.type.text = "exit_code"
      /\ exact.value.is = "int" /\ exact.value.equals = recipe.expected
  BY DEF Exact, AssertionOf, String, Value
<1> HIDE DEF exact
<1>4. Dispatch(exact) = ExitCodeMatches(exact)
  BY <1>3 DEF Dispatch
<1>5. Dispatch(exact) = Holds(PythonEq(exact.value, facts.exit))
  BY <1>3, <1>4 DEF ExitCodeMatches
<1>6. Dispatch(exact) = "passed" <=> PythonEq(exact.value, facts.exit)
  BY <1>5 DEF Holds
<1>7. PythonEq(exact.value, facts.exit) <=> facts.exit = recipe.expected
  <2>1. CASE facts.exit = {}
    BY <1>1, <1>3, <2>1 DEF PythonEq
  <2>2. CASE \E code \in Int : facts.exit = {code}
    BY <1>1, <1>3, <2>2 DEF PythonEq
  <2> QED
    BY <1>2, <2>1, <2>2
<1> QED
  BY <1>6, <1>7 DEF exact

\* Judging does not change what is judged.
LEMMA SameJudgement ==
  ASSUME recipe' = recipe, facts' = facts
  PROVE  EvaluatedList' = EvaluatedList /\ \A a : Dispatch(a)' = Dispatch(a)
<1>1. EvaluatedList' = EvaluatedList
  BY DEF EvaluatedList
<1>2. ASSUME NEW a PROVE Dispatch(a)' = Dispatch(a)
  <2>1. \A string : RecipePath(string)' = RecipePath(string)
    BY DEF RecipePath
  <2>2. \A path : (Exists(path)' <=> Exists(path)) /\ (Readable(path)' <=> Readable(path))
    BY DEF Exists, Readable
  <2>3. \A string : SchemaFile(string)' = SchemaFile(string)
    BY <2>1, <2>2 DEF SchemaFile
  <2>4. ResolvedSchema(a)' = ResolvedSchema(a)
    BY <2>3 DEF ResolvedSchema
  <2>5. JsonSchema(a)' = JsonSchema(a)
    BY <2>4 DEF JsonSchema
  <2>6. FileContains(a)' = FileContains(a)
    BY <2>1, <2>2 DEF FileContains
  <2>7. FileExists(a)' = FileExists(a)
    BY <2>1 DEF FileExists, Exists, Holds
  <2>8. ExitCodeMatches(a)' = ExitCodeMatches(a)
    BY DEF ExitCodeMatches, PythonEq
  <2> QED
    BY <2>5, <2>6, <2>7, <2>8 DEF Dispatch
<1> QED
  BY <1>1, <1>2

\* Whatever a recipe says and a run leaves, evaluation fails closed: only a well-formed
\* assertion passes, one and its negation agree only when they are malformed, and an expected
\* exit code is matched by itself alone.
THEOREM AssertionsAlwaysFailClosed == AssertionSpec => []AssertionsFailClosed
<1>1. AssertionInit(AnyRecipe, AnyWorld) => JudgedSoFar
  <2> SUFFICES ASSUME AssertionInit(AnyRecipe, AnyWorld) PROVE JudgedSoFar
    OBVIOUS
  <2>1. EvaluatedList \in Seq(AnyAssertion)
    BY EvaluatedIsTyped DEF AssertionInit
  <2> QED
    BY <2>1 DEF AssertionInit, JudgedSoFar
<1>2. JudgedSoFar /\ [Evaluate]_assertionVars => JudgedSoFar'
  <2> SUFFICES ASSUME JudgedSoFar, [Evaluate]_assertionVars PROVE JudgedSoFar'
    OBVIOUS
  <2>1. recipe' = recipe /\ facts' = facts
    BY DEF Evaluate, assertionVars
  <2>2. EvaluatedList' = EvaluatedList /\ \A a : Dispatch(a)' = Dispatch(a)
    BY <2>1, SameJudgement
  <2> DEFINE n == Len(verdicts)  list == EvaluatedList
  <2>3. /\ recipe \in AnyRecipe /\ facts \in AnyWorld
        /\ verdicts \in Seq(BOOLEAN) /\ n <= Len(list) /\ n \in Nat /\ Len(list) \in Nat
        /\ \A i \in 1..n : verdicts[i] <=> Dispatch(list[i]) = "passed"
    BY EvaluatedIsTyped DEF JudgedSoFar
  <2>4. CASE Evaluate
    <3>1. PICK verdict \in BOOLEAN : verdict <=> Dispatch(list[n + 1]) = "passed"
      OBVIOUS
    <3>2. n < Len(list) /\ verdicts' = Append(verdicts, verdict)
      BY <2>4, <3>1 DEF Evaluate
    <3>3. verdicts' \in Seq(BOOLEAN) /\ Len(verdicts') = n + 1 /\ verdicts'[n + 1] = verdict
      BY <2>3, <3>2
    <3>4. \A i \in 1..n : verdicts'[i] = verdicts[i]
      BY <2>3, <3>2
    <3>5. ASSUME NEW i \in 1..(n + 1)
          PROVE  verdicts'[i] <=> Dispatch(list[i]) = "passed"
      <4>1. CASE i \in 1..n
        BY <2>3, <3>4, <4>1
      <4>2. CASE i = n + 1
        BY <3>1, <3>3, <4>2
      <4> QED
        BY <2>3, <4>1, <4>2
    <3> HIDE DEF n, list
    <3>6. Len(verdicts') <= Len(list)
      BY <2>3, <3>2, <3>3
    <3> QED
      BY <2>1, <2>2, <2>3, <3>3, <3>5, <3>6 DEF JudgedSoFar, list
  <2>5. CASE UNCHANGED assertionVars
    BY <2>1, <2>2, <2>5 DEF assertionVars, JudgedSoFar
  <2> QED
    BY <2>4, <2>5
<1>3. JudgedSoFar => AssertionsFailClosed
  <2> SUFFICES ASSUME JudgedSoFar, NEW i \in 1..Len(verdicts)
               PROVE  /\ verdicts[i] => WellFormed(EvaluatedList[i])
                      /\ \A j \in 1..Len(verdicts) : Opposed(EvaluatedList[i], EvaluatedList[j]) =>
                           (verdicts[i] # verdicts[j]) = WellFormed(EvaluatedList[i])
                      /\ i > Len(recipe.assertions) =>
                           verdicts[i] = (facts.exit = recipe.expected)
    BY DEF AssertionsFailClosed
  <2> DEFINE a == EvaluatedList[i]
  <2>1. /\ recipe \in AnyRecipe /\ facts \in AnyWorld /\ verdicts \in Seq(BOOLEAN)
        /\ EvaluatedList \in Seq(AnyAssertion) /\ Len(verdicts) <= Len(EvaluatedList)
        /\ \A j \in 1..Len(verdicts) : verdicts[j] <=> Dispatch(EvaluatedList[j]) = "passed"
    BY EvaluatedIsTyped DEF JudgedSoFar
  <2>2. \A j \in 1..Len(verdicts) : j \in 1..Len(EvaluatedList) /\ EvaluatedList[j] \in AnyAssertion
                                    /\ verdicts[j] \in BOOLEAN
    BY <2>1
  <2>3. verdicts[i] => WellFormed(a)
    BY <2>1, <2>2, PassedIsWellFormed
  <2>4. ASSUME NEW j \in 1..Len(verdicts), Opposed(a, EvaluatedList[j])
        PROVE  (verdicts[i] # verdicts[j]) <=> WellFormed(a)
    <3>1. (Dispatch(a) = "passed" <=> Dispatch(EvaluatedList[j]) # "passed") <=> WellFormed(a)
      BY <2>2, <2>4, OneOfTwoPasses
    <3> QED
      BY <2>1, <2>2, <3>1
  <2>5. ASSUME i > Len(recipe.assertions) PROVE verdicts[i] <=> facts.exit = recipe.expected
    <3>1. recipe.expected # {} /\ a = Exact("exit_code", recipe.expected)
      BY <2>1, <2>2, <2>5, EvaluatedIsTyped
    <3> QED
      BY <2>1, <3>1, ExpectedIsMatched
  <2>6. WellFormed(a) \in BOOLEAN
    BY DEF WellFormed
  <2> QED
    BY <2>2, <2>3, <2>4, <2>5, <2>6
<1> QED
  BY <1>1, <1>2, <1>3, PTL DEF AssertionSpec

-----------------------------------------------------------------------------
(* Steps: what each outcome says of a step, its arguments and the session. *)

StepOutcomes == {"passed", "failed", "timed_out", "never", "panic"}
HeardAs == [send_text |-> "text", send_line |-> "line", press |-> "key"]
IsInput(c) == IsSend(c) \/ c.action = "press"

\* What a duration may be read as.
LEMMA DurationsAreRead ==
  /\ \A v \in Durations : ValueOr(v, "soon") \in Numbers \cup {"rejected"}
  /\ \A v \in Numbers : ValueOr(v, "soon") = v
  /\ \A v \in Durations : ValueOr(v, "soon") \in {"century", "eon"} => v = ValueOr(v, "soon")
  /\ \A f : /\ DurationFromSecs(f) \in {"zero", "far", "soon"}
           /\ StableWindowFromSecs(f) \in {"zero", "far", "soon"}
<1>1. \A v \in Durations : ValueOr(v, "soon") \in Numbers \cup {"rejected"}
  BY DEF Durations, Numbers, ValueOr, CoerceFloat
<1>2. \A v \in Numbers : ValueOr(v, "soon") = v
  BY DEF Numbers, ValueOr, CoerceFloat
<1>3. \A v \in Durations : ValueOr(v, "soon") \in {"century", "eon"} => v = ValueOr(v, "soon")
  BY DEF Durations, Numbers, ValueOr, CoerceFloat
<1>4. \A f : /\ DurationFromSecs(f) \in {"zero", "far", "soon"}
             /\ StableWindowFromSecs(f) \in {"zero", "far", "soon"}
  BY DEF DurationFromSecs, StableWindowFromSecs
<1> QED
  BY <1>1, <1>2, <1>3, <1>4

\* What the outcome of a step says of its arguments, whatever the session shows.
Answers(c, r) ==
  /\ r.is \in StepOutcomes \ {"panic"}
  /\ r.is = "timed_out" => c.action \in {"wait_for_text", "wait_for_regex"}
  /\ r.is = "never" => {c.timeout, c.other} \cap {"century", "eon"} # {}
  /\ r.is = "passed" /\ c.action \in {"wait_for_text", "wait_for_regex"} =>
       IsText(c.text) /\ Shows(c.text)
  /\ c.action = "wait_for_text" /\ IsText(c.text) /\ c.timeout \in Numbers => r.is # "failed"
  /\ c.action = "wait_for_idle" /\ {c.timeout, c.other} \subseteq Numbers => r.is = "passed"
  /\ c.action = "sleep" /\ c.other \in {"nan", "inf", "-inf", "minus"} => r.is = "failed"
  /\ c.action = "wait_for_regex" /\ c.timeout \in {"nan", "inf", "-inf", "minus", "zero"} =>
       r.is = "failed"

\* What the session hears and echoes of a step.
Sounds(c, r) ==
  /\ IF r.is = "passed" /\ IsInput(c) THEN r.hears = <<HeardAs[c.action]>> ELSE r.hears = <<>>
  /\ r.echoes # <<>> =>
       IsSend(c) /\ r.echoes \in {<<c.text>>, <<c.text, "return">>, <<"", "return">>}

\* Each of the seven steps answers so.
LEMMA StepsAnswer ==
  ASSUME NEW c \in AnyCall
  PROVE  Answers(c, DispatchStep(c)) /\ Sounds(c, DispatchStep(c))
<1> DEFINE r == DispatchStep(c)
<1>1. c.action \in Actions /\ c.timeout \in Durations /\ c.other \in Durations
  BY DEF AnyCall
<1>2. \A outcome : /\ Only(outcome).is = outcome
                   /\ Only(outcome).hears = <<>> /\ Only(outcome).echoes = <<>>
  BY DEF Only
<1>3. CASE c.action = "wait_for_text"
  <2>1. r = WaitForText(c)
    BY <1>3 DEF DispatchStep
  <2>2. /\ r.is \in {"failed", "passed", "timed_out"} /\ r.hears = <<>> /\ r.echoes = <<>>
        /\ r.is = "passed" => IsText(c.text) /\ Shows(c.text)
        /\ IsText(c.text) /\ c.timeout \in Numbers => r.is # "failed"
    BY <1>1, <2>1, DurationsAreRead DEF WaitForText, Failed, Or, Only, Numbers
  <2> QED
    BY <1>3, <2>2 DEF Answers, Sounds, StepOutcomes, IsInput, IsSend
<1>4. CASE c.action = "wait_for_idle"
  <2>1. r = WaitForIdle(c)
    BY <1>4 DEF DispatchStep
  <2>2. /\ r.is \in {"failed", "passed"} /\ r.hears = <<>> /\ r.echoes = <<>>
        /\ {c.timeout, c.other} \subseteq Numbers => r.is = "passed"
    BY <1>1, <2>1, DurationsAreRead DEF WaitForIdle, Failed, Only, Numbers
  <2> QED
    BY <1>4, <2>2 DEF Answers, Sounds, StepOutcomes, IsInput, IsSend
<1>5. CASE c.action = "send_text"
  <2>1. r = SendText(c)
    BY <1>5 DEF DispatchStep
  <2> QED
    BY <1>5, <2>1
       DEF SendText, Failed, Only, Answers, Sounds, StepOutcomes, IsInput, IsSend, HeardAs
<1>6. CASE c.action = "send_line"
  <2>1. r = SendLine(c)
    BY <1>6 DEF DispatchStep
  <2>2. CASE c.text = "null"
    BY <1>6, <2>1, <2>2 DEF SendLine, Failed, Only, Answers, Sounds, StepOutcomes, IsInput, IsSend
  <2>3. CASE c.text # "null"
    <3>1. PICK line : line = <<IF c.text = "absent" THEN "" ELSE c.text, "return">>
      OBVIOUS
    <3>2. r = [is |-> "passed", hears |-> <<"line">>, echoes |-> line]
      BY <2>1, <2>3, <3>1, Zenon DEF SendLine
    <3>3. line = <<c.text, "return">> \/ line = <<"", "return">>
      BY <3>1, Zenon
    <3>4. HeardAs[c.action] = "line"
      BY <1>6 DEF HeardAs
    <3>5. r.is = "passed" /\ r.hears = <<"line">> /\ r.echoes = line
      <4> HIDE DEF r
      <4> QED
        BY <3>2
    <3> QED
      BY <1>6, <3>3, <3>4, <3>5 DEF Answers, Sounds, StepOutcomes, IsInput, IsSend
  <2> QED
    BY <2>2, <2>3
<1>7. CASE c.action = "press"
  <2>1. r = Press(c)
    BY <1>7 DEF DispatchStep
  <2> QED
    BY <1>7, <2>1 DEF Press, Failed, Only, Answers, Sounds, StepOutcomes, IsInput, IsSend, HeardAs
<1>8. CASE c.action = "sleep"
  <2>1. r = Sleep(c)
    BY <1>8 DEF DispatchStep
  <2>2. /\ r.is \in {"failed", "passed", "never"} /\ r.hears = <<>> /\ r.echoes = <<>>
        /\ r.is = "never" => c.other = "century"
        /\ c.other \in {"nan", "inf", "-inf", "minus"} => r.is = "failed"
    BY <1>1, <2>1, DurationsAreRead DEF Sleep, Failed, Or, Only, Numbers, Finite
  <2> QED
    BY <1>8, <2>2 DEF Answers, Sounds, StepOutcomes, IsInput, IsSend
<1>9. CASE c.action = "wait_for_regex"
  <2> DEFINE t == ValidateRegexTimeout(ValueOr(c.timeout, "soon"))
  <2>1. r = WaitForRegex(c)
    BY <1>9 DEF DispatchStep
  <2>2. /\ t \in Numbers \cup {"rejected"}
        /\ c.timeout \in {"nan", "inf", "-inf", "minus", "zero"} => t = "rejected"
        /\ t # "rejected" /\ DurationFromSecs(t) = "far" => c.timeout \in {"century", "eon"}
    BY <1>1, DurationsAreRead DEF ValidateRegexTimeout, Numbers, Finite, DurationFromSecs
  <2> HIDE DEF t
  <2>3. /\ r.is \in {"failed", "passed", "timed_out", "never"} /\ r.hears = <<>> /\ r.echoes = <<>>
        /\ r.is = "passed" => IsText(c.text) /\ Shows(c.text)
        /\ r.is = "never" => c.timeout \in {"century", "eon"}
        /\ t = "rejected" => r.is = "failed"
    <3> DEFINE far == running /\ DurationFromSecs(t) = "far"
               found == Shows(c.text) /\ \E i \in 1..Len(echoed) : echoed[i] # ""
    <3>1. r = IF ~IsText(c.text) \/ c.text = "[" \/ t = "rejected" THEN Failed
              ELSE IF found THEN Only("passed")
              ELSE IF far THEN Only("never") ELSE Only("timed_out")
      BY <2>1 DEF WaitForRegex, t
    <3>2. (found => Shows(c.text)) /\ (far => DurationFromSecs(t) = "far")
      OBVIOUS
    <3> HIDE DEF far, found
    <3> QED
      BY <1>2, <2>2, <3>1, <3>2 DEF Failed
  <2> QED
    BY <1>9, <2>2, <2>3 DEF Answers, Sounds, StepOutcomes, IsInput, IsSend
<1>10. CASE c.action = "unknown"
  <2>1. r = Failed
    BY <1>10 DEF DispatchStep
  <2> QED
    BY <1>10, <2>1 DEF Failed, Only, Answers, Sounds, StepOutcomes, IsInput, IsSend
<1> QED
  BY <1>1, <1>3, <1>4, <1>5, <1>6, <1>7, <1>8, <1>9, <1>10 DEF Actions

StepTypes ==
  /\ calls \in Seq(AnyCall) /\ running \in BOOLEAN
  /\ echoed \in Seq(Texts \cup KeyNames \cup Patterns \cup {"return"})
  /\ heard \in Seq({"text", "line", "key"}) /\ outcomes \in Seq(StepOutcomes)
  /\ Len(outcomes) <= Len(calls)

\* What is echoed, a step has sent.
Echoes ==
  \A i \in 1..Len(echoed) :
    \/ echoed[i] \in {"", "return"}
    \/ \E j \in 1..Len(outcomes) : IsSend(calls[j]) /\ calls[j].text = echoed[i]

StepInv == StepTypes /\ Echoes /\ StepsAreHeard

\* The inputs that passed are finitely many steps.
LEMMA InputsAreFinite ==
  ASSUME StepTypes
  PROVE  /\ PassedInputs \subseteq 1..Len(outcomes)
         /\ IsFiniteSet(PassedInputs) /\ Cardinality(PassedInputs) \in Nat
<1>1. PassedInputs \subseteq 1..Len(outcomes) /\ Len(outcomes) \in Nat
  BY DEF PassedInputs, StepTypes
<1>2. IsFiniteSet(1..Len(outcomes))
  BY <1>1, FS_Interval
<1>3. IsFiniteSet(PassedInputs)
  BY <1>1, <1>2, FS_Subset
<1> QED
  BY <1>1, <1>3, FS_CardinalityType

\* The place of an input among those that passed is one of those the session heard.
LEMMA PlacesAreHeard ==
  ASSUME StepTypes, NEW k \in PassedInputs
  PROVE  PlaceOf(k) \in 1..Cardinality(PassedInputs)
<1> DEFINE upTo == {j \in PassedInputs : j <= k}
<1>1. /\ PassedInputs \subseteq 1..Len(outcomes) /\ Len(outcomes) \in Nat
      /\ IsFiniteSet(PassedInputs) /\ Cardinality(PassedInputs) \in Nat
  BY InputsAreFinite DEF StepTypes
<1>2. upTo \in SUBSET PassedInputs /\ k \in upTo
  BY <1>1
<1>3. PlaceOf(k) = Cardinality(upTo)
  BY DEF PlaceOf
<1> HIDE DEF upTo
<1>4. IsFiniteSet(upTo) /\ Cardinality(upTo) <= Cardinality(PassedInputs)
  BY <1>1, <1>2, FS_Subset
<1>5. Cardinality(upTo) \in Nat
  BY <1>4, FS_CardinalityType
<1>6. Cardinality(upTo) # 0
  BY <1>2, <1>4, FS_EmptySet
<1> QED
  BY <1>1, <1>3, <1>4, <1>5, <1>6

\* One more echo of a text that was sent.
LEMMA EchoStays ==
  ASSUME NEW S, NEW s \in Seq(S), NEW t \in Seq(S)
  PROVE  /\ s \o t \in Seq(S)
         /\ \A i \in 1..Len(s \o t) : \/ /\ i \in 1..Len(s)
                                         /\ (s \o t)[i] = s[i]
                                      \/ /\ i - Len(s) \in 1..Len(t)
                                         /\ (s \o t)[i] = t[i - Len(s)]
OBVIOUS

\* At most two things are echoed.
LEMMA ShortEchoes ==
  ASSUME NEW S, NEW a \in S, NEW b \in S, NEW e \in {<<>>, <<a>>, <<a, b>>}
  PROVE  e \in Seq(S) /\ \A i \in 1..Len(e) : e[i] \in {a, b}
<1>1. CASE e = <<>>
  BY <1>1
<1>2. CASE e = <<a>>
  BY <1>2
<1>3. CASE e = <<a, b>>
  BY <1>3
<1> QED
  BY <1>1, <1>2, <1>3

\* A step that runs.
LEMMA OneMoreStep ==
  ASSUME StepInv, RunStep
  PROVE  StepInv'
<1> DEFINE Echoable == Texts \cup KeyNames \cup Patterns \cup {"return"}
<1>0. PICK n, c, r : n = Len(outcomes) /\ c = calls[n + 1] /\ r = DispatchStep(c)
  OBVIOUS
<1>1. /\ calls \in Seq(AnyCall) /\ running \in BOOLEAN /\ n \in Nat /\ n + 1 \in 1..Len(calls)
      /\ echoed \in Seq(Echoable)
      /\ heard \in Seq({"text", "line", "key"}) /\ outcomes \in Seq(StepOutcomes)
  BY <1>0 DEF StepInv, StepTypes, RunStep
<1>2. /\ outcomes' = Append(outcomes, r.is) /\ heard' = heard \o r.hears
      /\ echoed' = echoed \o r.echoes /\ calls' = calls /\ running' = running
      /\ outcomes # <<>> => outcomes[n] = "passed"
  BY <1>0 DEF RunStep
<1>3. c \in AnyCall
  BY <1>0, <1>1
<1>4. Answers(c, r) /\ Sounds(c, r)
  BY <1>0, <1>3, StepsAnswer
<1>5. r.is \in StepOutcomes \ {"panic"}
  BY <1>4 DEF Answers
<1>6. /\ outcomes' \in Seq(StepOutcomes) /\ Len(outcomes') = n + 1 /\ outcomes'[n + 1] = r.is
      /\ \A k \in 1..n : outcomes'[k] = outcomes[k]
  BY <1>0, <1>1, <1>2, <1>5
<1>7. /\ \A k \in 1..n : k \in 1..Len(outcomes) /\ k \in 1..Len(outcomes') /\ calls'[k] = calls[k]
      /\ n + 1 \in 1..Len(outcomes') /\ calls'[n + 1] = c
  BY <1>0, <1>1, <1>2, <1>6
<1>8. echoed' \in Seq(Echoable) /\ Echoes'
  <2>1. /\ r.echoes \in Seq(Echoable)
        /\ \A i \in 1..Len(r.echoes) :
             \/ r.echoes[i] \in {"", "return"}
             \/ /\ r.echoes[i] = c.text
                /\ IsSend(c)
    <3>1. c.text \in Echoable /\ "" \in Echoable /\ "return" \in Echoable
      BY <1>3 DEF AnyCall, Texts
    <3> HIDE DEF Echoable
    <3>2. \/ r.echoes = <<>>
          \/ /\ r.echoes \in {<<c.text>>, <<c.text, "return">>, <<"", "return">>}
             /\ IsSend(c)
      BY <1>4 DEF Sounds
    <3>3. CASE r.echoes = <<>>
      <4>1. Len(r.echoes) = 0 /\ r.echoes \in Seq(Echoable)
        BY <3>3
      <4> QED
        BY <4>1
    <3>4. CASE r.echoes \in {<<c.text>>, <<c.text, "return">>} /\ IsSend(c)
      <4>0. r.echoes \in {<<>>, <<c.text>>, <<c.text, "return">>}
        BY <3>4
      <4>1. \A e \in {<<>>, <<c.text>>, <<c.text, "return">>} :
              /\ e \in Seq(Echoable)
              /\ \A i \in 1..Len(e) : e[i] \in {c.text, "return"}
        BY <3>1, ShortEchoes
      <4>2. /\ r.echoes \in Seq(Echoable)
            /\ \A i \in 1..Len(r.echoes) : r.echoes[i] \in {c.text, "return"}
        BY <4>0, <4>1
      <4> QED
        BY <3>4, <4>2
    <3>5. CASE r.echoes = <<"", "return">>
      <4>0. r.echoes \in {<<>>, <<"">>, <<"", "return">>}
        BY <3>5
      <4>1. \A e \in {<<>>, <<"">>, <<"", "return">>} :
              /\ e \in Seq(Echoable)
              /\ \A i \in 1..Len(e) : e[i] \in {"", "return"}
        BY <3>1, ShortEchoes
      <4>2. /\ r.echoes \in Seq(Echoable)
            /\ \A i \in 1..Len(r.echoes) : r.echoes[i] \in {"", "return"}
        BY <4>0, <4>1
      <4> QED
        BY <4>2
    <3> QED
      BY <3>2, <3>3, <3>4, <3>5
  <2>2. /\ echoed' \in Seq(Echoable)
        /\ \A i \in 1..Len(echoed') :
             \/ i \in 1..Len(echoed) /\ echoed'[i] = echoed[i]
             \/ \E l \in 1..Len(r.echoes) : echoed'[i] = r.echoes[l]
    <3> HIDE DEF Echoable
    <3>1. /\ echoed \o r.echoes \in Seq(Echoable)
          /\ \A i \in 1..Len(echoed \o r.echoes) :
               \/ /\ i \in 1..Len(echoed)
                  /\ (echoed \o r.echoes)[i] = echoed[i]
               \/ /\ i - Len(echoed) \in 1..Len(r.echoes)
                  /\ (echoed \o r.echoes)[i] = r.echoes[i - Len(echoed)]
      BY <1>1, <2>1, EchoStays, Zenon
    <3> QED
      BY <1>2, <3>1
  <2>3. ASSUME NEW i \in 1..Len(echoed')
        PROVE  \/ echoed'[i] \in {"", "return"}
               \/ \E j \in 1..Len(outcomes') : IsSend(calls'[j]) /\ calls'[j].text = echoed'[i]
    <3>1. CASE i \in 1..Len(echoed) /\ echoed'[i] = echoed[i]
      <4>1. \/ echoed[i] \in {"", "return"}
            \/ \E j \in 1..n : IsSend(calls[j]) /\ calls[j].text = echoed[i]
        BY <1>0, <3>1 DEF StepInv, Echoes
      <4> QED
        BY <1>7, <3>1, <4>1
    <3>2. CASE \E l \in 1..Len(r.echoes) : echoed'[i] = r.echoes[l]
      BY <1>7, <2>1, <3>2
    <3> QED
      BY <2>2, <3>1, <3>2
  <2> QED
    BY <2>2, <2>3 DEF Echoes, IsSend
<1>9. /\ IsFiniteSet(PassedInputs) /\ Cardinality(PassedInputs) \in Nat
      /\ PassedInputs \subseteq 1..n /\ Len(heard) = Cardinality(PassedInputs)
      /\ \A k \in PassedInputs : PlaceOf(k) \in 1..Len(heard)
  BY <1>0, InputsAreFinite, PlacesAreHeard DEF StepInv, StepsAreHeard
<1>10. PassedInputs' = IF r.is = "passed" /\ IsInput(c) THEN PassedInputs \cup {n + 1}
                       ELSE PassedInputs
  <2>1. outcomes'[n + 1] = r.is /\ 1..Len(outcomes') = 1..n \cup {n + 1}
    BY <1>1, <1>6
  <2>2. \A k : k \in PassedInputs' <=>
          k \in 1..n \cup {n + 1} /\ outcomes'[k] = "passed" /\ IsInput(calls'[k])
    BY <2>1 DEF PassedInputs, IsInput, IsSend
  <2>3. \A k : k \in PassedInputs <=> k \in 1..n /\ outcomes[k] = "passed" /\ IsInput(calls[k])
    BY <1>0 DEF PassedInputs, IsInput, IsSend
  <2> QED
    BY <1>6, <1>7, <2>1, <2>2, <2>3
<1>11. ASSUME NEW k \in PassedInputs PROVE PlaceOf(k)' = PlaceOf(k)
  <2>1. {j \in PassedInputs' : j <= k} = {j \in PassedInputs : j <= k}
    BY <1>1, <1>9, <1>10
  <2> QED
    BY <2>1 DEF PlaceOf
<1>12. ASSUME NEW k \in PassedInputs PROVE heard[PlaceOf(k)] = HeardAs[calls'[k].action]
  <2>1. heard[PlaceOf(k)] = HeardAs[calls[k].action]
    BY DEF StepInv, StepsAreHeard, HeardAs
  <2> QED
    BY <1>2, <2>1
<1>13. /\ heard' \in Seq({"text", "line", "key"}) /\ Len(heard') = Cardinality(PassedInputs')
       /\ \A k \in PassedInputs' : heard'[PlaceOf(k)'] = HeardAs[calls'[k].action]
  <2>1. CASE r.is = "passed" /\ IsInput(c)
    <3>1. r.hears = <<HeardAs[c.action]>>
      BY <1>4, <2>1 DEF Sounds
    <3>2. HeardAs[c.action] \in {"text", "line", "key"}
      BY <2>1 DEF IsInput, IsSend, HeardAs
    <3>3. /\ heard' \in Seq({"text", "line", "key"}) /\ Len(heard') = Len(heard) + 1
          /\ heard'[Len(heard) + 1] = HeardAs[c.action]
          /\ \A i \in 1..Len(heard) : heard'[i] = heard[i]
      BY <1>1, <1>2, <3>1, <3>2
    <3>4. PassedInputs' = PassedInputs \cup {n + 1} /\ n + 1 \notin PassedInputs
      BY <1>1, <1>9, <1>10, <2>1
    <3>5. Cardinality(PassedInputs') = Cardinality(PassedInputs) + 1
      BY <1>9, <3>4, FS_AddElement
    <3>6. ASSUME NEW k \in PassedInputs PROVE heard'[PlaceOf(k)'] = HeardAs[calls'[k].action]
      BY <1>9, <1>11, <1>12, <3>3
    <3>7. PlaceOf(n + 1)' = Len(heard) + 1
      <4>0. \A j \in PassedInputs' : j <= n + 1
        BY <1>1, <1>9, <3>4
      <4>1. {j \in PassedInputs' : j <= n + 1} = PassedInputs'
        BY <4>0
      <4> QED
        BY <1>9, <3>5, <4>1 DEF PlaceOf
    <3>8. heard'[PlaceOf(n + 1)'] = HeardAs[calls'[n + 1].action]
      BY <1>7, <3>3, <3>7
    <3>9. ASSUME NEW k \in PassedInputs' PROVE heard'[PlaceOf(k)'] = HeardAs[calls'[k].action]
      <4>1. k \in PassedInputs \/ k = n + 1
        BY <3>4
      <4> QED
        BY <3>6, <3>8, <4>1
    <3> QED
      BY <1>9, <3>3, <3>5, <3>9
  <2>2. CASE ~(r.is = "passed" /\ IsInput(c))
    <3>1. r.hears = <<>>
      BY <1>4, <2>2 DEF Sounds
    <3>2. heard' = heard /\ PassedInputs' = PassedInputs
      BY <1>1, <1>2, <1>10, <2>2, <3>1
    <3> QED
      BY <1>1, <1>9, <1>11, <1>12, <3>2
  <2> QED
    BY <2>1, <2>2
<1>14. ASSUME NEW k \in 1..n PROVE outcomes'[k] = "passed" /\ OutcomeOf(k)'
  <2>1. outcomes[k] = "passed"
    <3>1. outcomes # <<>> /\ (outcomes[k] = "passed" \/ k = n)
      BY <1>0, <1>1 DEF StepInv, StepsAreHeard
    <3> QED
      BY <1>2, <3>1
  <2>2. OutcomeOf(k)
    BY <1>0 DEF StepInv, StepsAreHeard
  <2>3. outcomes'[k] = outcomes[k] /\ calls' = calls
    BY <1>2, <1>6
  <2> QED
    BY <2>1, <2>2, <2>3 DEF OutcomeOf, IsSend
<1>15. OutcomeOf(n + 1)'
  <2>1. ASSUME r.is = "passed", c.action \in {"wait_for_text", "wait_for_regex"}
        PROVE  c.text = "" \/ \E j \in 1..n : IsSend(calls'[j]) /\ calls'[j].text = c.text
    <3>1. IsText(c.text) /\ Shows(c.text)
      BY <1>4, <2>1 DEF Answers
    <3>2. c.text # "return"
      BY <1>3 DEF AnyCall, Texts, KeyNames, Patterns
    <3> QED
      BY <1>0, <1>2, <3>1, <3>2 DEF Shows, StepInv, Echoes
  <2>2. (n + 1) - 1 = n
    BY <1>1
  <2>3. \A a, o : a = c /\ o = r.is =>
          /\ o # "panic"
          /\ o = "timed_out" => a.action \in {"wait_for_text", "wait_for_regex"}
          /\ o = "never" => {a.timeout, a.other} \cap {"century", "eon"} # {}
          /\ a.action = "wait_for_text" /\ IsText(a.text) /\ a.timeout \in Numbers => o # "failed"
          /\ a.action = "wait_for_idle" /\ {a.timeout, a.other} \subseteq Numbers => o = "passed"
          /\ a.action = "sleep" /\ a.other \in {"nan", "inf", "-inf", "minus"} => o = "failed"
          /\ a.action = "wait_for_regex" /\ a.timeout \in {"nan", "inf", "-inf", "minus", "zero"} =>
               o = "failed"
    BY <1>4, Zenon DEF Answers
  <2>4. calls'[n + 1] = c /\ outcomes'[n + 1] = r.is
    BY <1>6, <1>7
  <2> QED
    BY <2>1, <2>2, <2>3, <2>4 DEF OutcomeOf
<1>16. \A k \in 1..Len(outcomes') : (outcomes'[k] = "passed" \/ k = Len(outcomes')) /\ OutcomeOf(k)'
  <2>1. \A k \in 1..Len(outcomes') : \/ k \in 1..n
                                     \/ /\ k = n + 1
                                        /\ k = Len(outcomes')
    BY <1>1, <1>6
  <2> QED
    BY <1>14, <1>15, <2>1
<1>17. StepTypes'
  BY <1>1, <1>2, <1>6, <1>8, <1>13 DEF StepTypes
<1> QED
  BY <1>8, <1>13, <1>16, <1>17 DEF StepInv, StepsAreHeard, HeardAs

\* The session hears exactly the input steps that passed, in their order, and an outcome says
\* of a step what happened, whatever the arguments of its recipe are, for recipes of any length.
THEOREM StepsAlwaysHeard == StepSpec => []StepsAreHeard
<1>1. StepInit(Seq(AnyCall)) => StepInv
  <2> SUFFICES ASSUME StepInit(Seq(AnyCall)) PROVE StepInv
    OBVIOUS
  <2>1. Len(outcomes) = 0 /\ Len(heard) = 0 /\ Len(echoed) = 0
    BY DEF StepInit
  <2>2. PassedInputs = {} /\ Cardinality(PassedInputs) = 0
    <3>1. PassedInputs = {}
      BY <2>1 DEF PassedInputs
    <3> QED
      BY <3>1, FS_EmptySet
  <2>3. StepTypes
    BY <2>1 DEF StepInit, StepTypes
  <2>4. Echoes
    <3>1. 1..Len(echoed) = {}
      BY <2>1
    <3> QED
      BY <3>1 DEF Echoes
  <2>5. StepsAreHeard
    BY <2>1, <2>2 DEF StepsAreHeard
  <2> QED
    BY <2>3, <2>4, <2>5 DEF StepInv
<1>2. StepInv /\ [RunStep]_stepVars => StepInv'
  <2> SUFFICES ASSUME StepInv, [RunStep]_stepVars PROVE StepInv'
    OBVIOUS
  <2>1. CASE RunStep
    BY <2>1, OneMoreStep
  <2>2. CASE UNCHANGED stepVars
    <3>1. /\ calls' = calls /\ echoed' = echoed /\ heard' = heard /\ running' = running
          /\ outcomes' = outcomes
      BY <2>2 DEF stepVars
    <3>2. PassedInputs' = PassedInputs
      BY <3>1 DEF PassedInputs, IsSend
    <3>3. \A k : PlaceOf(k)' = PlaceOf(k)
      BY <3>2 DEF PlaceOf
    <3>4. ASSUME NEW k, OutcomeOf(k) PROVE OutcomeOf(k)'
      <4>1. calls'[k] = calls[k] /\ outcomes'[k] = outcomes[k]
        BY <3>1
      <4> QED
        BY <3>1, <3>4, <4>1, Zenon DEF OutcomeOf, IsSend
    <3>5. StepTypes' /\ Echoes'
      BY <3>1 DEF StepInv, StepTypes, Echoes, IsSend
    <3> QED
      BY <3>1, <3>2, <3>3, <3>4, <3>5 DEF StepInv, StepsAreHeard
  <2> QED
    BY <2>1, <2>2
<1>3. StepInv => StepsAreHeard
  BY DEF StepInv
<1> QED
  BY <1>1, <1>2, <1>3, PTL DEF StepSpec

=================================================================================

------------------------------ MODULE Comparison ------------------------------
(***************************************************************************)
(* Two runs of a suite compared: compute_deltas of                         *)
(* crates/termproof/src/before_after.rs and compare_with of                *)
(* crates/termproof/src/parity.rs. A run is the sequence of its results.   *)
(* The name of a recipe and that of a renderer are the sequences of their  *)
(* parts between colons; the empty name of no renderer has none.           *)
(***************************************************************************)
EXTENDS Naturals, Sequences, SequencesExt

CONSTANT Epsilon  \* the difference of scores that is none (f64::EPSILON)

ASSUME EpsilonAssumption == Epsilon \in Nat

VARIABLES
  before, after,  \* the RunResults of each run
  wording,        \* DetailMode::Compare
  deltas,         \* the BehaviorDeltas
  divergences,    \* the Divergences
  comparing       \* "runs", "deltas", "compared" or "refused"

comparisonVars == <<before, after, wording, deltas, divergences, comparing>>

ComparisonInit(runs) ==
  /\ before \in runs /\ after \in runs /\ wording \in BOOLEAN
  /\ deltas = <<>> /\ divergences = {} /\ comparing = "runs"

\* The keys under which the two modules find a result again. Only the first is never that of
\* two recipes: "a:b" under no renderer and "a" under "b" are the same text.
PairKey(result) == <<result.recipe, result.renderer>>
TextKey(result) == result.recipe \o result.renderer

PairsOf(run) == [i \in 1..Len(run) |-> PairKey(run[i])]

-----------------------------------------------------------------------------
(* The deltas: by pair, the first result of each.                          *)

FirstOf(run, key) == run[CHOOSE i \in 1..Len(run) :
                           PairKey(run[i]) = key /\ \A j \in 1..(i - 1) : PairKey(run[j]) # key]
OutcomeIn(run, key) ==
  IF Contains(PairsOf(run), key) THEN (IF FirstOf(run, key).passed THEN "PASS" ELSE "FAIL") ELSE "SKIP"

\* Faulty: only what ran before.
OrderedKeysOfBefore == PairsOf(before)

OrderedKeys ==
  PairsOf(before) \o
    FlattenSeq([i \in 1..Len(after) |-> IF Contains(PairsOf(before), PairKey(after[i])) THEN <<>>
                                       ELSE <<PairKey(after[i])>>])

DeltaOf(key) ==
  IF OutcomeIn(before, key) = OutcomeIn(after, key) THEN <<>>
  ELSE <<[recipe |-> key[1], renderer |-> key[2],
          before |-> OutcomeIn(before, key), after |-> OutcomeIn(after, key)]>>

Deltas == FlattenSeq([i \in 1..Len(OrderedKeys) |-> DeltaOf(OrderedKeys[i])])

ComputeDeltas ==
  /\ comparing = "runs"
  /\ deltas' = Deltas
  /\ comparing' = "deltas"
  /\ UNCHANGED <<before, after, wording, divergences>>

-----------------------------------------------------------------------------
(* The divergences: of summaries, which keep the last result of a text and *)
(* the last assertion of a name.                                           *)

LastByName(items, Name(_)) ==
  [n \in {Name(items[i]) : i \in 1..Len(items)} |->
     items[CHOOSE i \in 1..Len(items) :
             Name(items[i]) = n /\ \A j \in (i + 1)..Len(items) : Name(items[j]) # n]]

AssertionMap(assertions) == LastByName(assertions, LAMBDA a : a.name)
Summarize(run) == LastByName(run, TextKey)

Apart(x, y) == x > y + Epsilon \/ y > x + Epsilon

CompareOne(name, l, r) ==
  LET la == AssertionMap(l.assertions)  ra == AssertionMap(r.assertions)
      shared == DOMAIN la \cap DOMAIN ra
      differing == {a \in shared : la[a].passed # ra[a].passed}
      worded == {a \in shared \ differing : la[a].detail # ra[a].detail}
      diverges == [verdict |-> l.passed # r.passed,
                   score |-> l.passed = r.passed /\ Apart(l.score, r.score),
                   assertions |-> differing # {} \/ DOMAIN la # DOMAIN ra,
                   detail |-> wording /\ worded # {}]
  IN  {[recipe |-> name, kind |-> kind] : kind \in {k \in DOMAIN diverges : diverges[k]}}

Divergences(left, right) ==
  (UNION {CompareOne(name, left[name], right[name]) : name \in DOMAIN left \cap DOMAIN right})
  \cup {[recipe |-> name, kind |-> "only_left"] : name \in DOMAIN left \ DOMAIN right}
  \cup {[recipe |-> name, kind |-> "only_right"] : name \in DOMAIN right \ DOMAIN left}

Refused ==
  /\ comparing = "deltas" /\ (before = <<>> \/ after = <<>>)
  /\ comparing' = "refused"
  /\ UNCHANGED <<before, after, wording, deltas, divergences>>

CompareWith ==
  /\ comparing = "deltas" /\ before # <<>> /\ after # <<>>
  /\ divergences' = Divergences(Summarize(before), Summarize(after))
  /\ comparing' = "compared"
  /\ UNCHANGED <<before, after, wording, deltas>>

ComparisonStep == ComputeDeltas \/ Refused \/ CompareWith

-----------------------------------------------------------------------------
Distinct(run) == IsInjective(PairsOf(run))
Unambiguous ==
  \A r, s \in ToSet(before) \cup ToSet(after) : TextKey(r) = TextKey(s) => PairKey(r) = PairKey(s)
Flips == {"verdict", "only_left", "only_right"}
Mirrored(kind) ==
  CASE kind = "only_left" -> "only_right" [] kind = "only_right" -> "only_left"
    [] OTHER -> kind
\* A later result of the run has the same text, so that this one is not compared.
Shadowed(run, i) == \E j \in (i + 1)..Len(run) : TextKey(run[j]) = TextKey(run[i])

\* The two comparisons are of one mind: of runs that repeat no result, and where no text is
\* that of two, a delta is reported, once, of exactly the results whose divergence is one of
\* verdict or presence, also where the runs are of different length or order; parity does
\* not depend on which run is left; a run never differs from itself; and where there is no
\* divergence each result has the verdict and the score of one of the same text in the
\* other run, unless a later one of its own run has that text too.
ComparisonsAgree ==
  comparing = "compared" =>
    /\ Distinct(before) /\ Distinct(after) /\ Unambiguous =>
         /\ {TextKey(deltas[i]) : i \in 1..Len(deltas)} =
              {d.recipe : d \in {e \in divergences : e.kind \in Flips}}
         /\ IsInjective(PairsOf(deltas))
    /\ Divergences(Summarize(after), Summarize(before)) =
         {[d EXCEPT !.kind = Mirrored(d.kind)] : d \in divergences}
    /\ before = after => deltas = <<>> /\ divergences = {}
    /\ divergences = {} =>
         \A i \in 1..Len(before) : ~Shadowed(before, i) =>
           \E j \in 1..Len(after) :
             /\ TextKey(before[i]) = TextKey(after[j]) /\ ~Shadowed(after, j)
             /\ before[i].passed = after[j].passed /\ ~Apart(before[i].score, after[j].score)

=============================================================================

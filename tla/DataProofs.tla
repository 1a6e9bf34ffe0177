------------------------------- MODULE DataProofs -------------------------------
(***************************************************************************)
(* What is computed from data of any length: the deltas of two runs, what  *)
(* is replayed of a recording, the words of a command that are quoted and  *)
(* read back, configurations that are merged, the verdict that is found in *)
(* the output of an agent, the recipes that are selected for the files     *)
(* that changed, and the failure a driver keeps of its script. The prover  *)
(* has no induction over an operator; here it is induction over a set, from *)
(* the least element of a set of numbers, and a definition by recursion is *)
(* the function that is found step by step.                                *)
(***************************************************************************)
EXTENDS Integers, Comparison, CastRecord, CommandLine, Layers, SessionDriver, AgentOutput,
        Selection, SequencesExt, SequenceTheorems, WellFoundedInduction, TLAPS

CONSTANTS
  NameParts, AssertionNames, Details,  \* what the results of a run are made of
  RecipeNames, \* what the recipes of a suite are called
  FileNames,   \* the names of files
  OtherChars   \* the characters of a word or of a line, but for those that are told apart

-----------------------------------------------------------------------------
(* Induction, and functions that are defined step by step.                 *)

\* The order of the numbers is well founded.
LEMMA LessThan ==
  \E R : IsWellFoundedOn(R, Nat) /\ \A x, y \in Nat : x < y => <<x, y>> \in R
<1> DEFINE R == OpToRel(<, Nat)
<1>1. IsWellFoundedOn(R, Nat)
  BY NatLessThanWellFounded
<1>2. \A x, y \in Nat : x < y => <<x, y>> \in R
  BY DEF OpToRel
<1> HIDE DEF R
<1> QED
  BY <1>1, <1>2

\* In a well-founded order a set has a least element.
LEMMA MinOf ==
  ASSUME NEW R, NEW T, T \subseteq Nat, T # {}, IsWellFoundedOn(R, Nat)
  PROVE  \E m \in T : \A k \in T : ~ (<<k, m>> \in R)
BY WFMin

\* Of any set of numbers one is the least,
LEMMA NatMin ==
  ASSUME NEW T, T \subseteq Nat, T # {}
  PROVE  \E m \in T : \A k \in T : m <= k
<1>1. PICK R : /\ IsWellFoundedOn(R, Nat)
               /\ \A x, y \in Nat : x < y => <<x, y>> \in R
  BY LessThan, Zenon
<1>2. PICK m \in T : \A k \in T : ~ (<<k, m>> \in R)
  BY <1>1, MinOf, Zenon
<1>3. \A k \in T : k \in Nat /\ m \in Nat /\ ~(k < m)
  BY <1>1, <1>2, Zenon
<1> QED
  BY <1>3

\* so a set that has 0 and the successor of each of its numbers has them all.
LEMMA SetInduction ==
  ASSUME NEW S, 0 \in S, \A n \in Nat : n \in S => n + 1 \in S
  PROVE  Nat \subseteq S
<1> SUFFICES ASSUME Nat \ S # {} PROVE FALSE
  OBVIOUS
<1>1. PICK m \in Nat \ S : \A k \in Nat \ S : m <= k
  BY NatMin
<1>2. m # 0 /\ m - 1 \in Nat
  BY <1>1
<1>3. m - 1 \in S
  BY <1>1, <1>2
<1> QED
  BY <1>1, <1>2, <1>3

\* g is the first n steps.
Upto(n, g, S, base, step) ==
  /\ g \in [0..n -> S] /\ g[0] = base
  /\ \A i \in 0..n - 1 : g[i + 1] = step[i][g[i]]

\* The first n steps can be continued by one more,
LEMMA OneMore ==
  ASSUME NEW S, NEW base \in S, NEW step \in [Nat -> [S -> S]], NEW n \in Nat, NEW g,
         Upto(n, g, S, base, step)
  PROVE  \E h : Upto(n + 1, h, S, base, step)
<1> DEFINE last == step[n][g[n]]
           h == [i \in 0..n + 1 |-> IF i = n + 1 THEN last ELSE g[i]]
<1>1. g[n] \in S /\ g \in [0..n -> S] /\ g[0] = base
  BY DEF Upto
<1>2. last \in S
  <2>1. \A a \in Nat, b \in S : step[a][b] \in S
    OBVIOUS
  <2> QED
    BY <1>1, <2>1
<1>3. h[n + 1] = last /\ \A i \in 0..n : h[i] = g[i]
  BY <1>1
<1>4. h \in [0..n + 1 -> S] /\ h[0] = base
  BY <1>1, <1>2
<1>5. ASSUME NEW i \in 0..(n + 1) - 1 PROVE h[i + 1] = step[i][h[i]]
  <2>1. CASE i = n
    BY <1>1, <1>3, <2>1
  <2>2. CASE i \in 0..n - 1
    BY <1>3, <2>2 DEF Upto
  <2> QED
    BY <2>1, <2>2
<1> HIDE DEF h
<1> QED
  BY <1>4, <1>5 DEF Upto

\* and there is one way to take them.
LEMMA SameSteps ==
  ASSUME NEW S, NEW base, NEW step, NEW n \in Nat, NEW g, NEW m \in Nat, NEW h,
         Upto(n, g, S, base, step), Upto(m, h, S, base, step), n <= m
  PROVE  \A i \in 0..n : g[i] = h[i]
<1> DEFINE Same == {i \in Nat : i <= n => g[i] = h[i]}
<1>1. 0 \in Same
  BY DEF Upto
<1>2. ASSUME NEW i \in Nat, i \in Same PROVE i + 1 \in Same
  <2>1. CASE i + 1 <= n
    <3>1. i \in 0..n - 1 /\ i \in 0..m - 1 /\ g[i] = h[i]
      BY <1>2, <2>1
    <3>2. g[i + 1] = step[i][g[i]] /\ h[i + 1] = step[i][h[i]]
      BY <3>1 DEF Upto
    <3> QED
      BY <1>2, <3>1, <3>2
  <2> QED
    BY <2>1
<1>3. Nat \subseteq Same
  <2> HIDE DEF Same
  <2> QED
    BY <1>1, <1>2, SetInduction
<1> QED
  BY <1>3

IsStep(step, S) == step \in [Nat -> [S -> S]]
Iterates(f, S, base, step) ==
  f \in [Nat -> S] /\ f[0] = base /\ \A n \in Nat : f[n + 1] = step[n][f[n]]

\* A function that is defined step by step.
LEMMA Recursion ==
  ASSUME NEW S, NEW base \in S, NEW step, IsStep(step, S)
  PROVE  \E f : Iterates(f, S, base, step)
<1>0. step \in [Nat -> [S -> S]]
  BY DEF IsStep
<1> DEFINE Good == {n \in Nat : \E g : Upto(n, g, S, base, step)}
           G == [n \in Nat |-> CHOOSE g : Upto(n, g, S, base, step)]
           f == [n \in Nat |-> G[n][n]]
<1>1. Nat \subseteq Good
  <2>1. 0 \in Good
    <3>1. Upto(0, [i \in 0..0 |-> base], S, base, step)
      BY DEF Upto
    <3> QED
      BY <3>1
  <2>2. \A n \in Nat : n \in Good => n + 1 \in Good
    BY <1>0, OneMore
  <2> HIDE DEF Good
  <2> QED
    BY <2>1, <2>2, SetInduction
<1>2. ASSUME NEW n \in Nat PROVE Upto(n, G[n], S, base, step)
  <2>1. \E g : Upto(n, g, S, base, step)
    BY <1>1
  <2>2. G[n] = CHOOSE g : Upto(n, g, S, base, step)
    OBVIOUS
  <2> QED
    BY <2>1, <2>2, Zenon
<1> HIDE DEF G
<1>4. \A n \in Nat : f[n] = G[n][n] /\ f[n] \in S
  BY <1>2 DEF Upto
<1>5. ASSUME NEW n \in Nat PROVE f[n + 1] = step[n][f[n]]
  <2>1. n + 1 \in Nat /\ n <= n + 1 /\ n \in 0..n /\ n \in 0..(n + 1) - 1
    OBVIOUS
  <2>2. G[n][n] = G[n + 1][n]
    <3>1. Upto(n, G[n], S, base, step) /\ Upto(n + 1, G[n + 1], S, base, step)
      BY <1>2, <2>1
    <3>2. PICK g, h : g = G[n] /\ h = G[n + 1]
      OBVIOUS
    <3>3. Upto(n, g, S, base, step) /\ Upto(n + 1, h, S, base, step)
      BY <3>1, <3>2
    <3>4. \A i \in 0..n : g[i] = h[i]
      BY <2>1, <3>3, SameSteps
    <3> QED
      BY <2>1, <3>2, <3>4
  <2>3. G[n + 1][n + 1] = step[n][G[n + 1][n]]
    BY <1>2, <2>1 DEF Upto
  <2> HIDE DEF f
  <2> QED
    BY <1>4, <2>1, <2>2, <2>3
<1>6. f[0] = base
  BY <1>2 DEF Upto
<1>7. f \in [Nat -> S]
  BY <1>4
<1> HIDE DEF f
<1> QED
  BY <1>5, <1>6, <1>7 DEF Iterates

-----------------------------------------------------------------------------
(* FlattenSeq.                                                             *)

\* F puts the pieces together, one after the other.
Builds(F, pieces, S) ==
  /\ F \in [0..Len(pieces) -> Seq(S)] /\ F[0] = <<>>
  /\ \A i \in 1..Len(pieces) : F[i] = F[i - 1] \o pieces[i]

\* Pieces can be put together.
LEMMA BuildsExists ==
  ASSUME NEW S, NEW pieces \in Seq(Seq(S))
  PROVE  \E F : Builds(F, pieces, S)
<1> DEFINE step == [n \in Nat |-> [x \in Seq(S) |->
                      IF n + 1 \in 1..Len(pieces) THEN x \o pieces[n + 1] ELSE x]]
<1>0. \A x, y \in Seq(S) : x \o y \in Seq(S)
  BY ConcatProperties
<1>1. step \in [Nat -> [Seq(S) -> Seq(S)]]
  BY <1>0
<1>2. <<>> \in Seq(S)
  BY EmptySeq
<1>3. \A n \in Nat, x \in Seq(S) :
        n + 1 \in 1..Len(pieces) => step[n][x] = x \o pieces[n + 1]
  OBVIOUS
<1> HIDE DEF step
<1>4. PICK f \in [Nat -> Seq(S)] : f[0] = <<>> /\ \A n \in Nat : f[n + 1] = step[n][f[n]]
  <2>1. PICK V, base, st : V = Seq(S) /\ base = <<>> /\ st = step
    OBVIOUS
  <2>2. base \in V /\ IsStep(st, V)
    BY <1>1, <1>2, <2>1 DEF IsStep
  <2>3. \E f : Iterates(f, V, base, st)
    BY <2>2, Recursion
  <2> QED
    BY <2>1, <2>3 DEF Iterates
<1>5. Len(pieces) \in Nat
  OBVIOUS
<1> DEFINE F == [i \in 0..Len(pieces) |-> f[i]]
<1>6. F \in [0..Len(pieces) -> Seq(S)] /\ F[0] = <<>>
  BY <1>4, <1>5
<1>7. ASSUME NEW i \in 1..Len(pieces) PROVE F[i] = F[i - 1] \o pieces[i]
  <2>1. i - 1 \in Nat /\ (i - 1) + 1 = i /\ i \in 0..Len(pieces) /\ i - 1 \in 0..Len(pieces)
    BY <1>5
  <2>2. f[i] = step[i - 1][f[i - 1]] /\ f[i - 1] \in Seq(S)
    <3>1. f[(i - 1) + 1] = step[i - 1][f[i - 1]]
      BY <1>4, <2>1
    <3> QED
      BY <1>4, <2>1, <3>1
  <2>3. step[i - 1][f[i - 1]] = f[i - 1] \o pieces[(i - 1) + 1]
    BY <1>3, <2>1, <2>2
  <2> QED
    BY <2>1, <2>2, <2>3
<1> HIDE DEF F
<1> QED
  BY <1>6, <1>7 DEF Builds

\* FlattenSeq puts them together.
LEMMA BuildsFlatten ==
  ASSUME NEW S, NEW pieces \in Seq(Seq(S)), NEW F, Builds(F, pieces, S)
  PROVE  FlattenSeq(pieces) = F[Len(pieces)]
<1> DEFINE len == Len(pieces)
           Eq(g) == g = [i \in 1..len |-> IF i = 1 THEN pieces[i] ELSE g[i - 1] \o pieces[i]]
           flatten == CHOOSE g : Eq(g)
           part == [i \in 1..len |-> F[i]]
<1>a. \A x \in Seq(S) : <<>> \o x = x
  BY ConcatEmptySeq
<1>0. len \in Nat /\ F \in [0..len -> Seq(S)] /\ F[0] = <<>>
  BY DEF Builds
<1>1. ASSUME NEW i \in 1..len
      PROVE part[i] = IF i = 1 THEN pieces[i] ELSE part[i - 1] \o pieces[i]
  <2>1. F[i] = F[i - 1] \o pieces[i] /\ pieces[i] \in Seq(S)
    BY ElementOfSeq DEF Builds
  <2>2. CASE i = 1
    <3>1. i - 1 = 0
      BY <2>2
    <3>2. F[i] = <<>> \o pieces[i]
      BY <1>0, <2>1, <3>1
    <3> QED
      BY <1>a, <2>1, <2>2, <3>2
  <2>3. CASE i # 1
    <3>1. i - 1 \in 1..len /\ part[i - 1] = F[i - 1]
      BY <1>0, <2>3
    <3> QED
      BY <2>1, <2>3, <3>1
  <2> QED
    BY <2>2, <2>3
<1>2. Eq(part)
  BY <1>1
<1>3. Eq(flatten)
  <2> HIDE DEF Eq, part
  <2> QED
    BY <1>2
<1>4. ASSUME NEW i \in 1..len
      PROVE flatten[i] = IF i = 1 THEN pieces[i] ELSE flatten[i - 1] \o pieces[i]
  <2> HIDE DEF flatten
  <2> QED
    BY <1>3
<1>5. len # 0 => FlattenSeq(pieces) = flatten[len]
  BY DEF FlattenSeq
<1> DEFINE Same == {n \in Nat : n \in 1..len => flatten[n] = F[n]}
<1> HIDE DEF flatten
<1>6. 0 \in Same
  OBVIOUS
<1>7. ASSUME NEW n \in Nat, n \in Same PROVE n + 1 \in Same
  <2>1. SUFFICES ASSUME n + 1 \in 1..len PROVE flatten[n + 1] = F[n + 1]
    OBVIOUS
  <2>2. flatten[n + 1] = IF n + 1 = 1 THEN pieces[n + 1] ELSE flatten[(n + 1) - 1] \o pieces[n + 1]
    BY <1>4, <2>1
  <2>3. F[n + 1] = F[(n + 1) - 1] \o pieces[n + 1] /\ pieces[n + 1] \in Seq(S)
    BY <2>1, ElementOfSeq DEF Builds
  <2>4. (n + 1) - 1 = n
    OBVIOUS
  <2>5. CASE n = 0
    <3>1. F[n + 1] = <<>> \o pieces[n + 1] /\ n + 1 = 1
      BY <1>0, <2>3, <2>4, <2>5
    <3> QED
      <4>1. PICK p : p = pieces[n + 1]
        OBVIOUS
      <4>2. <<>> \o p = p
        BY <1>a, <2>3, <4>1
      <4>3. flatten[n + 1] = p
        BY <2>2, <3>1, <4>1
      <4> QED
        BY <3>1, <4>1, <4>2, <4>3
  <2>6. CASE n # 0
    <3>1. n \in 1..len /\ n + 1 # 1
      BY <1>0, <2>1, <2>6
    <3>2. flatten[n] = F[n]
      BY <1>7, <3>1
    <3>3. flatten[(n + 1) - 1] = F[(n + 1) - 1]
      BY <2>4, <3>2
    <3> QED
      BY <2>2, <2>3, <3>1, <3>3, Zenon
  <2> QED
    BY <2>5, <2>6
<1>8. Nat \subseteq Same
  <2> HIDE DEF Same
  <2> QED
    BY <1>6, <1>7, SetInduction
<1>9. CASE len = 0
  <2>1. FlattenSeq(pieces) = pieces /\ pieces = <<>>
    BY <1>9, EmptySeq DEF FlattenSeq
  <2> QED
    BY <1>0, <1>9, <2>1
<1>10. CASE len # 0
  BY <1>0, <1>5, <1>8, <1>10
<1> QED
  BY <1>9, <1>10

\* FlattenSeq of sequences over S is a sequence over S.
LEMMA FlattenType ==
  ASSUME NEW S, NEW pieces \in Seq(Seq(S))
  PROVE  FlattenSeq(pieces) \in Seq(S)
<1>1. PICK F : Builds(F, pieces, S)
  BY BuildsExists
<1>2. FlattenSeq(pieces) = F[Len(pieces)]
  BY <1>1, BuildsFlatten
<1> QED
  BY <1>1, <1>2 DEF Builds

\* Of no pieces it is empty.
LEMMA FlattenEmpty == FlattenSeq(<<>>) = <<>>
BY DEF FlattenSeq

\* One more piece stands at the end.
LEMMA FlattenAppend ==
  ASSUME NEW S, NEW pieces \in Seq(Seq(S)), NEW piece \in Seq(S)
  PROVE  FlattenSeq(Append(pieces, piece)) = FlattenSeq(pieces) \o piece
<1> DEFINE len == Len(pieces)
<1>1. PICK longer : longer = Append(pieces, piece)
  OBVIOUS
<1>2. /\ longer \in Seq(Seq(S)) /\ Len(longer) = len + 1 /\ len \in Nat
      /\ longer[len + 1] = piece /\ \A i \in 1..len : longer[i] = pieces[i]
  BY <1>1, AppendProperties
<1>3. PICK G : Builds(G, longer, S)
  BY <1>2, BuildsExists
<1>4. FlattenSeq(longer) = G[len + 1]
  BY <1>2, <1>3, BuildsFlatten
<1>5. /\ G \in [0..len + 1 -> Seq(S)] /\ G[0] = <<>>
      /\ \A i \in 1..len + 1 : G[i] = G[i - 1] \o longer[i]
  BY <1>2, <1>3 DEF Builds
<1>6. PICK F : F = [i \in 0..len |-> G[i]]
  OBVIOUS
<1>7. Builds(F, pieces, S)
  <2>1. F \in [0..len -> Seq(S)] /\ F[0] = <<>>
    BY <1>2, <1>5, <1>6
  <2>2. ASSUME NEW i \in 1..len PROVE F[i] = F[i - 1] \o pieces[i]
    <3>1. i \in 1..len + 1 /\ i \in 0..len /\ i - 1 \in 0..len
      BY <1>2
    <3>2. G[i] = G[i - 1] \o longer[i] /\ longer[i] = pieces[i]
      BY <1>2, <1>5, <3>1
    <3> QED
      BY <1>6, <3>1, <3>2
  <2> QED
    BY <2>1, <2>2 DEF Builds
<1>8. FlattenSeq(pieces) = G[len]
  BY <1>2, <1>6, <1>7, BuildsFlatten
<1>9. len + 1 \in 1..len + 1 /\ (len + 1) - 1 = len
  BY <1>2
<1>10. G[len + 1] = G[(len + 1) - 1] \o longer[len + 1]
  BY <1>5, <1>9
<1> QED
  BY <1>1, <1>2, <1>4, <1>8, <1>9, <1>10

\* Every sequence is reached by appending.
LEMMA SeqInduction ==
  ASSUME NEW S, NEW Good, <<>> \in Good,
         \A s \in Seq(S), x \in S : s \in Good => Append(s, x) \in Good
  PROVE  Seq(S) \subseteq Good
<1> DEFINE Fine == {n \in Nat : \A s \in Seq(S) : Len(s) = n => s \in Good}
<1>1. 0 \in Fine
  BY EmptySeq
<1>2. ASSUME NEW n \in Nat, n \in Fine PROVE n + 1 \in Fine
  <2>1. SUFFICES ASSUME NEW s \in Seq(S), Len(s) = n + 1 PROVE s \in Good
    OBVIOUS
  <2>2. s # <<>>
    BY <2>1, EmptySeq
  <2>3. PICK front \in Seq(S), last \in S : s = Append(front, last)
    BY <2>2, SequenceEmptyOrAppend
  <2>4. Len(front) = n
    BY <2>1, <2>3, AppendProperties
  <2> QED
    BY <1>2, <2>3, <2>4
<1>3. Nat \subseteq Fine
  <2> HIDE DEF Fine
  <2> QED
    BY <1>1, <1>2, SetInduction
<1> QED
  BY <1>3

\* Of two sequences of pieces it is one part and then the other.
LEMMA FlattenConcat ==
  ASSUME NEW S, NEW s \in Seq(Seq(S)), NEW t \in Seq(Seq(S))
  PROVE  FlattenSeq(s \o t) = FlattenSeq(s) \o FlattenSeq(t)
<1> DEFINE Good == {u \in Seq(Seq(S)) : FlattenSeq(s \o u) = FlattenSeq(s) \o FlattenSeq(u)}
<1>1. <<>> \in Good
  <2>1. s \o <<>> = s /\ FlattenSeq(s) \o <<>> = FlattenSeq(s) /\ <<>> \in Seq(Seq(S))
    BY FlattenType, ConcatEmptySeq, EmptySeq
  <2> QED
    BY <2>1, FlattenEmpty
<1>2. ASSUME NEW u \in Seq(Seq(S)), NEW x \in Seq(S), u \in Good PROVE Append(u, x) \in Good
  <2>1. PICK v : v = s \o u
    OBVIOUS
  <2>2. v \in Seq(Seq(S)) /\ s \o Append(u, x) = Append(v, x) /\ Append(u, x) \in Seq(Seq(S))
    <3>a. \A w \in Seq(Seq(S)) : Append(w, x) = w \o <<x>>
      BY AppendIsConcat
    <3>1. PICK one : one = <<x>>
      OBVIOUS
    <3>2. one \in Seq(Seq(S))
      BY <3>1
    <3>3. Append(u, x) = u \o one /\ v \in Seq(Seq(S))
      BY <2>1, <3>1, <3>a, ConcatProperties
    <3>4. Append(v, x) = v \o one
      BY <3>1, <3>3, <3>a
    <3>5. (s \o u) \o one = s \o (u \o one)
      <4>1. PICK V : V = Seq(S)
        OBVIOUS
      <4>2. \A a, b, c \in Seq(V) : (a \o b) \o c = a \o (b \o c)
        BY ConcatAssociative
      <4> QED
        BY <3>2, <4>1, <4>2
    <3> QED
      BY <2>1, <3>3, <3>4, <3>5, AppendProperties
  <2>3. FlattenSeq(Append(v, x)) = FlattenSeq(v) \o x
    BY <2>2, FlattenAppend
  <2>4. FlattenSeq(Append(u, x)) = FlattenSeq(u) \o x
    BY FlattenAppend
  <2>5. FlattenSeq(v) = FlattenSeq(s) \o FlattenSeq(u)
    BY <1>2, <2>1
  <2>6. (FlattenSeq(s) \o FlattenSeq(u)) \o x = FlattenSeq(s) \o (FlattenSeq(u) \o x)
    <3>1. PICK a, b : a = FlattenSeq(s) /\ b = FlattenSeq(u)
      OBVIOUS
    <3>2. a \in Seq(S) /\ b \in Seq(S)
      BY <3>1, FlattenType
    <3>3. (a \o b) \o x = a \o (b \o x)
      <4>1. PICK V : V = S
        OBVIOUS
      <4>2. \A c, d, e \in Seq(V) : (c \o d) \o e = c \o (d \o e)
        BY ConcatAssociative
      <4>3. a \in Seq(V) /\ b \in Seq(V) /\ x \in Seq(V)
        BY <3>2, <4>1
      <4> QED
        BY <4>2, <4>3
    <3> QED
      BY <3>1, <3>3
  <2> QED
    BY <2>2, <2>3, <2>4, <2>5, <2>6
<1>3. Seq(Seq(S)) \subseteq Good
  <2> HIDE DEF Good
  <2>1. PICK V : V = Seq(S)
    OBVIOUS
  <2> QED
    BY <1>1, <1>2, <2>1, SeqInduction
<1> QED
  BY <1>3

\* Each element of out is the only one of its piece, and they stand in the order of the
\* pieces; the other pieces are empty.
PickedAt(g, out, pieces) ==
  /\ g \in [1..Len(out) -> 1..Len(pieces)]
  /\ \A k \in 1..Len(out) : pieces[g[k]] = <<out[k]>>
  /\ \A k, l \in 1..Len(out) : k < l => g[k] < g[l]
  /\ \A i \in 1..Len(pieces) : pieces[i] = <<>> \/ \E k \in 1..Len(out) : g[k] = i

Thin(pieces) == \A i \in 1..Len(pieces) : Len(pieces[i]) <= 1

\* One more piece that is empty or has one element.
LEMMA PickedAppend ==
  ASSUME NEW S, NEW pieces \in Seq(Seq(S)), NEW piece \in Seq(S), Len(piece) <= 1,
         NEW out \in Seq(S), NEW g, PickedAt(g, out, pieces)
  PROVE  \E h : PickedAt(h, out \o piece, Append(pieces, piece))
<1> DEFINE len == Len(pieces)
           longer == Append(pieces, piece)
<1>1. /\ longer \in Seq(Seq(S)) /\ Len(longer) = len + 1 /\ len \in Nat
      /\ longer[len + 1] = piece /\ \A i \in 1..len : longer[i] = pieces[i]
  BY AppendProperties
<1>2. /\ g \in [1..Len(out) -> 1..len] /\ \A k \in 1..Len(out) : pieces[g[k]] = <<out[k]>>
      /\ \A k, l \in 1..Len(out) : k < l => g[k] < g[l]
      /\ \A i \in 1..len : pieces[i] = <<>> \/ \E k \in 1..Len(out) : g[k] = i
  BY DEF PickedAt
<1>a. len \in Nat /\ Len(out) \in Nat /\ \A k \in 1..Len(out) : g[k] \in 1..len
  <2>1. Len(out) \in Nat
    OBVIOUS
  <2>2. \A k \in 1..Len(out) : g[k] \in 1..len
    BY <1>2
  <2> QED
    BY <1>1, <2>1, <2>2
<1> HIDE DEF longer
<1>3. CASE piece = <<>>
  <2>1. out \o piece = out
    BY <1>3, ConcatEmptySeq
  <2>2. PickedAt(g, out, longer)
    <3>1. g \in [1..Len(out) -> 1..len + 1]
      <4>1. 1..len \subseteq 1..len + 1
        BY <1>a
      <4> QED
        BY <1>2, <4>1
    <3>3. \A k \in 1..Len(out) : longer[g[k]] = <<out[k]>>
      BY <1>1, <1>2, <1>a
    <3>2. ASSUME NEW i \in 1..len + 1 PROVE longer[i] = <<>> \/ \E k \in 1..Len(out) : g[k] = i
      <4>1. CASE i = len + 1
        BY <1>1, <1>3, <4>1
      <4>2. CASE i \in 1..len
        BY <1>1, <1>2, <4>2
      <4> QED
        BY <1>a, <4>1, <4>2
    <3> QED
      BY <1>1, <1>2, <3>1, <3>2, <3>3 DEF PickedAt
  <2> QED
    BY <2>1, <2>2 DEF longer
<1>4. CASE piece # <<>>
  <2>0. PICK x \in S : piece = <<x>>
    <3>1. Len(piece) \in Nat /\ Len(piece) # 0
      BY <1>4, EmptySeq
    <3>2. Len(piece) = 1
      <4>1. \A n \in Nat : n # 0 /\ n <= 1 => n = 1
        OBVIOUS
      <4> QED
        BY <3>1, <4>1, Zenon
    <3>3. piece[1] \in S
      BY <3>2, ElementOfSeq
    <3> QED
      BY <3>2, <3>3
  <2>1. PICK more : more = Append(out, x)
    OBVIOUS
  <2>2. out \o piece = more
    BY <2>0, <2>1, AppendIsConcat
  <2>3. /\ Len(more) = Len(out) + 1 /\ Len(out) \in Nat
        /\ more[Len(out) + 1] = x /\ \A k \in 1..Len(out) : more[k] = out[k]
    BY <2>1, AppendProperties
  <2>4. PICK h : h = [k \in 1..Len(out) + 1 |-> IF k = Len(out) + 1 THEN len + 1 ELSE g[k]]
    OBVIOUS
  <2>5. /\ h \in [1..Len(out) + 1 -> 1..len + 1] /\ h[Len(out) + 1] = len + 1
        /\ \A k \in 1..Len(out) : h[k] = g[k] /\ g[k] \in 1..len
    BY <1>1, <1>2, <1>a, <2>3, <2>4
  <2>6. ASSUME NEW k \in 1..Len(out) + 1 PROVE longer[h[k]] = <<more[k]>>
    <3>1. CASE k = Len(out) + 1
      BY <1>1, <2>0, <2>3, <2>5, <3>1
    <3>2. CASE k \in 1..Len(out)
      BY <1>1, <1>2, <2>3, <2>5, <3>2
    <3> QED
      BY <2>3, <3>1, <3>2
  <2>7. ASSUME NEW k \in 1..Len(out) + 1, NEW l \in 1..Len(out) + 1, k < l PROVE h[k] < h[l]
    <3>1. k \in 1..Len(out)
      BY <2>3, <2>7
    <3>2. CASE l = Len(out) + 1
      <4>1. h[k] \in 1..len /\ h[l] = len + 1
        BY <2>5, <3>1, <3>2
      <4>2. \A n \in Nat : \A m \in 1..n : m < n + 1
        OBVIOUS
      <4> QED
        BY <1>a, <4>1, <4>2
    <3>3. CASE l \in 1..Len(out)
      BY <1>2, <2>5, <2>7, <3>1, <3>3
    <3> QED
      BY <2>3, <3>2, <3>3
  <2>8. ASSUME NEW i \in 1..len + 1 PROVE longer[i] = <<>> \/ \E k \in 1..Len(out) + 1 : h[k] = i
    <3>1. CASE i = len + 1
      BY <2>3, <2>5, <3>1
    <3>2. CASE i \in 1..len
      <4>1. CASE pieces[i] = <<>>
        BY <1>1, <3>2, <4>1
      <4>2. ASSUME NEW k \in 1..Len(out), g[k] = i PROVE k \in 1..Len(out) + 1 /\ h[k] = i
        BY <1>a, <2>5, <4>2
      <4> QED
        BY <1>2, <3>2, <4>1, <4>2
    <3> QED
      BY <1>1, <3>1, <3>2
  <2>9. PickedAt(h, more, longer)
    BY <1>1, <2>3, <2>5, <2>6, <2>7, <2>8 DEF PickedAt
  <2> QED
    BY <2>2, <2>9 DEF longer
<1> QED
  BY <1>3, <1>4

\* Of pieces that have at most one element, FlattenSeq leaves the elements.
LEMMA FlattenPicks ==
  ASSUME NEW S, NEW pieces \in Seq(Seq(S)), Thin(pieces)
  PROVE  \E g : PickedAt(g, FlattenSeq(pieces), pieces)
<1> DEFINE Good == {p \in Seq(Seq(S)) : Thin(p) => \E g : PickedAt(g, FlattenSeq(p), p)}
<1>1. <<>> \in Good
  <2>1. PickedAt(<<>>, <<>>, <<>>)
    BY DEF PickedAt
  <2>2. <<>> \in Seq(Seq(S))
    OBVIOUS
  <2> QED
    BY <2>1, <2>2, FlattenEmpty
<1>2. ASSUME NEW p \in Seq(Seq(S)), NEW x \in Seq(S), p \in Good PROVE Append(p, x) \in Good
  <2>1. /\ Append(p, x) \in Seq(Seq(S)) /\ Len(Append(p, x)) = Len(p) + 1 /\ Len(p) \in Nat
        /\ Append(p, x)[Len(p) + 1] = x /\ \A i \in 1..Len(p) : Append(p, x)[i] = p[i]
    BY AppendProperties
  <2>2. SUFFICES ASSUME Thin(Append(p, x))
                 PROVE  \E g : PickedAt(g, FlattenSeq(Append(p, x)), Append(p, x))
    BY <2>1
  <2>3. Thin(p) /\ Len(x) <= 1
    <3>1. ASSUME NEW i \in 1..Len(p) PROVE Len(p[i]) <= 1
      <4>1. i \in 1..Len(p) + 1 /\ Append(p, x)[i] = p[i]
        BY <2>1
      <4> QED
        BY <2>1, <2>2, <4>1 DEF Thin
    <3>2. Len(p) + 1 \in 1..Len(p) + 1
      BY <2>1
    <3>3. Len(Append(p, x)[Len(p) + 1]) <= 1
      BY <2>1, <2>2, <3>2 DEF Thin
    <3> QED
      BY <2>1, <3>1, <3>3 DEF Thin
  <2>4. PICK out : out = FlattenSeq(p)
    OBVIOUS
  <2>5. PICK g : PickedAt(g, out, p)
    BY <1>2, <2>3, <2>4
  <2>6. out \in Seq(S)
    BY <2>4, FlattenType
  <2>7. \E h : PickedAt(h, out \o x, Append(p, x))
    BY <2>3, <2>5, <2>6, PickedAppend
  <2>8. FlattenSeq(Append(p, x)) = out \o x
    BY <2>4, FlattenAppend
  <2> QED
    BY <2>7, <2>8
<1>3. Seq(Seq(S)) \subseteq Good
  <2> HIDE DEF Good
  <2>1. PICK V : V = Seq(S)
    OBVIOUS
  <2> QED
    BY <1>1, <1>2, <2>1, SeqInduction
<1> QED
  BY <1>3

\* and one that is bounded has a greatest.
LEMMA NatMax ==
  ASSUME NEW b \in Nat, NEW T, T \subseteq 0..b, T # {}
  PROVE  \E m \in T : \A k \in T : k <= m
<1> DEFINE Below == {b - t : t \in T}
<1>1. Below \subseteq Nat /\ Below # {}
  <2>1. \A t \in 0..b : b - t \in Nat
    OBVIOUS
  <2>2. \A x \in Below : \E t \in 0..b : x = b - t
    OBVIOUS
  <2> QED
    BY <2>1, <2>2
<1>2. PICK low \in Below : \A k \in Below : low <= k
  <2> HIDE DEF Below
  <2> QED
    BY <1>1, NatMin
<1>3. PICK m \in T : low = b - m
  OBVIOUS
<1>4. ASSUME NEW k \in T PROVE k <= m
  <2>1. k \in Nat /\ m \in Nat
    BY <1>3
  <2>2. b - k \in Below
    <3>1. PICK y : y = b - k
      OBVIOUS
    <3>2. \E t \in T : y = b - t
      BY <3>1
    <3>3. y \in Below
      BY <3>2
    <3> QED
      BY <3>1, <3>3
  <2>3. b - m <= b - k
    BY <1>2, <1>3, <2>2
  <2> QED
    BY <2>1, <2>3
<1> QED
  BY <1>4

\* Max and Min of numbers.
LEMMA MaxIs ==
  ASSUME NEW b \in Nat, NEW T, T \subseteq 0..b, T # {}
  PROVE  Max(T) \in T /\ \A k \in T : k <= Max(T)
<1>1. PICK m \in T : \A k \in T : k <= m
  BY NatMax
<1>2. \A k \in T : m >= k
  <2>1. \A k \in T : k \in Int
    OBVIOUS
  <2> QED
    BY <1>1, <2>1
<1>3. Max(T) = CHOOSE x \in T : \A y \in T : x >= y
  BY DEF Max
<1>4. Max(T) \in T /\ \A y \in T : Max(T) >= y
  BY <1>2, <1>3, Zenon
<1>5. \A k \in T : k \in Int
  OBVIOUS
<1> QED
  BY <1>4, <1>5

\* The least of a set of numbers.
LEMMA MinIs ==
  ASSUME NEW T, T \subseteq Nat, T # {}
  PROVE  Min(T) \in T /\ \A k \in T : Min(T) <= k
<1>1. PICK m \in T : \A k \in T : m <= k
  BY NatMin
<1>2. Min(T) = CHOOSE x \in T : \A y \in T : x =< y
  BY DEF Min
<1> QED
  BY <1>1, <1>2, Zenon

-----------------------------------------------------------------------------
(* Comparison: the deltas and the divergences of two runs.                 *)

Names == Seq(NameParts)
AnyResult ==
  [recipe : Names, renderer : Names, passed : BOOLEAN, score : Int,
   assertions : Seq([name : AssertionNames, passed : BOOLEAN, detail : Details])]
AnyRun == Seq(AnyResult)
PairKeys == Names \X Names

\* The pairs of the results, in their order.
LEMMA PairFacts ==
  ASSUME NEW run \in AnyRun
  PROVE  /\ PairsOf(run) \in Seq(PairKeys) /\ Len(PairsOf(run)) = Len(run) /\ Len(run) \in Nat
         /\ \A i \in 1..Len(run) :
              /\ PairsOf(run)[i] = PairKey(run[i]) /\ PairKey(run[i]) \in PairKeys
              /\ run[i] \in AnyResult
<1>1. \A i \in 1..Len(run) : run[i] \in AnyResult
  BY ElementOfSeq DEF AnyRun
<1>2. Len(run) \in Nat
  BY DEF AnyRun
<1>3. \A i \in 1..Len(run) : PairKey(run[i]) \in PairKeys
  BY <1>1 DEF AnyResult, PairKeys, PairKey
<1> QED
  BY <1>1, <1>2, <1>3 DEF PairsOf

\* A summary has the texts of its run.
LEMMA SummaryDomain ==
  ASSUME NEW run \in AnyRun
  PROVE  DOMAIN Summarize(run) = {TextKey(run[i]) : i \in 1..Len(run)}
BY DEF Summarize, LastByName

\* The last result of a text is what a summary keeps.
LEMMA SummaryLast ==
  ASSUME NEW run \in AnyRun
  PROVE  \A n \in DOMAIN Summarize(run) : \E i \in 1..Len(run) :
           /\ TextKey(run[i]) = n /\ Summarize(run)[n] = run[i]
           /\ \A j \in i + 1..Len(run) : TextKey(run[j]) # n
<1>1. DOMAIN Summarize(run) = {TextKey(run[i]) : i \in 1..Len(run)}
  BY SummaryDomain
<1> SUFFICES ASSUME NEW n \in DOMAIN Summarize(run)
             PROVE  \E i \in 1..Len(run) :
                      /\ TextKey(run[i]) = n /\ Summarize(run)[n] = run[i]
                      /\ \A j \in i + 1..Len(run) : TextKey(run[j]) # n
  OBVIOUS
<1> DEFINE IsLast(i) == TextKey(run[i]) = n /\ \A j \in i + 1..Len(run) : TextKey(run[j]) # n
           T == {i \in 1..Len(run) : TextKey(run[i]) = n}
<1>2. T # {} /\ T \subseteq 0..Len(run) /\ Len(run) \in Nat
  BY <1>1, PairFacts
<1>3. PICK m \in T : \A k \in T : k <= m
  <2> HIDE DEF T
  <2> QED
    BY <1>2, NatMax
<1>4. IsLast(m)
  BY <1>2, <1>3
<1>5. Summarize(run)[n] = run[CHOOSE i \in 1..Len(run) : IsLast(i)]
  BY <1>1 DEF Summarize, LastByName
<1>6. PICK c : c = CHOOSE i \in 1..Len(run) : IsLast(i)
  OBVIOUS
<1>7. c \in 1..Len(run) /\ IsLast(c)
  <2> HIDE DEF IsLast
  <2> QED
    BY <1>3, <1>4, <1>6
<1> QED
  BY <1>5, <1>6, <1>7

\* The first result of a pair, that find() returns.
LEMMA FirstFacts ==
  ASSUME NEW run \in AnyRun, NEW n, Contains(PairsOf(run), n)
  PROVE  \E i \in 1..Len(run) : PairKey(run[i]) = n /\ FirstOf(run, n) = run[i]
<1> DEFINE IsFirst(i) == PairKey(run[i]) = n /\ \A j \in 1..(i - 1) : PairKey(run[j]) # n
           T == {i \in 1..Len(run) : PairKey(run[i]) = n}
<1>1. T # {} /\ T \subseteq Nat /\ Len(run) \in Nat
  BY PairFacts DEF Contains
<1>2. PICK m \in T : \A k \in T : m <= k
  <2> HIDE DEF T
  <2> QED
    BY <1>1, NatMin
<1>3. IsFirst(m)
  BY <1>1, <1>2
<1>4. FirstOf(run, n) = run[CHOOSE i \in 1..Len(run) : IsFirst(i)]
  BY DEF FirstOf
<1>5. PICK c : c = CHOOSE i \in 1..Len(run) : IsFirst(i)
  OBVIOUS
<1>6. c \in 1..Len(run) /\ IsFirst(c)
  <2> HIDE DEF IsFirst
  <2> QED
    BY <1>2, <1>3, <1>5
<1> QED
  BY <1>4, <1>5, <1>6

\* Of a run without repeated results it is the one result of that pair.
LEMMA DistinctFacts ==
  ASSUME NEW run \in AnyRun, Distinct(run)
  PROVE  \A i, j \in 1..Len(run) : PairKey(run[i]) = PairKey(run[j]) => i = j
BY PairFacts DEF Distinct, IsInjective

Verdict(result) == IF result.passed THEN "PASS" ELSE "FAIL"
PairSet(run) == {PairKey(run[i]) : i \in 1..Len(run)}
KeyText(key) == key[1] \o key[2]

\* Where no text is that of two, the outcome of a pair is that of the result of its text, and
\* SKIP where there is none.
LEMMA OutcomeFacts ==
  ASSUME NEW run \in AnyRun, Distinct(run), run = before \/ run = after, Unambiguous,
         NEW n \in PairSet(before) \cup PairSet(after), before \in AnyRun, after \in AnyRun
  PROVE  /\ KeyText(n) \in DOMAIN Summarize(run) =>
              /\ OutcomeIn(run, n) = Verdict(Summarize(run)[KeyText(n)])
              /\ Summarize(run)[KeyText(n)] \in AnyResult
              /\ n \in PairSet(run)
         /\ KeyText(n) \notin DOMAIN Summarize(run) => OutcomeIn(run, n) = "SKIP"
<1>0. DOMAIN Summarize(run) = {TextKey(run[i]) : i \in 1..Len(run)}
  BY SummaryDomain
<1>1. Contains(PairsOf(run), n) <=> \E i \in 1..Len(run) : PairKey(run[i]) = n
  <2>1. Contains(PairsOf(run), n) <=> \E i \in 1..Len(PairsOf(run)) : PairsOf(run)[i] = n
    BY DEF Contains
  <2> QED
    BY <2>1, PairFacts
<1>2. ASSUME NEW i \in 1..Len(run), TextKey(run[i]) = KeyText(n) PROVE PairKey(run[i]) = n
  <2>1. PICK r \in ToSet(before) \cup ToSet(after) : PairKey(r) = n
    BY DEF PairSet, ToSet
  <2>2. TextKey(r) = KeyText(n)
    BY <2>1 DEF TextKey, KeyText, PairKey
  <2>3. run[i] \in ToSet(before) \cup ToSet(after)
    BY DEF ToSet
  <2> QED
    BY <1>2, <2>1, <2>2, <2>3 DEF Unambiguous
<1>3. CASE KeyText(n) \in DOMAIN Summarize(run)
  <2>1. PICK i \in 1..Len(run) : TextKey(run[i]) = KeyText(n) /\ Summarize(run)[KeyText(n)] = run[i]
    BY <1>3, SummaryLast
  <2>2. PairKey(run[i]) = n
    BY <1>2, <2>1
  <2>3. PICK j \in 1..Len(run) : PairKey(run[j]) = n /\ FirstOf(run, n) = run[j]
    BY <1>1, <2>2, FirstFacts
  <2>4. i = j
    BY <2>2, <2>3, DistinctFacts
  <2>5. FirstOf(run, n) = Summarize(run)[KeyText(n)]
    BY <2>1, <2>3, <2>4
  <2>6. OutcomeIn(run, n) = Verdict(Summarize(run)[KeyText(n)])
    BY <1>1, <2>2, <2>5 DEF OutcomeIn, Verdict
  <2> QED
    BY <1>3, <2>1, <2>2, <2>6, PairFacts DEF PairSet
<1>4. CASE KeyText(n) \notin DOMAIN Summarize(run)
  <2>1. ASSUME NEW i \in 1..Len(run), PairKey(run[i]) = n PROVE FALSE
    <3>1. TextKey(run[i]) = KeyText(n)
      BY <2>1 DEF TextKey, KeyText, PairKey
    <3> QED
      BY <1>0, <1>4, <3>1
  <2> QED
    BY <1>1, <1>4, <2>1 DEF OutcomeIn
<1> QED
  BY <1>3, <1>4

\* The keys: each pair of either run, and none twice where no run has a pair twice.
LEMMA KeyFacts ==
  ASSUME before \in AnyRun, after \in AnyRun
  PROVE  /\ OrderedKeys \in Seq(PairKeys)
         /\ {OrderedKeys[i] : i \in 1..Len(OrderedKeys)} =
              PairSet(before) \cup PairSet(after)
         /\ Distinct(before) /\ Distinct(after) => IsInjective(OrderedKeys)
<1> DEFINE pieces == [i \in 1..Len(after) |->
                        IF Contains(PairsOf(before), PairKey(after[i])) THEN <<>> ELSE <<PairKey(after[i])>>]
<1>a. PICK ps : ps = pieces
  OBVIOUS
<1>1. /\ ps \in Seq(Seq(PairKeys)) /\ Len(ps) = Len(after) /\ Thin(ps)
      /\ \A i \in 1..Len(after) :
           ps[i] = IF Contains(PairsOf(before), PairKey(after[i])) THEN <<>> ELSE <<PairKey(after[i])>>
  <2>1. Len(after) \in Nat /\ \A i \in 1..Len(after) : PairKey(after[i]) \in PairKeys
    BY PairFacts DEF AnyResult
  <2>2. \A x \in PairKeys : <<x>> \in Seq(PairKeys) /\ Len(<<x>>) <= 1
    OBVIOUS
  <2>3. <<>> \in Seq(PairKeys) /\ Len(<<>>) <= 1
    OBVIOUS
  <2>4. \A i \in 1..Len(after) : ps[i] \in Seq(PairKeys) /\ Len(ps[i]) <= 1
    BY <1>a, <2>1, <2>2, <2>3
  <2>5. ps \in Seq(Seq(PairKeys)) /\ Len(ps) = Len(after)
    <3>1. ps = [i \in 1..Len(after) |-> ps[i]]
      BY <1>a
    <3> QED
      BY <2>1, <2>4, <3>1, IsASeq
  <2> QED
    BY <1>a, <2>4, <2>5 DEF Thin
<1>2. PICK new : new = FlattenSeq(ps)
  OBVIOUS
<1>3. new \in Seq(PairKeys) /\ OrderedKeys = PairsOf(before) \o new
  BY <1>a, <1>1, <1>2, FlattenType DEF OrderedKeys
<1>4. PICK g : PickedAt(g, new, ps)
  BY <1>1, <1>2, FlattenPicks
<1>5. /\ \A k \in 1..Len(new) : g[k] \in 1..Len(after) /\ ps[g[k]] = <<new[k]>>
      /\ \A k, l \in 1..Len(new) : k < l => g[k] < g[l]
      /\ \A i \in 1..Len(after) : ps[i] = <<>> \/ \E k \in 1..Len(new) : g[k] = i
  BY <1>1, <1>4 DEF PickedAt
<1>6. \A k \in 1..Len(new) : /\ new[k] = PairKey(after[g[k]])
                             /\ ~Contains(PairsOf(before), new[k])
  <2> TAKE k \in 1..Len(new)
  <2>1. PICK i \in 1..Len(after) : i = g[k] /\ ps[i] = <<new[k]>>
    BY <1>5
  <2>a. ps[i] # <<>> /\ ps[i][1] = new[k] /\ <<PairKey(after[i])>>[1] = PairKey(after[i])
    BY <2>1
  <2>2. ~Contains(PairsOf(before), PairKey(after[i])) /\ ps[i] = <<PairKey(after[i])>>
    BY <1>1, <2>a
  <2>3. new[k] = PairKey(after[i])
    BY <2>a, <2>2
  <2> QED
    BY <2>1, <2>2, <2>3
<1>7. \A i \in 1..Len(after) : Contains(PairsOf(before), PairKey(after[i]))
                              \/ \E k \in 1..Len(new) : new[k] = PairKey(after[i])
  <2> TAKE i \in 1..Len(after)
  <2>1. ps[i] = <<>> => Contains(PairsOf(before), PairKey(after[i]))
    <3>1. \A x : <<x>> # <<>>
      OBVIOUS
    <3> QED
      BY <1>1, <3>1, Zenon
  <2>2. ASSUME NEW k \in 1..Len(new), g[k] = i PROVE new[k] = PairKey(after[i])
    BY <1>6, <2>2
  <2> QED
    BY <1>5, <2>1, <2>2
<1>8. PICK old : old = PairsOf(before)
  OBVIOUS
<1>9. /\ old \in Seq(PairKeys) /\ Len(old) = Len(before) /\ Len(old) \in Nat /\ Len(new) \in Nat
      /\ \A i \in 1..Len(before) : old[i] = PairKey(before[i])
      /\ \A n : Contains(PairsOf(before), n) <=> \E i \in 1..Len(old) : old[i] = n
  <2>1. /\ old \in Seq(PairKeys) /\ Len(old) = Len(before) /\ Len(old) \in Nat
        /\ \A i \in 1..Len(before) : old[i] = PairKey(before[i])
    BY <1>8, PairFacts
  <2>2. Len(new) \in Nat
    BY <1>3
  <2>3. \A n : Contains(old, n) <=> \E i \in 1..Len(old) : old[i] = n
    BY DEF Contains
  <2> QED
    BY <1>8, <2>1, <2>2, <2>3
<1>10. /\ OrderedKeys \in Seq(PairKeys) /\ Len(OrderedKeys) = Len(old) + Len(new)
       /\ \A i \in 1..Len(old) : OrderedKeys[i] = old[i]
       /\ \A i \in 1..Len(new) : OrderedKeys[Len(old) + i] = new[i]
       /\ \A i \in Len(old) + 1..Len(old) + Len(new) :
            OrderedKeys[i] = new[i - Len(old)] /\ i - Len(old) \in 1..Len(new)
  <2>1. PICK all : all = old \o new
    OBVIOUS
  <2>2. /\ all \in Seq(PairKeys) /\ Len(all) = Len(old) + Len(new)
        /\ \A i \in 1..Len(old) + Len(new) : all[i] = IF i <= Len(old) THEN old[i] ELSE new[i - Len(old)]
    BY <1>3, <1>9, <2>1, ConcatProperties
  <2>3. PICK m, n \in Nat : m = Len(old) /\ n = Len(new)
    BY <1>9
  <2>4. /\ \A i \in 1..m : i \in 1..m + n /\ i <= m
        /\ \A i \in 1..n : m + i \in 1..m + n /\ ~(m + i <= m) /\ (m + i) - m = i
        /\ \A i \in m + 1..m + n : i \in 1..m + n /\ ~(i <= m) /\ i - m \in 1..n
    OBVIOUS
  <2>5. all = OrderedKeys
    BY <1>3, <1>8, <2>1
  <2> QED
    BY <2>2, <2>3, <2>4, <2>5
<1>11. {OrderedKeys[i] : i \in 1..Len(OrderedKeys)} =
         PairSet(before) \cup PairSet(after)
  <2>a. /\ PairSet(before) = {PairKey(before[i]) : i \in 1..Len(before)}
        /\ PairSet(after) = {PairKey(after[i]) : i \in 1..Len(after)}
    BY DEF PairSet
  <2>1. ASSUME NEW i \in 1..Len(OrderedKeys)
        PROVE  OrderedKeys[i] \in PairSet(before) \cup PairSet(after)
    <3>1. CASE i \in 1..Len(old)
      BY <1>9, <1>10, <3>1, <2>a
    <3>2. CASE i \in Len(old) + 1..Len(old) + Len(new)
      <4>1. PICK k \in 1..Len(new) : OrderedKeys[i] = new[k]
        BY <1>10, <3>2
      <4>2. PICK j \in 1..Len(after) : new[k] = PairKey(after[j])
        BY <1>5, <1>6
      <4> QED
        BY <4>1, <4>2, <2>a
    <3> QED
      BY <1>9, <1>10, <3>1, <3>2
  <2>2. ASSUME NEW n \in PairSet(before)
        PROVE  \E i \in 1..Len(OrderedKeys) : OrderedKeys[i] = n
    BY <1>9, <1>10, <2>a
  <2>3. ASSUME NEW n \in PairSet(after)
        PROVE  \E i \in 1..Len(OrderedKeys) : OrderedKeys[i] = n
    <3>1. PICK i \in 1..Len(after) : n = PairKey(after[i])
      BY <2>a
    <3>2. CASE \E k \in 1..Len(new) : new[k] = n
      <4>1. PICK k \in 1..Len(new) : new[k] = n
        BY <3>2
      <4>2. Len(old) + k \in 1..Len(OrderedKeys) /\ OrderedKeys[Len(old) + k] = n
        BY <1>9, <1>10, <4>1
      <4> QED
        BY <4>2
    <3>3. CASE \E k \in 1..Len(old) : old[k] = n
      BY <1>9, <1>10, <3>3
    <3> QED
      BY <1>7, <1>9, <3>1, <3>2, <3>3
  <2> QED
    BY <2>1, <2>2, <2>3
<1>12. ASSUME Distinct(before), Distinct(after) PROVE IsInjective(OrderedKeys)
  <2>1. SUFFICES ASSUME NEW i \in 1..Len(OrderedKeys), NEW j \in 1..Len(OrderedKeys),
                        OrderedKeys[i] = OrderedKeys[j]
                 PROVE  i = j
    BY <1>9, <1>10 DEF IsInjective
  <2>2. CASE i \in 1..Len(old) /\ j \in 1..Len(old)
    BY <1>9, <1>10, <1>12, <2>1, <2>2, DistinctFacts
  <2>3. CASE i \in 1..Len(old) /\ j \in Len(old) + 1..Len(old) + Len(new)
    BY <1>6, <1>9, <1>10, <2>1, <2>3
  <2>4. CASE j \in 1..Len(old) /\ i \in Len(old) + 1..Len(old) + Len(new)
    BY <1>6, <1>9, <1>10, <2>1, <2>4
  <2>5. CASE i \in Len(old) + 1..Len(old) + Len(new) /\ j \in Len(old) + 1..Len(old) + Len(new)
    <3>1. PICK k \in 1..Len(new), l \in 1..Len(new) : k = i - Len(old) /\ l = j - Len(old)
      BY <1>10, <2>5
    <3>2. new[k] = new[l]
      BY <1>10, <2>1, <2>5, <3>1
    <3>3. PairKey(after[g[k]]) = PairKey(after[g[l]])
      BY <1>6, <3>2
    <3>4. g[k] = g[l] /\ g[k] \in Nat /\ g[l] \in Nat
      <4>1. g[k] \in 1..Len(after) /\ g[l] \in 1..Len(after)
        BY <1>5
      <4>2. g[k] = g[l]
        BY <1>12, <3>3, <4>1, DistinctFacts
      <4> QED
        BY <4>1, <4>2
    <3>5. ~(k < l) /\ ~(l < k)
      BY <1>5, <3>4
    <3> QED
      BY <1>9, <2>5, <3>1, <3>5
  <2> QED
    BY <1>9, <1>10, <2>2, <2>3, <2>4, <2>5
<1> QED
  BY <1>10, <1>11, <1>12

Outcomes == {"PASS", "FAIL", "SKIP"}
AnyDelta == [recipe : Names, renderer : Names, before : Outcomes, after : Outcomes]
Changes(n) == OutcomeIn(before, n) # OutcomeIn(after, n)

\* The deltas: of each key whose outcome changes, in the order of the keys.
LEMMA DeltaFacts ==
  ASSUME before \in AnyRun, after \in AnyRun, NEW ds, ds = Deltas
  PROVE  /\ ds \in Seq(AnyDelta)
         /\ {PairKey(ds[i]) : i \in 1..Len(ds)} =
              {n \in PairSet(before) \cup PairSet(after) : Changes(n)}
         /\ Distinct(before) /\ Distinct(after) => IsInjective(PairsOf(ds))
<1> DEFINE Pieces == [i \in 1..Len(OrderedKeys) |-> DeltaOf(OrderedKeys[i])]
           Delta(n) == [recipe |-> n[1], renderer |-> n[2], before |-> OutcomeIn(before, n), after |-> OutcomeIn(after, n)]
<1>1. PICK keys : keys = OrderedKeys
  OBVIOUS
<1>2. keys \in Seq(PairKeys) /\ Len(keys) \in Nat /\ \A i \in 1..Len(keys) : keys[i] \in PairKeys
  BY <1>1, KeyFacts, ElementOfSeq
<1>3. \A n : OutcomeIn(before, n) \in Outcomes /\ OutcomeIn(after, n) \in Outcomes
  BY DEF OutcomeIn, Outcomes
<1>4. \A n : DeltaOf(n) = IF Changes(n) THEN <<Delta(n)>> ELSE <<>>
  BY DEF DeltaOf, Changes
<1>5. \A n \in PairKeys : Delta(n) \in AnyDelta /\ PairKey(Delta(n)) = n
  BY <1>3 DEF AnyDelta, PairKeys, PairKey
<1> HIDE DEF Delta
<1>6. \A n \in PairKeys : DeltaOf(n) \in Seq(AnyDelta) /\ Len(DeltaOf(n)) <= 1
  <2>1. \A x \in AnyDelta : <<x>> \in Seq(AnyDelta) /\ Len(<<x>>) <= 1
    OBVIOUS
  <2>2. <<>> \in Seq(AnyDelta) /\ Len(<<>>) <= 1
    OBVIOUS
  <2> TAKE n \in PairKeys
  <2>3. CASE Changes(n)
    BY <1>4, <1>5, <2>1, <2>3
  <2>4. CASE ~Changes(n)
    BY <1>4, <2>2, <2>4
  <2> QED
    BY <2>3, <2>4
<1>7. PICK ps : ps = Pieces
  OBVIOUS
<1>8. /\ ps \in Seq(Seq(AnyDelta)) /\ Len(ps) = Len(keys) /\ Thin(ps)
      /\ \A i \in 1..Len(keys) : ps[i] = DeltaOf(keys[i])
  <2>1. \A i \in 1..Len(keys) : ps[i] = DeltaOf(keys[i])
    BY <1>1, <1>7
  <2>2. \A i \in 1..Len(keys) : ps[i] \in Seq(AnyDelta) /\ Len(ps[i]) <= 1
    BY <1>2, <1>6, <2>1
  <2>3. ps = [i \in 1..Len(keys) |-> ps[i]]
    BY <1>1, <1>7
  <2>4. ps \in Seq(Seq(AnyDelta)) /\ Len(ps) = Len(keys)
    BY <1>2, <2>2, <2>3, IsASeq
  <2> QED
    BY <2>1, <2>2, <2>4 DEF Thin
<1>a. ds = FlattenSeq(ps)
  BY <1>7 DEF Deltas
<1>9. ds \in Seq(AnyDelta)
  BY <1>a, <1>8, FlattenType
<1>10. PICK g : PickedAt(g, ds, ps)
  BY <1>a, <1>8, FlattenPicks
<1>11. /\ \A k \in 1..Len(ds) : g[k] \in 1..Len(keys) /\ ps[g[k]] = <<ds[k]>>
       /\ \A k, l \in 1..Len(ds) : k < l => g[k] < g[l]
       /\ \A i \in 1..Len(keys) : ps[i] = <<>> \/ \E k \in 1..Len(ds) : g[k] = i
  BY <1>8, <1>10 DEF PickedAt
<1>12. \A x : <<x>> # <<>> /\ <<x>>[1] = x
  OBVIOUS
<1>13. \A k \in 1..Len(ds) : Changes(keys[g[k]]) /\ PairKey(ds[k]) = keys[g[k]]
  <2> TAKE k \in 1..Len(ds)
  <2>1. PICK i \in 1..Len(keys) : i = g[k] /\ ps[i] = <<ds[k]>> /\ ps[i] = DeltaOf(keys[i])
    BY <1>8, <1>11
  <2>2. PICK n \in PairKeys : n = keys[i]
    BY <1>2
  <2>3. DeltaOf(n) # <<>> /\ DeltaOf(n)[1] = ds[k]
    BY <1>12, <2>1, <2>2
  <2>4. Changes(n)
    BY <1>4, <2>3
  <2>5. ds[k] = Delta(n)
    BY <1>4, <1>12, <2>3, <2>4
  <2> QED
    BY <1>5, <2>1, <2>2, <2>4, <2>5
<1>14. \A i \in 1..Len(keys) : Changes(keys[i]) => \E k \in 1..Len(ds) : g[k] = i
  BY <1>4, <1>8, <1>11, <1>12
<1>15. {keys[i] : i \in 1..Len(keys)} = PairSet(before) \cup PairSet(after)
  BY <1>1, KeyFacts
<1>16. {PairKey(ds[i]) : i \in 1..Len(ds)} =
         {n \in PairSet(before) \cup PairSet(after) : Changes(n)}
  <2>1. ASSUME NEW k \in 1..Len(ds)
        PROVE  PairKey(ds[k]) \in {n \in {keys[i] : i \in 1..Len(keys)} : Changes(n)}
    BY <1>11, <1>13
  <2>2. ASSUME NEW i \in 1..Len(keys), Changes(keys[i])
        PROVE  \E k \in 1..Len(ds) : PairKey(ds[k]) = keys[i]
    BY <1>13, <1>14, <2>2
  <2>3. PICK all : all = {keys[i] : i \in 1..Len(keys)}
    OBVIOUS
  <2>4. PICK named : named = {PairKey(ds[i]) : i \in 1..Len(ds)}
    OBVIOUS
  <2>5. \A n \in named : n \in all /\ Changes(n)
    BY <2>1, <2>3, <2>4
  <2>6. \A n \in all : Changes(n) => n \in named
    <3> TAKE n \in all
    <3>1. PICK i \in 1..Len(keys) : n = keys[i]
      BY <2>3
    <3> QED
      BY <2>2, <2>4, <3>1
  <2>7. named = {n \in all : Changes(n)}
    BY <2>5, <2>6
  <2> QED
    BY <1>15, <2>3, <2>4, <2>7
<1>17. ASSUME Distinct(before), Distinct(after) PROVE IsInjective(PairsOf(ds))
  <2>1. IsInjective(keys) /\ Len(ds) \in Nat
    BY <1>1, <1>9, <1>17, KeyFacts
  <2>2. \A i, j \in 1..Len(keys) : keys[i] = keys[j] => i = j
    BY <1>2, <2>1 DEF IsInjective
  <2>3. ASSUME NEW k \in 1..Len(ds), NEW l \in 1..Len(ds), PairKey(ds[k]) = PairKey(ds[l])
        PROVE  k = l
    <3>1. g[k] = g[l] /\ g[k] \in Nat
      BY <1>11, <1>13, <2>2, <2>3
    <3>2. ~(k < l) /\ ~(l < k)
      BY <1>11, <3>1
    <3> QED
      BY <2>1, <3>2
  <2> QED
    BY <2>1, <2>3 DEF IsInjective, PairsOf
<1> QED
  BY <1>9, <1>16, <1>17

-----------------------------------------------------------------------------
CompareKinds == {"verdict", "score", "assertions", "detail"}

\* What one comparison can say, and that it does not matter which side is left.
LEMMA CompareOneFacts ==
  ASSUME NEW n, NEW l, NEW r
  PROVE  /\ \A d \in CompareOne(n, l, r) : d = [recipe |-> n, kind |-> d.kind] /\ d.kind \in CompareKinds
         /\ [recipe |-> n, kind |-> "verdict"] \in CompareOne(n, l, r) <=> l.passed # r.passed
         /\ [recipe |-> n, kind |-> "score"] \in CompareOne(n, l, r) <=>
               l.passed = r.passed /\ Apart(l.score, r.score)
         /\ CompareOne(n, l, r) = CompareOne(n, r, l)
         /\ l.score \in Int => CompareOne(n, l, l) = {}
<1> DEFINE Differing(x, y) == {a \in DOMAIN x \cap DOMAIN y : x[a].passed # y[a].passed}
           Worded(x, y) ==
             {a \in (DOMAIN x \cap DOMAIN y) \ Differing(x, y) : x[a].detail # y[a].detail}
           Diverges(p, q, x, y) ==
             [verdict |-> p.passed # q.passed,
              score |-> p.passed = q.passed /\ Apart(p.score, q.score),
              assertions |-> Differing(x, y) # {} \/ DOMAIN x # DOMAIN y,
              detail |-> wording /\ Worded(x, y) # {}]
           Listed(v) == {[recipe |-> n, kind |-> kind] : kind \in {k \in DOMAIN v : v[k]}}
<1>1. \A p, q : CompareOne(n, p, q) =
               Listed(Diverges(p, q, AssertionMap(p.assertions), AssertionMap(q.assertions)))
  BY DEF CompareOne
<1>2. \A x, y : Differing(x, y) = Differing(y, x) /\ Worded(x, y) = Worded(y, x)
  OBVIOUS
<1>3. \A x : Differing(x, x) = {} /\ Worded(x, x) = {}
  OBVIOUS
<1> HIDE DEF Differing, Worded
<1>4. \A p, q, x, y : Diverges(p, q, x, y) = Diverges(q, p, y, x)
  <2>1. \A u, v : Apart(u, v) <=> Apart(v, u)
    BY DEF Apart
  <2> QED
    BY <1>2, <2>1
<1>5. \A p, q, x, y : DOMAIN Diverges(p, q, x, y) = CompareKinds
  BY DEF CompareKinds
<1>6. \A p, q, x, y : /\ Diverges(p, q, x, y)["verdict"] = (p.passed # q.passed)
                     /\ Diverges(p, q, x, y)["score"] = (p.passed = q.passed /\ Apart(p.score, q.score))
  OBVIOUS
<1>7. \A p, x : p.score \in Int => \A k \in CompareKinds : ~Diverges(p, p, x, x)[k]
  <2> SUFFICES ASSUME NEW p, NEW x, p.score \in Int
               PROVE  \A k \in CompareKinds : ~Diverges(p, p, x, x)[k]
    OBVIOUS
  <2>0. ~Apart(p.score, p.score)
    BY EpsilonAssumption DEF Apart
  <2>1. Diverges(p, p, x, x) =
          [verdict |-> FALSE, score |-> FALSE, assertions |-> FALSE, detail |-> FALSE]
    BY <1>3, <2>0
  <2> QED
    BY <2>1 DEF CompareKinds
<1> HIDE DEF Diverges
<1>8. PICK x, y : x = AssertionMap(l.assertions) /\ y = AssertionMap(r.assertions)
  OBVIOUS
<1>9. /\ CompareOne(n, l, r) = Listed(Diverges(l, r, x, y))
      /\ CompareOne(n, r, l) = Listed(Diverges(r, l, y, x))
      /\ CompareOne(n, l, l) = Listed(Diverges(l, l, x, x))
  BY <1>1, <1>8
<1>10. PICK v : v = Diverges(l, r, x, y)
  OBVIOUS
<1>11. /\ DOMAIN v = CompareKinds
       /\ v["verdict"] <=> l.passed # r.passed
       /\ v["score"] <=> (l.passed = r.passed /\ Apart(l.score, r.score))
  BY <1>5, <1>6, <1>10
<1>12. CompareOne(n, l, r) = CompareOne(n, r, l)
  BY <1>4, <1>9
<1>13. ASSUME l.score \in Int PROVE CompareOne(n, l, l) = {}
  <2>1. \A k \in DOMAIN Diverges(l, l, x, x) : ~Diverges(l, l, x, x)[k]
    BY <1>5, <1>7, <1>13
  <2> QED
    BY <1>9, <2>1
<1>14. \A d \in Listed(v) : d = [recipe |-> n, kind |-> d.kind] /\ d.kind \in CompareKinds
  BY <1>11
<1>15. \A k \in CompareKinds : [recipe |-> n, kind |-> k] \in Listed(v) <=> v[k]
  BY <1>11
<1> HIDE DEF Listed
<1>16. "verdict" \in CompareKinds /\ "score" \in CompareKinds
  BY DEF CompareKinds
<1> QED
  BY <1>9, <1>10, <1>11, <1>12, <1>13, <1>14, <1>15, <1>16

\* Which name diverges how.
LEMMA DivergenceFacts ==
  ASSUME NEW l, NEW r
  PROVE  /\ \A d \in Divergences(l, r) :
              /\ d = [recipe |-> d.recipe, kind |-> d.kind]
              /\ \/ /\ d.recipe \in DOMAIN l \cap DOMAIN r
                    /\ d \in CompareOne(d.recipe, l[d.recipe], r[d.recipe])
                    /\ d.kind \in CompareKinds
                 \/ d.recipe \in DOMAIN l \ DOMAIN r /\ d.kind = "only_left"
                 \/ d.recipe \in DOMAIN r \ DOMAIN l /\ d.kind = "only_right"
         /\ \A n \in DOMAIN l \cap DOMAIN r : CompareOne(n, l[n], r[n]) \subseteq Divergences(l, r)
         /\ \A n \in DOMAIN l \ DOMAIN r : [recipe |-> n, kind |-> "only_left"] \in Divergences(l, r)
         /\ \A n \in DOMAIN r \ DOMAIN l : [recipe |-> n, kind |-> "only_right"] \in Divergences(l, r)
<1> DEFINE Both == UNION {CompareOne(n, l[n], r[n]) : n \in DOMAIN l \cap DOMAIN r}
           Left == {[recipe |-> n, kind |-> "only_left"] : n \in DOMAIN l \ DOMAIN r}
           Right == {[recipe |-> n, kind |-> "only_right"] : n \in DOMAIN r \ DOMAIN l}
<1>a. Divergences(l, r) = Both \cup Left \cup Right
  BY DEF Divergences
<1>b. \A d : d \in Both <=> \E n \in DOMAIN l \cap DOMAIN r : d \in CompareOne(n, l[n], r[n])
  OBVIOUS
<1>c. \A d : d \in Left <=> \E n \in DOMAIN l \ DOMAIN r : d = [recipe |-> n, kind |-> "only_left"]
  OBVIOUS
<1>d. \A d : d \in Right <=> \E n \in DOMAIN r \ DOMAIN l : d = [recipe |-> n, kind |-> "only_right"]
  OBVIOUS
<1> HIDE DEF Both, Left, Right
<1>1. /\ \A n \in DOMAIN l \cap DOMAIN r : CompareOne(n, l[n], r[n]) \subseteq Divergences(l, r)
      /\ \A n \in DOMAIN l \ DOMAIN r : [recipe |-> n, kind |-> "only_left"] \in Divergences(l, r)
      /\ \A n \in DOMAIN r \ DOMAIN l : [recipe |-> n, kind |-> "only_right"] \in Divergences(l, r)
  BY <1>a, <1>b, <1>c, <1>d
<1>2. ASSUME NEW d \in Divergences(l, r)
      PROVE  \/ \E n \in DOMAIN l \cap DOMAIN r : d \in CompareOne(n, l[n], r[n])
             \/ \E n \in DOMAIN l \ DOMAIN r : d = [recipe |-> n, kind |-> "only_left"]
             \/ \E n \in DOMAIN r \ DOMAIN l : d = [recipe |-> n, kind |-> "only_right"]
  BY <1>2, <1>a, <1>b, <1>c, <1>d
<1>3. ASSUME NEW d \in Divergences(l, r)
      PROVE  /\ d = [recipe |-> d.recipe, kind |-> d.kind]
             /\ \/ /\ d.recipe \in DOMAIN l \cap DOMAIN r
                   /\ d \in CompareOne(d.recipe, l[d.recipe], r[d.recipe])
                   /\ d.kind \in CompareKinds
                \/ d.recipe \in DOMAIN l \ DOMAIN r /\ d.kind = "only_left"
                \/ d.recipe \in DOMAIN r \ DOMAIN l /\ d.kind = "only_right"
  <2>1. ASSUME NEW n \in DOMAIN l \cap DOMAIN r, d \in CompareOne(n, l[n], r[n])
        PROVE  d = [recipe |-> n, kind |-> d.kind] /\ d.kind \in CompareKinds
    <3>1. PICK x, y : x = l[n] /\ y = r[n]
      OBVIOUS
    <3>2. \A e \in CompareOne(n, x, y) : e = [recipe |-> n, kind |-> e.kind] /\ e.kind \in CompareKinds
      BY CompareOneFacts
    <3> QED
      BY <2>1, <3>1, <3>2
  <2>2. CASE \E n \in DOMAIN l \cap DOMAIN r : d \in CompareOne(n, l[n], r[n])
    <3>1. PICK n \in DOMAIN l \cap DOMAIN r : d \in CompareOne(n, l[n], r[n])
      BY <2>2
    <3>2. d = [recipe |-> n, kind |-> d.kind] /\ d.kind \in CompareKinds
      BY <2>1, <3>1
    <3>3. d.recipe = n
      BY <3>2
    <3> QED
      BY <3>1, <3>2, <3>3
  <2>3. CASE \E n \in DOMAIN l \ DOMAIN r : d = [recipe |-> n, kind |-> "only_left"]
    BY <2>3
  <2>4. CASE \E n \in DOMAIN r \ DOMAIN l : d = [recipe |-> n, kind |-> "only_right"]
    BY <2>4
  <2> QED
    BY <1>2, <2>2, <2>3, <2>4
<1> QED
  BY <1>1, <1>3

\* Swapping the sides twice changes nothing.
LEMMA MirrorFacts ==
  /\ Mirrored("only_left") = "only_right" /\ Mirrored("only_right") = "only_left"
  /\ \A k \in CompareKinds : Mirrored(k) = k
BY DEF Mirrored, CompareKinds

\* The divergences of two runs the other way round.
LEMMA DivergencesMirror ==
  ASSUME NEW l, NEW r
  PROVE  Divergences(r, l) = {[d EXCEPT !.kind = Mirrored(d.kind)] : d \in Divergences(l, r)}
<1>1. ASSUME NEW x, NEW y, NEW d \in Divergences(x, y)
      PROVE  [d EXCEPT !.kind = Mirrored(d.kind)] \in Divergences(y, x)
  <2>1. /\ d = [recipe |-> d.recipe, kind |-> d.kind]
        /\ \/ /\ d.recipe \in DOMAIN x \cap DOMAIN y
              /\ d \in CompareOne(d.recipe, x[d.recipe], y[d.recipe])
              /\ d.kind \in CompareKinds
           \/ d.recipe \in DOMAIN x \ DOMAIN y /\ d.kind = "only_left"
           \/ d.recipe \in DOMAIN y \ DOMAIN x /\ d.kind = "only_right"
    BY DivergenceFacts
  <2>2. PICK n, k : n = d.recipe /\ k = d.kind
    OBVIOUS
  <2>3. [d EXCEPT !.kind = Mirrored(d.kind)] = [recipe |-> n, kind |-> Mirrored(k)]
    BY <2>1, <2>2
  <2>4. CASE n \in DOMAIN x \cap DOMAIN y /\ d \in CompareOne(n, x[n], y[n]) /\ k \in CompareKinds
    <3>1. CompareOne(n, x[n], y[n]) = CompareOne(n, y[n], x[n])
      <4>1. PICK p, q : p = x[n] /\ q = y[n]
        OBVIOUS
      <4>2. CompareOne(n, p, q) = CompareOne(n, q, p)
        BY CompareOneFacts
      <4> QED
        BY <4>1, <4>2
    <3>2. d \in Divergences(y, x)
      BY <2>4, <3>1, DivergenceFacts
    <3>3. Mirrored(k) = k
      BY <2>4, MirrorFacts
    <3> QED
      BY <2>1, <2>2, <2>3, <3>2, <3>3
  <2>5. CASE n \in DOMAIN x \ DOMAIN y /\ k = "only_left"
    BY <2>3, <2>5, MirrorFacts, DivergenceFacts
  <2>6. CASE n \in DOMAIN y \ DOMAIN x /\ k = "only_right"
    BY <2>3, <2>6, MirrorFacts, DivergenceFacts
  <2> QED
    BY <2>1, <2>2, <2>4, <2>5, <2>6
<1>2. ASSUME NEW d \in Divergences(r, l)
      PROVE  \E e \in Divergences(l, r) : d = [e EXCEPT !.kind = Mirrored(e.kind)]
  <2>1. PICK e : e = [d EXCEPT !.kind = Mirrored(d.kind)]
    OBVIOUS
  <2>2. e \in Divergences(l, r)
    BY <1>1, <2>1
  <2>3. d = [recipe |-> d.recipe, kind |-> d.kind] /\ d.kind \in CompareKinds \cup {"only_left", "only_right"}
    BY DivergenceFacts
  <2>4. Mirrored(Mirrored(d.kind)) = d.kind
    BY <2>3, MirrorFacts
  <2>5. PICK n, k, m : n = d.recipe /\ k = d.kind /\ m = Mirrored(k)
    OBVIOUS
  <2>6. e = [recipe |-> n, kind |-> m] /\ Mirrored(m) = k
    BY <2>1, <2>3, <2>4, <2>5
  <2>7. [e EXCEPT !.kind = Mirrored(e.kind)] = [recipe |-> n, kind |-> k]
    BY <2>6
  <2> QED
    BY <2>2, <2>3, <2>5, <2>7
<1> QED
  BY <1>1, <1>2

-----------------------------------------------------------------------------
ComparisonSpec == ComparisonInit(AnyRun) /\ [][ComparisonStep]_comparisonVars

ComparedSoFar ==
  /\ before \in AnyRun /\ after \in AnyRun
  /\ comparing \in {"runs", "deltas", "compared", "refused"}
  /\ comparing # "runs" => deltas = Deltas
  /\ comparing = "compared" => divergences = Divergences(Summarize(before), Summarize(after))

\* Of runs that repeat no result, and where no text is that of two, a delta is reported of
\* exactly the results whose divergence is one of verdict or presence.
LEMMA FlipsAgree ==
  ASSUME before \in AnyRun, after \in AnyRun, Distinct(before), Distinct(after), Unambiguous
  PROVE  {KeyText(n) : n \in {k \in PairSet(before) \cup PairSet(after) : Changes(k)}} =
           {d.recipe : d \in {e \in Divergences(Summarize(before), Summarize(after)) : e.kind \in Flips}}
<1>1. PICK l, r, pairs : /\ l = Summarize(before) /\ r = Summarize(after)
                         /\ pairs = PairSet(before) \cup PairSet(after)
  OBVIOUS
<1>2. \A n \in pairs : /\ KeyText(n) \in DOMAIN l => /\ OutcomeIn(before, n) = Verdict(l[KeyText(n)])
                                                    /\ l[KeyText(n)].passed \in BOOLEAN
                       /\ KeyText(n) \notin DOMAIN l => OutcomeIn(before, n) = "SKIP"
  BY <1>1, OutcomeFacts DEF AnyResult
<1>3. \A n \in pairs : /\ KeyText(n) \in DOMAIN r => /\ OutcomeIn(after, n) = Verdict(r[KeyText(n)])
                                                    /\ r[KeyText(n)].passed \in BOOLEAN
                       /\ KeyText(n) \notin DOMAIN r => OutcomeIn(after, n) = "SKIP"
  BY <1>1, OutcomeFacts DEF AnyResult
<1>a. /\ \A n \in pairs : KeyText(n) \in DOMAIN l \cup DOMAIN r
      /\ \A t \in DOMAIN l \cup DOMAIN r : \E n \in pairs : KeyText(n) = t
  <2>1. \A x : KeyText(PairKey(x)) = TextKey(x)
    BY DEF KeyText, PairKey, TextKey
  <2>2. /\ DOMAIN l = {TextKey(before[i]) : i \in 1..Len(before)}
        /\ DOMAIN r = {TextKey(after[i]) : i \in 1..Len(after)}
    BY <1>1, SummaryDomain
  <2> QED
    BY <1>1, <2>1, <2>2 DEF PairSet
<1>4. ASSUME NEW n \in pairs, NEW t, t = KeyText(n), t \in DOMAIN l \cap DOMAIN r
      PROVE  Changes(n) <=> l[t].passed # r[t].passed
  <2>1. PICK x, y : x = l[t] /\ y = r[t]
    OBVIOUS
  <2>2. /\ Changes(n) <=> Verdict(x) # Verdict(y)
        /\ x.passed \in BOOLEAN /\ y.passed \in BOOLEAN
    <3>1. OutcomeIn(before, n) = Verdict(x) /\ x.passed \in BOOLEAN
      BY <1>2, <1>4, <2>1
    <3>2. OutcomeIn(after, n) = Verdict(y) /\ y.passed \in BOOLEAN
      BY <1>3, <1>4, <2>1
    <3> QED
      BY <3>1, <3>2 DEF Changes
  <2>3. \A p, q \in BOOLEAN :
          (IF p THEN "PASS" ELSE "FAIL") # (IF q THEN "PASS" ELSE "FAIL") <=> p # q
    OBVIOUS
  <2> QED
    BY <2>1, <2>2, <2>3 DEF Verdict
<1>5. ASSUME NEW n \in pairs, KeyText(n) \in (DOMAIN l \ DOMAIN r) \cup (DOMAIN r \ DOMAIN l)
      PROVE  Changes(n)
  <2>1. \A x : Verdict(x) # "SKIP"
    BY DEF Verdict
  <2>2. CASE KeyText(n) \in DOMAIN l \ DOMAIN r
    <3>1. OutcomeIn(before, n) = Verdict(l[KeyText(n)])
      BY <1>2, <2>2
    <3>2. OutcomeIn(after, n) = "SKIP"
      BY <1>3, <2>2
    <3> QED
      BY <2>1, <3>1, <3>2 DEF Changes
  <2>3. CASE KeyText(n) \in DOMAIN r \ DOMAIN l
    <3>1. OutcomeIn(after, n) = Verdict(r[KeyText(n)])
      BY <1>3, <2>3
    <3>2. OutcomeIn(before, n) = "SKIP"
      BY <1>2, <2>3
    <3> QED
      BY <2>1, <3>1, <3>2 DEF Changes
  <2> QED
    BY <1>5, <2>2, <2>3
<1>6. PICK flips : flips = {e \in Divergences(l, r) : e.kind \in Flips}
  OBVIOUS
<1>7. ASSUME NEW n \in pairs, Changes(n) PROVE \E d \in flips : d.recipe = KeyText(n)
  <2>0. PICK t : t = KeyText(n) /\ t \in DOMAIN l \cup DOMAIN r
    BY <1>a
  <2>1. CASE t \in DOMAIN l \cap DOMAIN r
    <3>1. PICK x, y : x = l[t] /\ y = r[t]
      OBVIOUS
    <3>2. [recipe |-> t, kind |-> "verdict"] \in CompareOne(t, x, y) <=> x.passed # y.passed
      BY CompareOneFacts
    <3>3. [recipe |-> t, kind |-> "verdict"] \in Divergences(l, r)
      BY <1>4, <1>7, <2>0, <2>1, <3>1, <3>2, DivergenceFacts
    <3> QED
      BY <1>6, <2>0, <3>3 DEF Flips
  <2>2. CASE t \in DOMAIN l \ DOMAIN r
    <3>1. [recipe |-> t, kind |-> "only_left"] \in Divergences(l, r)
      BY <2>2, DivergenceFacts
    <3> QED
      BY <1>6, <2>0, <3>1 DEF Flips
  <2>3. CASE t \in DOMAIN r \ DOMAIN l
    <3>1. [recipe |-> t, kind |-> "only_right"] \in Divergences(l, r)
      BY <2>3, DivergenceFacts
    <3> QED
      BY <1>6, <2>0, <3>1 DEF Flips
  <2> QED
    BY <2>0, <2>1, <2>2, <2>3
<1>8. ASSUME NEW d \in flips, NEW n \in pairs, KeyText(n) = d.recipe PROVE Changes(n)
  <2>1. /\ d = [recipe |-> d.recipe, kind |-> d.kind] /\ d.kind \in Flips
        /\ \/ /\ d.recipe \in DOMAIN l \cap DOMAIN r
              /\ d \in CompareOne(d.recipe, l[d.recipe], r[d.recipe])
              /\ d.kind \in CompareKinds
           \/ d.recipe \in DOMAIN l \ DOMAIN r /\ d.kind = "only_left"
           \/ d.recipe \in DOMAIN r \ DOMAIN l /\ d.kind = "only_right"
    BY <1>6, DivergenceFacts
  <2>2. PICK t : t = d.recipe
    OBVIOUS
  <2>3. CASE t \in DOMAIN l \cap DOMAIN r /\ d \in CompareOne(t, l[t], r[t]) /\ d.kind \in CompareKinds
    <3>1. PICK x, y : x = l[t] /\ y = r[t]
      OBVIOUS
    <3>2. [recipe |-> t, kind |-> "verdict"] \in CompareOne(t, x, y) <=> x.passed # y.passed
      BY CompareOneFacts
    <3>3. d.kind = "verdict"
      BY <2>1, <2>3 DEF Flips, CompareKinds
    <3> QED
      BY <1>4, <1>8, <2>1, <2>2, <2>3, <3>1, <3>2, <3>3
  <2>4. CASE t \in (DOMAIN l \ DOMAIN r) \cup (DOMAIN r \ DOMAIN l)
    BY <1>5, <1>8, <2>2, <2>4
  <2> QED
    BY <2>1, <2>2, <2>3, <2>4
<1>9. \A d \in flips : d.recipe \in DOMAIN l \cup DOMAIN r
  BY <1>6, DivergenceFacts
<1>10. {KeyText(n) : n \in {k \in pairs : Changes(k)}} = {d.recipe : d \in flips}
  BY <1>7, <1>8, <1>9, <1>a
<1> QED
  BY <1>1, <1>6, <1>10

\* A run compared with itself.
LEMMA NothingDiverges ==
  ASSUME NEW l, \A n \in DOMAIN l : l[n].score \in Int
  PROVE  Divergences(l, l) = {}
<1> SUFFICES ASSUME NEW d \in Divergences(l, l) PROVE FALSE
  OBVIOUS
<1>1. PICK n : n = d.recipe
  OBVIOUS
<1>2. n \in DOMAIN l /\ d \in CompareOne(n, l[n], l[n])
  BY <1>1, DivergenceFacts
<1>3. PICK x : x = l[n]
  OBVIOUS
<1>4. CompareOne(n, x, x) = {}
  BY <1>2, <1>3, CompareOneFacts
<1> QED
  BY <1>2, <1>3, <1>4

\* What is not shadowed is what the summary keeps of its text.
LEMMA KeptFacts ==
  ASSUME NEW run \in AnyRun, NEW i \in 1..Len(run)
  PROVE  /\ ~Shadowed(run, i) => Summarize(run)[TextKey(run[i])] = run[i]
         /\ TextKey(run[i]) \in DOMAIN Summarize(run)
<1>1. TextKey(run[i]) \in DOMAIN Summarize(run) /\ Len(run) \in Nat
  BY SummaryDomain, PairFacts
<1>2. PICK j \in 1..Len(run) : /\ TextKey(run[j]) = TextKey(run[i])
                               /\ Summarize(run)[TextKey(run[i])] = run[j]
                               /\ \A k \in j + 1..Len(run) : TextKey(run[k]) # TextKey(run[i])
  BY <1>1, SummaryLast
<1>3. ASSUME ~Shadowed(run, i) PROVE i = j
  <2>1. ~(j > i)
    BY <1>1, <1>2, <1>3 DEF Shadowed
  <2>2. ~(i > j)
    BY <1>1, <1>2
  <2> QED
    BY <1>1, <2>1, <2>2
<1> QED
  BY <1>1, <1>2, <1>3

\* No divergence: the same verdicts, and scores that are not apart.
LEMMA NoDivergence ==
  ASSUME before \in AnyRun, after \in AnyRun,
         Divergences(Summarize(before), Summarize(after)) = {}, NEW i \in 1..Len(before),
         ~Shadowed(before, i)
  PROVE  \E j \in 1..Len(after) :
           /\ TextKey(before[i]) = TextKey(after[j]) /\ ~Shadowed(after, j)
           /\ before[i].passed = after[j].passed /\ ~Apart(before[i].score, after[j].score)
<1>1. PICK l, r, t : l = Summarize(before) /\ r = Summarize(after) /\ t = TextKey(before[i])
  OBVIOUS
<1>2. t \in DOMAIN l /\ t \in DOMAIN r
  <2>1. t \in DOMAIN l
    BY <1>1, SummaryDomain
  <2> QED
    BY <1>1, <2>1, DivergenceFacts
<1>3. l[t] = before[i]
  BY <1>1, KeptFacts
<1>4. PICK j \in 1..Len(after) : /\ TextKey(after[j]) = t /\ r[t] = after[j]
                                 /\ \A k \in j + 1..Len(after) : TextKey(after[k]) # t
  BY <1>1, <1>2, SummaryLast
<1>5. ~Shadowed(after, j)
  BY <1>4 DEF Shadowed
<1>6. PICK x, y : x = l[t] /\ y = r[t]
  OBVIOUS
<1>7. CompareOne(t, x, y) = {}
  BY <1>1, <1>2, <1>6, DivergenceFacts
<1>8. x.passed = y.passed /\ ~Apart(x.score, y.score)
  BY <1>7, CompareOneFacts
<1> QED
  BY <1>1, <1>3, <1>4, <1>5, <1>6, <1>8

\* compute_deltas and compare_with, of any two runs: deltas are reported of exactly the
\* results that flip, parity has no side, and what does not diverge did not change.
THEOREM ComparisonsAlwaysAgree == ComparisonSpec => []ComparisonsAgree
<1>1. ComparisonInit(AnyRun) => ComparedSoFar
  BY DEF ComparisonInit, ComparedSoFar
<1>2. ComparedSoFar /\ [ComparisonStep]_comparisonVars => ComparedSoFar'
  <2> SUFFICES ASSUME ComparedSoFar, [ComparisonStep]_comparisonVars PROVE ComparedSoFar'
    OBVIOUS
  <2> USE DEF ComparedSoFar
  <2>1. UNCHANGED <<before, after>> => Deltas' = Deltas
    BY DEF Deltas, OrderedKeys, DeltaOf
  <2>2. UNCHANGED wording => \A l, r : Divergences(l, r)' = Divergences(l, r)
    BY DEF Divergences, CompareOne
  <2>3. CASE ComputeDeltas
    BY <2>1, <2>3 DEF ComputeDeltas
  <2>4. CASE Refused
    BY <2>1, <2>4 DEF Refused
  <2>5. CASE CompareWith
    BY <2>1, <2>2, <2>5 DEF CompareWith
  <2>6. CASE UNCHANGED comparisonVars
    BY <2>1, <2>2, <2>6 DEF comparisonVars
  <2> QED
    BY <2>3, <2>4, <2>5, <2>6 DEF ComparisonStep
<1>3. ComparedSoFar => ComparisonsAgree
  <2> SUFFICES ASSUME ComparedSoFar, comparing = "compared" PROVE ComparisonsAgree
    BY DEF ComparisonsAgree
  <2>1. /\ before \in AnyRun /\ after \in AnyRun
        /\ deltas = Deltas
        /\ divergences = Divergences(Summarize(before), Summarize(after))
    BY DEF ComparedSoFar
  <2>2. /\ deltas \in Seq(AnyDelta)
        /\ {PairKey(deltas[i]) : i \in 1..Len(deltas)} =
             {n \in PairSet(before) \cup PairSet(after) : Changes(n)}
        /\ Distinct(before) /\ Distinct(after) => IsInjective(PairsOf(deltas))
    <3>1. PICK ds : ds = deltas
      OBVIOUS
    <3> QED
      BY <2>1, <3>1, DeltaFacts
  <2>3. ASSUME Distinct(before), Distinct(after), Unambiguous
        PROVE  /\ {TextKey(deltas[i]) : i \in 1..Len(deltas)} =
                    {d.recipe : d \in {e \in divergences : e.kind \in Flips}}
               /\ IsInjective(PairsOf(deltas))
    <3>1. PICK ds, pairs : ds = deltas /\ pairs = {PairKey(deltas[i]) : i \in 1..Len(deltas)}
      OBVIOUS
    <3>2. \A x : TextKey(x) = KeyText(PairKey(x))
      BY DEF TextKey, KeyText, PairKey
    <3>3. {TextKey(ds[i]) : i \in 1..Len(ds)} = {KeyText(n) : n \in pairs}
      BY <3>1, <3>2
    <3>4. {KeyText(n) : n \in pairs} = {d.recipe : d \in {e \in divergences : e.kind \in Flips}}
      BY <2>1, <2>2, <2>3, <3>1, FlipsAgree
    <3> QED
      BY <2>2, <2>3, <3>1, <3>3, <3>4
  <2>4. Divergences(Summarize(after), Summarize(before)) =
          {[d EXCEPT !.kind = Mirrored(d.kind)] : d \in divergences}
    BY <2>1, DivergencesMirror
  <2>5. ASSUME before = after PROVE deltas = <<>> /\ divergences = {}
    <3>1. divergences = {}
      <4>1. \A n \in DOMAIN Summarize(before) : Summarize(before)[n].score \in Int
        BY <2>1, SummaryLast, PairFacts DEF AnyResult
      <4>2. PICK l : l = Summarize(before)
        OBVIOUS
      <4>3. Divergences(l, l) = {}
        BY <4>1, <4>2, NothingDiverges
      <4> QED
        BY <2>1, <2>5, <4>2, <4>3
    <3>2. \A n : ~Changes(n)
      BY <2>5 DEF Changes
    <3>3. {n \in PairSet(before) \cup PairSet(after) : Changes(n)} = {}
      BY <3>2
    <3>a. {PairKey(deltas[i]) : i \in 1..Len(deltas)} = {}
      BY <2>2, <3>3
    <3>4. ~(1 \in 1..Len(deltas)) /\ Len(deltas) \in Nat
      <4>1. PICK f, m : f = deltas /\ m = Len(deltas)
        OBVIOUS
      <4>2. {PairKey(f[i]) : i \in 1..m} = {}
        BY <3>a, <4>1
      <4>3. ~(1 \in 1..m)
        BY <4>2
      <4> QED
        BY <2>2, <4>1, <4>3
    <3>5. Len(deltas) = 0
      BY <3>4
    <3> QED
      BY <2>2, <3>1, <3>5, EmptySeq
  <2>6. ASSUME divergences = {}
        PROVE  \A i \in 1..Len(before) : ~Shadowed(before, i) =>
                 \E j \in 1..Len(after) :
                   /\ TextKey(before[i]) = TextKey(after[j]) /\ ~Shadowed(after, j)
                   /\ before[i].passed = after[j].passed
                   /\ ~Apart(before[i].score, after[j].score)
    BY <2>1, <2>6, NoDivergence
  <2> QED
    BY <2>3, <2>4, <2>5, <2>6 DEF ComparisonsAgree
<1> QED
  BY <1>1, <1>2, <1>3, PTL DEF ComparisonSpec

-----------------------------------------------------------------------------
(* CastRecord: what is replayed of what was recorded.                      *)

Bytes == {"a", "hi", "lo"}
CastGlyph == {"a", "c", "?"}
AnyLine == [kind : {"o", "i"}, data : Seq(CastGlyph), fate : Fates]

\* The two halves of a character stand together.
Paired(bytes) ==
  \A i \in 1..Len(bytes) :
    /\ bytes[i] = "hi" => i < Len(bytes) /\ bytes[i + 1] = "lo"
    /\ bytes[i] = "lo" => i > 1 /\ bytes[i - 1] = "hi"

\* In what the program writes the halves of a character stand together.
LEMMA OutputIsPaired ==
  ASSUME NEW phrase \in Seq(Characters)
  PROVE  FlattenSeq(phrase) \in Seq(Bytes) /\ Paired(FlattenSeq(phrase))
<1> DEFINE Good == {t \in Seq(Characters) : FlattenSeq(t) \in Seq(Bytes) /\ Paired(FlattenSeq(t))}
<1>0. Characters \subseteq Seq(Bytes)
  BY DEF Characters, Bytes
<1>a. Seq(Characters) \subseteq Seq(Seq(Bytes))
  <2>1. PICK V : V = Seq(Bytes)
    OBVIOUS
  <2>2. Seq(Characters) \subseteq Seq(V)
    BY <1>0, <2>1, SeqMonotonic
  <2> QED
    BY <2>1, <2>2
<1>1. <<>> \in Good
  <2>1. <<>> \in Seq(Characters) /\ <<>> \in Seq(Bytes) /\ Paired(<<>>)
    BY EmptySeq DEF Paired
  <2> QED
    BY <2>1, FlattenEmpty
<1>2. ASSUME NEW t \in Seq(Characters), NEW c \in Characters, t \in Good
      PROVE  Append(t, c) \in Good
  <2>1. PICK out : out = FlattenSeq(t)
    OBVIOUS
  <2>2. out \in Seq(Bytes) /\ Paired(out) /\ c \in Seq(Bytes) /\ Len(out) \in Nat
    BY <1>0, <1>2, <2>1
  <2>3. FlattenSeq(Append(t, c)) = out \o c
    <3>1. t \in Seq(Seq(Bytes))
      BY <1>a
    <3> QED
      BY <2>1, <2>2, <3>1, FlattenAppend
  <2>4. PICK all : all = out \o c
    OBVIOUS
  <2>5. /\ all \in Seq(Bytes) /\ Len(all) = Len(out) + Len(c)
        /\ \A i \in 1..Len(out) + Len(c) : all[i] = IF i <= Len(out) THEN out[i] ELSE c[i - Len(out)]
    BY <2>2, <2>4, ConcatProperties
  <2>6. PICK m \in Nat : m = Len(out)
    BY <2>2
  <2>7. \A i \in 1..m : /\ all[i] = out[i]
                        /\ out[i] = "hi" => i < m /\ out[i + 1] = "lo"
                        /\ out[i] = "lo" => i > 1 /\ out[i - 1] = "hi"
    <3>1. \A i \in 1..m : i \in 1..m + Len(c) /\ i <= m
      BY <2>2, <2>6
    <3> QED
      BY <2>2, <2>5, <2>6, <3>1 DEF Paired
  <2>8. Paired(all)
    <3>1. CASE c = <<"a">>
      <4>1. Len(all) = m + 1 /\ all[m + 1] = "a"
        BY <2>5, <2>6, <3>1
      <4>2. ASSUME NEW i \in 1..m + 1
            PROVE  /\ all[i] = "hi" => i < m + 1 /\ all[i + 1] = "lo"
                   /\ all[i] = "lo" => i > 1 /\ all[i - 1] = "hi"
        <5>1. CASE i = m + 1
          BY <4>1, <5>1
        <5>2. CASE i \in 1..m
          BY <2>7, <5>2
        <5> QED
          BY <5>1, <5>2
      <4> QED
        BY <4>1, <4>2 DEF Paired
    <3>2. CASE c = <<"hi", "lo">>
      <4>1. Len(all) = m + 2 /\ all[m + 1] = "hi" /\ all[m + 2] = "lo"
        BY <2>5, <2>6, <3>2
      <4>2. ASSUME NEW i \in 1..m + 2
            PROVE  /\ all[i] = "hi" => i < m + 2 /\ all[i + 1] = "lo"
                   /\ all[i] = "lo" => i > 1 /\ all[i - 1] = "hi"
        <5>1. CASE i = m + 1
          BY <4>1, <5>1
        <5>2. CASE i = m + 2
          BY <4>1, <5>2
        <5>3. CASE i \in 1..m
          BY <2>7, <5>3
        <5> QED
          BY <5>1, <5>2, <5>3
      <4> QED
        BY <4>1, <4>2 DEF Paired
    <3> QED
      BY <3>1, <3>2 DEF Characters
  <2>9. Append(t, c) \in Seq(Characters)
    BY AppendProperties
  <2> QED
    BY <2>3, <2>4, <2>5, <2>8, <2>9
<1>3. Seq(Characters) \subseteq Good
  <2> HIDE DEF Good
  <2> QED
    BY <1>1, <1>2, SeqInduction
<1> QED
  BY <1>3

\* What is shown for byte i where the program's output was read in chunks that end at C,
\* and those of the bytes G are not in the file.
PieceAt(C, G, i) ==
  IF i \in G THEN <<>>
  ELSE IF output[i] = "a" THEN <<"a">>
  ELSE IF output[i] = "hi" THEN IF i \in C /\ Whole(output, i) THEN <<"?">> ELSE <<"c">>
  ELSE IF i - 1 \in C /\ Whole(output, i - 1) THEN <<"?">> ELSE <<>>

DrawnAt(bytes, i) ==
  IF bytes[i] = "a" THEN <<"a">>
  ELSE IF Whole(bytes, i) THEN <<"c">>
  ELSE IF i > 1 /\ Whole(bytes, i - 1) THEN <<>> ELSE <<"?">>

\* One byte is shown as one glyph or none.
LEMMA PieceTypes ==
  /\ \A C, G, i : PieceAt(C, G, i) \in Seq(CastGlyph)
  /\ \A bytes, i : DrawnAt(bytes, i) \in Seq(CastGlyph)
<1>1. <<"a">> \in Seq(CastGlyph) /\ <<"c">> \in Seq(CastGlyph) /\ <<"?">> \in Seq(CastGlyph) /\ <<>> \in Seq(CastGlyph)
  BY DEF CastGlyph
<1> QED
  BY <1>1 DEF PieceAt, DrawnAt

\* The chunk from r to u, where the cuts D have those of C up to r, and then no other but,
\* perhaps, u; the bytes H are those of G up to r, and then none.
ChunkTo(chunk, r, u, C, D, G, H) ==
  /\ r \in Nat /\ u \in Nat /\ r <= u /\ u <= Len(output)
  /\ r = 0 \/ r \in D
  /\ u \in D \/ u = 0 \/ output[u] # "hi"
  /\ \A i \in 0..r : (i \in C <=> i \in D) /\ (i \in G <=> i \in H)
  /\ \A i \in r + 1..u : i \notin H
  /\ \A i \in r + 1..u - 1 : i \notin D \/ ~Whole(output, i)
  /\ chunk \in Seq(Bytes) /\ Len(chunk) = u - r
  /\ \A j \in 1..u - r : chunk[j] = output[r + j]

\* A chunk is drawn as its part of the output, if it begins and ends where a chunk does.
LEMMA ChunkPieces ==
  ASSUME output \in Seq(Bytes), Paired(output), NEW B, NEW C, NEW F, NEW G, NEW r, NEW u,
         NEW chunk, ChunkTo(chunk, r, u, B, C, F, G), NEW j \in 1..u - r
  PROVE  DrawnAt(chunk, j) = PieceAt(C, G, r + j)
<1> USE DEF ChunkTo
<1>0. r + j \notin G
  <2>1. r + j \in r + 1..u
    OBVIOUS
  <2> QED
    BY <2>1
<1>1. /\ r + j \in 1..Len(output) /\ chunk[j] = output[r + j] /\ Len(output) \in Nat
      /\ output[r + j] \in Bytes
  <2>1. r + j \in 1..Len(output) /\ Len(output) \in Nat
    OBVIOUS
  <2> QED
    BY <2>1, ElementOfSeq
<1>2. CASE output[r + j] = "a"
  BY <1>0, <1>1, <1>2 DEF DrawnAt, PieceAt
<1>3. CASE output[r + j] = "hi"
  <2>1. r + j < Len(output) /\ output[r + j + 1] = "lo" /\ Whole(output, r + j)
    BY <1>1, <1>3 DEF Paired, Whole
  <2>2. CASE j = u - r
    <3>1. r + j = u /\ u \in C /\ ~Whole(chunk, j)
      BY <1>3, <2>2 DEF Whole
    <3>2. j > 1 => ~Whole(chunk, j - 1)
      BY <1>1, <1>3 DEF Whole
    <3> QED
      BY <1>0, <1>1, <1>3, <2>1, <3>1, <3>2 DEF DrawnAt, PieceAt
  <2>3. CASE j < u - r
    <3>1. j + 1 \in 1..u - r /\ r + (j + 1) = r + j + 1
      BY <2>3
    <3>2. chunk[j + 1] = "lo"
      BY <2>1, <3>1
    <3>3. Whole(chunk, j)
      BY <1>1, <1>3, <2>3, <3>2 DEF Whole
    <3>4. ~(r + j \in C)
      BY <2>1, <2>3
    <3> QED
      BY <1>0, <1>1, <1>3, <3>3, <3>4 DEF DrawnAt, PieceAt
  <2> QED
    BY <2>2, <2>3
<1>4. CASE output[r + j] = "lo"
  <2>1. r + j > 1 /\ output[r + j - 1] = "hi" /\ Whole(output, r + j - 1)
    BY <1>1, <1>4 DEF Paired, Whole
  <2>2. ~Whole(chunk, j)
    BY <1>1, <1>4 DEF Whole
  <2>3. CASE j = 1
    BY <1>0, <1>1, <1>4, <2>1, <2>2, <2>3 DEF DrawnAt, PieceAt
  <2>4. CASE j > 1
    <3>1. j - 1 \in 1..u - r /\ r + (j - 1) = r + j - 1
      BY <2>4
    <3>2. chunk[j - 1] = "hi" /\ Whole(chunk, j - 1)
      BY <1>1, <1>4, <2>1, <3>1 DEF Whole
    <3>3. r + j - 1 \notin C
      BY <2>1, <2>4
    <3> QED
      BY <1>0, <1>1, <1>4, <2>2, <2>4, <3>2, <3>3 DEF DrawnAt, PieceAt
  <2> QED
    BY <2>3, <2>4
<1> QED
  BY <1>1, <1>2, <1>3, <1>4 DEF Bytes

PiecesUpTo(C, G, n) == FlattenSeq([i \in 1..n |-> PieceAt(C, G, i)])
DataOf(line) == IF line.kind = "o" THEN line.data ELSE <<>>

\* What is shown of a line is a text,
LEMMA DrawnTyped ==
  ASSUME NEW bytes \in Seq(Bytes)
  PROVE  /\ Drawn(bytes) = FlattenSeq([i \in 1..Len(bytes) |-> DrawnAt(bytes, i)])
         /\ [i \in 1..Len(bytes) |-> DrawnAt(bytes, i)] \in Seq(Seq(CastGlyph))
         /\ Drawn(bytes) \in Seq(CastGlyph)
<1>1. PICK ps : ps = [i \in 1..Len(bytes) |-> DrawnAt(bytes, i)]
  OBVIOUS
<1>2. Drawn(bytes) = FlattenSeq(ps)
  BY <1>1 DEF Drawn, DrawnAt
<1>3. ps \in Seq(Seq(CastGlyph))
  <2>1. Len(bytes) \in Nat /\ \A i \in 1..Len(bytes) : DrawnAt(bytes, i) \in Seq(CastGlyph)
    BY PieceTypes
  <2> QED
    BY <1>1, <2>1, IsASeq
<1>4. FlattenSeq(ps) \in Seq(CastGlyph)
  BY <1>3, FlattenType
<1> QED
  BY <1>1, <1>2, <1>3, <1>4

\* and so is what is shown of the chunks.
LEMMA PiecesTyped ==
  ASSUME NEW C, NEW G, NEW n \in Nat
  PROVE  PiecesUpTo(C, G, n) \in Seq(CastGlyph)
<1>1. PICK ps : ps = [i \in 1..n |-> PieceAt(C, G, i)]
  OBVIOUS
<1>2. ps \in Seq(Seq(CastGlyph))
  <2>1. \A i \in 1..n : PieceAt(C, G, i) \in Seq(CastGlyph)
    BY PieceTypes
  <2> QED
    BY <1>1, <2>1, IsASeq
<1> QED
  BY <1>1, <1>2, FlattenType DEF PiecesUpTo

\* What was shown so far, and one more chunk.
LEMMA OneMoreChunk ==
  ASSUME output \in Seq(Bytes), Paired(output), NEW C, NEW D, NEW G, NEW H, NEW r, NEW u,
         NEW chunk, ChunkTo(chunk, r, u, C, D, G, H)
  PROVE  PiecesUpTo(D, H, u) = PiecesUpTo(C, G, r) \o Drawn(chunk)
<1> USE DEF ChunkTo
<1>1. PICK old, new, all :
        /\ old = [i \in 1..r |-> PieceAt(C, G, i)]
        /\ new = [j \in 1..Len(chunk) |-> DrawnAt(chunk, j)]
        /\ all = [i \in 1..u |-> PieceAt(D, H, i)]
  OBVIOUS
<1>2. /\ old \in Seq(Seq(CastGlyph)) /\ Len(old) = r
      /\ all \in Seq(Seq(CastGlyph)) /\ Len(all) = u
  <2>1. /\ \A i \in 1..r : PieceAt(C, G, i) \in Seq(CastGlyph)
        /\ \A i \in 1..u : PieceAt(D, H, i) \in Seq(CastGlyph)
    BY PieceTypes
  <2> QED
    BY <1>1, <2>1, IsASeq
<1>3. new \in Seq(Seq(CastGlyph)) /\ Len(new) = u - r /\ Drawn(chunk) = FlattenSeq(new)
  BY <1>1, DrawnTyped
<1>4. \A j \in 1..u - r : DrawnAt(chunk, j) = PieceAt(D, H, r + j)
  <2> HIDE DEF ChunkTo
  <2> QED
    BY ChunkPieces
<1>5. \A i \in 1..r : PieceAt(C, G, i) = PieceAt(D, H, i)
  <2> TAKE i \in 1..r
  <2>1. i \in 0..r /\ i - 1 \in 0..r
    OBVIOUS
  <2>2. (i \in C <=> i \in D) /\ (i - 1 \in C <=> i - 1 \in D) /\ (i \in G <=> i \in H)
    BY <2>1
  <2> QED
    BY <2>2 DEF PieceAt
<1>6. all = old \o new
  <2>1. PICK both : both = old \o new
    OBVIOUS
  <2>2. PICK V : V = Seq(CastGlyph)
    OBVIOUS
  <2>3. old \in Seq(V) /\ new \in Seq(V) /\ all \in Seq(V)
    BY <1>2, <1>3, <2>2
  <2>4. /\ both \in Seq(V) /\ Len(both) = Len(old) + Len(new)
        /\ \A i \in 1..Len(old) + Len(new) :
             both[i] = IF i <= Len(old) THEN old[i] ELSE new[i - Len(old)]
    BY <2>1, <2>3, ConcatProperties
  <2>5. Len(both) = u
    BY <1>2, <1>3, <2>4
  <2>6. ASSUME NEW i \in 1..u PROVE both[i] = all[i]
    <3>1. both[i] = IF i <= r THEN old[i] ELSE new[i - r]
      BY <1>2, <1>3, <2>4
    <3>2. CASE i <= r
      <4>1. i \in 1..r
        BY <3>2
      <4> QED
        BY <1>1, <1>5, <3>1, <4>1
    <3>3. CASE ~(i <= r)
      <4>1. i - r \in 1..u - r /\ r + (i - r) = i
        BY <3>3
      <4>2. new[i - r] = DrawnAt(chunk, i - r)
        BY <1>1, <4>1
      <4>3. DrawnAt(chunk, i - r) = PieceAt(D, H, r + (i - r))
        BY <1>4, <4>1
      <4> QED
        BY <1>1, <3>1, <3>3, <4>1, <4>2, <4>3
    <3> QED
      BY <3>2, <3>3
  <2>7. Len(all) = u
    BY <1>2
  <2>8. \A i \in 1..Len(both) : both[i] = all[i]
    BY <2>5, <2>6
  <2>9. both = all
    <3>1. both \in Seq(V) /\ all \in Seq(V) /\ Len(both) = Len(all)
      BY <2>3, <2>4, <2>5, <2>7
    <3> QED
      BY <2>8, <3>1, SeqEqual
  <2> QED
    BY <2>1, <2>9
<1>7. FlattenSeq(old \o new) = FlattenSeq(old) \o FlattenSeq(new)
  BY <1>2, <1>3, FlattenConcat
<1> QED
  BY <1>1, <1>3, <1>6, <1>7 DEF PiecesUpTo

\* A chunk that is not in the file adds nothing to what is shown.
LEMMA LostChunk ==
  ASSUME NEW C, NEW D, NEW G, NEW H, NEW r \in Nat, NEW u \in Nat, r <= u,
         \A i \in 0..r : (i \in C <=> i \in D) /\ (i \in G <=> i \in H),
         \A i \in r + 1..u : i \in H
  PROVE  PiecesUpTo(D, H, u) = PiecesUpTo(C, G, r)
<1> DEFINE Good == {k \in Nat : r + k <= u => PiecesUpTo(D, H, r + k) = PiecesUpTo(C, G, r)}
<1>1. 0 \in Good
  <2>1. \A i \in 1..r : PieceAt(C, G, i) = PieceAt(D, H, i)
    <3> TAKE i \in 1..r
    <3>1. i \in 0..r /\ i - 1 \in 0..r
      OBVIOUS
    <3>2. (i \in C <=> i \in D) /\ (i - 1 \in C <=> i - 1 \in D) /\ (i \in G <=> i \in H)
      BY <3>1
    <3> QED
      BY <3>2 DEF PieceAt
  <2>2. [i \in 1..r |-> PieceAt(C, G, i)] = [i \in 1..r |-> PieceAt(D, H, i)]
    BY <2>1
  <2>3. r + 0 = r
    OBVIOUS
  <2> QED
    BY <2>2, <2>3 DEF PiecesUpTo
<1>2. ASSUME NEW k \in Nat, k \in Good PROVE k + 1 \in Good
  <2>1. SUFFICES ASSUME r + (k + 1) <= u
                 PROVE  PiecesUpTo(D, H, r + (k + 1)) = PiecesUpTo(C, G, r)
    OBVIOUS
  <2>2. PICK n \in Nat : n = r + k
    OBVIOUS
  <2>3. r + (k + 1) = n + 1 /\ n + 1 \in r + 1..u /\ r + k <= u
    BY <2>1, <2>2
  <2>4. PICK ps, qs : ps = [i \in 1..n |-> PieceAt(D, H, i)] /\ qs = [i \in 1..n + 1 |-> PieceAt(D, H, i)]
    OBVIOUS
  <2>5. ps \in Seq(Seq(CastGlyph)) /\ qs \in Seq(Seq(CastGlyph)) /\ Len(ps) = n /\ Len(qs) = n + 1
    <3>1. \A i \in 1..n + 1 : PieceAt(D, H, i) \in Seq(CastGlyph)
      BY PieceTypes
    <3> QED
      BY <2>4, <3>1, IsASeq
  <2>6. qs[n + 1] = <<>> /\ \A i \in 1..n : qs[i] = ps[i]
    BY <2>3, <2>4 DEF PieceAt
  <2>7. <<>> \in Seq(CastGlyph)
    OBVIOUS
  <2>8. qs = Append(ps, <<>>)
    <3>1. PICK V, more : V = Seq(CastGlyph) /\ more = Append(ps, <<>>)
      OBVIOUS
    <3>2. /\ more \in Seq(V) /\ Len(more) = n + 1 /\ more[n + 1] = <<>>
          /\ \A i \in 1..n : more[i] = ps[i]
      BY <2>5, <2>7, <3>1, AppendProperties
    <3>3. \A i \in 1..n + 1 : qs[i] = more[i]
      <4> TAKE i \in 1..n + 1
      <4>1. i \in 1..n \/ i = n + 1
        OBVIOUS
      <4> QED
        BY <2>6, <3>2, <4>1
    <3> QED
      BY <2>5, <3>1, <3>2, <3>3, SeqEqual
  <2>9. FlattenSeq(qs) = FlattenSeq(ps) \o <<>>
    BY <2>5, <2>7, <2>8, FlattenAppend
  <2>10. FlattenSeq(ps) \in Seq(CastGlyph)
    BY <2>5, FlattenType
  <2>11. FlattenSeq(qs) = FlattenSeq(ps)
    BY <2>9, <2>10, ConcatEmptySeq
  <2> QED
    BY <1>2, <2>2, <2>3, <2>4, <2>11 DEF PiecesUpTo
<1>3. Nat \subseteq Good
  <2> HIDE DEF Good
  <2> QED
    BY <1>1, <1>2, SetInduction
<1>4. PICK k \in Nat : r + k = u
  <2>1. u - r \in Nat /\ r + (u - r) = u
    OBVIOUS
  <2> QED
    BY <2>1
<1>5. k \in Good
  BY <1>3
<1> QED
  BY <1>4, <1>5

\* What is replayed grows by what is recorded.
LEMMA ReplayGrows ==
  ASSUME castLines \in Seq(AnyLine), NEW line \in AnyLine, castLines' = Append(castLines, line)
  PROVE  Replay' = Replay \o DataOf(line)
<1>1. PICK ps, qs : /\ ps = [i \in 1..Len(castLines) |-> DataOf(castLines[i])]
                   /\ qs = [i \in 1..Len(castLines') |-> DataOf(castLines'[i])]
  OBVIOUS
<1>2. Replay = FlattenSeq(ps) /\ Replay' = FlattenSeq(qs)
  BY <1>1 DEF Replay, DataOf
<1>3. \A l \in AnyLine : DataOf(l) \in Seq(CastGlyph)
  <2>1. <<>> \in Seq(CastGlyph)
    OBVIOUS
  <2> QED
    BY <2>1 DEF AnyLine, DataOf
<1>4. /\ Len(castLines) \in Nat /\ Len(castLines') = Len(castLines) + 1
      /\ castLines'[Len(castLines) + 1] = line
      /\ \A i \in 1..Len(castLines) : castLines'[i] = castLines[i] /\ castLines[i] \in AnyLine
  BY AppendProperties, ElementOfSeq
<1>5. ps \in Seq(Seq(CastGlyph)) /\ Len(ps) = Len(castLines)
  <2>1. \A i \in 1..Len(castLines) : DataOf(castLines[i]) \in Seq(CastGlyph)
    BY <1>3, <1>4
  <2> QED
    BY <1>1, <1>4, <2>1, IsASeq
<1>6. qs = Append(ps, DataOf(line))
  <2>1. PICK n \in Nat : n = Len(castLines)
    BY <1>4
  <2>2. PICK x : x = DataOf(line)
    OBVIOUS
  <2>3. PICK V, more : V = Seq(CastGlyph) /\ more = Append(ps, x)
    OBVIOUS
  <2>4. /\ more \in Seq(V) /\ Len(more) = n + 1 /\ more[n + 1] = x
        /\ \A i \in 1..n : more[i] = ps[i]
    BY <1>3, <1>5, <2>1, <2>2, <2>3, AppendProperties
  <2>5. \A i \in 1..n + 1 : qs[i] = more[i] /\ qs[i] \in V
    <3> TAKE i \in 1..n + 1
    <3>1. CASE i \in 1..n
      BY <1>1, <1>3, <1>4, <2>1, <2>3, <2>4, <3>1
    <3>2. CASE i = n + 1
      BY <1>1, <1>3, <1>4, <2>1, <2>2, <2>3, <2>4, <3>2
    <3> QED
      BY <3>1, <3>2
  <2>6. qs = [i \in 1..n + 1 |-> qs[i]]
    BY <1>1, <1>4, <2>1
  <2>7. qs \in Seq(V) /\ Len(qs) = n + 1
    BY <2>5, <2>6, IsASeq
  <2> QED
    BY <2>2, <2>3, <2>4, <2>5, <2>7, SeqEqual
<1>7. FlattenSeq(Append(ps, DataOf(line))) = FlattenSeq(ps) \o DataOf(line)
  <2>1. DataOf(line) \in Seq(CastGlyph)
    BY <1>3
  <2> QED
    BY <1>5, <2>1, FlattenAppend
<1> QED
  BY <1>2, <1>6, <1>7

CastSpec == CastInit /\ [][CastStep]_castVars

CastTypes ==
  /\ output \in Seq(Bytes) /\ Paired(output)
  /\ readUpTo \in 0..Len(output) /\ live = SubSeq(output, 1, readUpTo)
  /\ recorder \in {"writing", "finished", NoRecorder}
  /\ castLines \in Seq(AnyLine)

\* A recorder that writes has recorded all that was read, and each chunk's end is a cut.
CutsAreEnds ==
  /\ cuts \subseteq 1..readUpTo /\ gone \subseteq 1..readUpTo
  /\ recorder = "writing" => readUpTo = 0 \/ readUpTo \in cuts
  /\ recorder = NoRecorder => castLines = <<>> /\ cuts = {}

\* The file shows the output up to the last of its cuts.
ReplayedSoFar == Replay = PiecesUpTo(cuts, gone, Recorded)

CastInv == CastTypes /\ CutsAreEnds /\ ReplayedSoFar

\* How far the output is recorded.
LEMMA RecordedFacts ==
  ASSUME NEW n \in Nat, cuts \subseteq 1..n
  PROVE  /\ Recorded \in 0..n /\ (Recorded = 0 \/ Recorded \in cuts)
         /\ \A i \in cuts : i <= Recorded
         /\ n \in cuts => Recorded = n
<1>1. CASE cuts = {}
  BY <1>1 DEF Recorded
<1>2. CASE cuts # {}
  <2>1. \E m \in cuts : \A k \in cuts : k <= m
    <3>1. cuts \subseteq 0..n
      OBVIOUS
    <3>2. PICK T : T = cuts
      OBVIOUS
    <3> QED
      BY <1>2, <3>1, <3>2, NatMax
  <2>2. Recorded \in cuts /\ \A k \in cuts : k <= Recorded
    BY <1>2, <2>1 DEF Recorded
  <2> QED
    BY <2>2
<1> QED
  BY <1>1, <1>2

\* A chunk of the output.
LEMMA ChunkFacts ==
  ASSUME output \in Seq(Bytes), NEW r \in Nat, NEW u \in Nat, r <= u, u <= Len(output),
         NEW chunk, chunk = SubSeq(output, r + 1, u)
  PROVE  /\ chunk \in Seq(Bytes) /\ Len(chunk) = u - r
         /\ \A j \in 1..u - r : chunk[j] = output[r + j]
         /\ SubSeq(output, 1, r) \o chunk = SubSeq(output, 1, u)
<1>1. PICK a, b : a = SubSeq(output, 1, r) /\ b = SubSeq(output, 1, u)
  OBVIOUS
<1>2. Len(output) \in Nat
  OBVIOUS
<1>3. \A i \in 1..u : output[i] \in Bytes
  <2>1. \A i \in 1..u : i \in 1..Len(output)
    BY <1>2
  <2> QED
    BY <2>1, ElementOfSeq
<1>4. chunk \in Seq(Bytes) /\ Len(chunk) = u - r /\ \A j \in 1..u - r : chunk[j] = output[r + j]
  BY <1>2, <1>3
<1>5. a \in Seq(Bytes) /\ Len(a) = r /\ \A j \in 1..r : a[j] = output[j]
  BY <1>1, <1>2, <1>3
<1>6. b \in Seq(Bytes) /\ Len(b) = u /\ \A j \in 1..u : b[j] = output[j]
  BY <1>1, <1>2, <1>3
<1>7. a \o chunk = b
  <2>1. PICK c : c = a \o chunk
    OBVIOUS
  <2>0. a \in Seq(Bytes) /\ chunk \in Seq(Bytes)
    BY <1>4, <1>5
  <2>a. /\ c \in Seq(Bytes) /\ Len(c) = Len(a) + Len(chunk)
        /\ \A i \in 1..Len(a) + Len(chunk) :
             c[i] = IF i <= Len(a) THEN a[i] ELSE chunk[i - Len(a)]
    BY <2>0, <2>1, ConcatProperties, Zenon
  <2>b. Len(a) = r /\ Len(a) + Len(chunk) = u
    BY <1>4, <1>5
  <2>2. /\ c \in Seq(Bytes) /\ Len(c) = u
        /\ \A i \in 1..u : c[i] = IF i <= r THEN a[i] ELSE chunk[i - r]
    BY <2>a, <2>b
  <2>3. ASSUME NEW i \in 1..u PROVE c[i] = b[i]
    <3>1. CASE i <= r
      <4>1. i \in 1..r
        BY <3>1
      <4> QED
        BY <1>5, <1>6, <2>2, <3>1, <4>1
    <3>2. CASE ~(i <= r)
      <4>1. i - r \in 1..u - r /\ r + (i - r) = i
        BY <3>2
      <4>2. chunk[i - r] = output[r + (i - r)]
        BY <1>4, <4>1
      <4> QED
        BY <1>6, <2>2, <3>2, <4>1, <4>2
    <3> QED
      BY <3>1, <3>2
  <2> QED
    BY <1>6, <2>1, <2>2, <2>3, SeqEqual
<1> QED
  BY <1>1, <1>4, <1>7

\* The invariant holds at first.
LEMMA CastBegins == CastInit => CastInv
<1> SUFFICES ASSUME CastInit PROVE CastInv
  OBVIOUS
<1>1. output \in Seq(Bytes) /\ Paired(output)
  <2>1. PICK n \in 0..MaxOutput : \E phrase \in [1..n -> Characters] : output = FlattenSeq(phrase)
    BY DEF CastInit, Outputs
  <2>2. PICK phrase \in [1..n -> Characters] : output = FlattenSeq(phrase)
    BY <2>1
  <2>3. phrase \in Seq(Characters)
    OBVIOUS
  <2> QED
    BY <2>2, <2>3, OutputIsPaired
<1>2. live = SubSeq(output, 1, 0)
  BY <1>1 DEF CastInit
<1>3. CastTypes
  BY <1>1, <1>2 DEF CastInit, CastTypes
<1>4. CutsAreEnds
  BY DEF CastInit, CutsAreEnds
<1>5. ReplayedSoFar
  <2>1. Recorded = 0 /\ Len(castLines) = 0
    BY DEF CastInit, Recorded
  <2>2. Replay = FlattenSeq(<<>>)
    BY <2>1 DEF Replay
  <2>3. PiecesUpTo(cuts, gone, Recorded) = FlattenSeq(<<>>)
    BY <2>1 DEF PiecesUpTo
  <2> QED
    BY <2>2, <2>3 DEF ReplayedSoFar
<1> QED
  BY <1>3, <1>4, <1>5 DEF CastInv

\* Reading a chunk keeps it.
LEMMA CastReads ==
  ASSUME CastInv, ReadChunk
  PROVE  CastInv'
<1> USE DEF CastInv
<1>1. PICK upTo, chunk, fate :
        /\ fate \in Fates /\ RecordLine("o", Drawn(chunk), fate)
        /\ gone' = IF recorder = "writing" /\ fate = "lost" THEN gone \cup (readUpTo + 1..upTo)
                   ELSE gone
        /\ upTo \in readUpTo + 1..Len(output)
        /\ chunk = SubSeq(output, readUpTo + 1, upTo)
        /\ readUpTo' = upTo /\ live' = live \o chunk
        /\ cuts' = IF recorder = "writing" THEN cuts \cup {upTo} ELSE cuts
        /\ UNCHANGED <<output, recorder, sent, replayed>>
  BY DEF ReadChunk
<1>2. PICK r \in Nat : r = readUpTo
  BY DEF CastTypes
<1>3. r \in Nat /\ upTo \in Nat /\ r < upTo /\ upTo <= Len(output) /\ output \in Seq(Bytes)
  BY <1>1, <1>2 DEF CastTypes
<1>4. /\ chunk \in Seq(Bytes) /\ Len(chunk) = upTo - r
      /\ \A j \in 1..upTo - r : chunk[j] = output[r + j]
      /\ live' = SubSeq(output, 1, upTo)
  BY <1>1, <1>2, <1>3, ChunkFacts DEF CastTypes
<1>5. PICK line : line = [kind |-> "o", data |-> Drawn(chunk), fate |-> fate]
  OBVIOUS
<1>6. line \in AnyLine /\ DataOf(line) = Drawn(chunk) /\ Drawn(chunk) \in Seq(CastGlyph)
  BY <1>1, <1>4, <1>5, DrawnTyped DEF AnyLine, DataOf
<1>7. castLines' = IF recorder = "writing" /\ Drawn(chunk) # <<>> /\ fate # "lost"
                   THEN Append(castLines, line) ELSE castLines
  BY <1>1, <1>5 DEF RecordLine
<1>8. CastTypes'
  <2>1. castLines' \in Seq(AnyLine)
    BY <1>6, <1>7, AppendProperties DEF CastTypes
  <2>2. readUpTo' \in 0..Len(output)
    BY <1>1, <1>3
  <2> QED
    BY <1>1, <1>4, <2>1, <2>2 DEF CastTypes
<1>9. CutsAreEnds'
  <2>1. cuts \subseteq 1..upTo /\ upTo \in 1..upTo /\ gone \subseteq 1..upTo
        /\ r + 1..upTo \subseteq 1..upTo
    BY <1>2, <1>3 DEF CutsAreEnds
  <2>2. /\ cuts' \subseteq 1..upTo /\ (recorder = "writing" => upTo \in cuts')
        /\ gone' \subseteq 1..upTo
    BY <1>1, <1>2, <2>1
  <2>3. recorder = NoRecorder => castLines' = <<>> /\ cuts' = {}
    BY <1>1, <1>7, CastAssumption DEF CutsAreEnds
  <2> QED
    BY <1>1, <2>2, <2>3 DEF CutsAreEnds
<1>10. ReplayedSoFar'
  <2>1. CASE recorder = "writing"
    <3>1. Recorded = r
      <4>1. cuts \subseteq 1..r /\ (r = 0 \/ r \in cuts)
        BY <1>2, <2>1 DEF CutsAreEnds
      <4> QED
        BY <4>1, RecordedFacts
    <3>2. Recorded' = upTo
      <4>1. cuts' \subseteq 1..upTo /\ upTo \in cuts'
        BY <1>1, <1>3, <2>1, <1>2 DEF CutsAreEnds
      <4>2. Recorded' \in cuts' /\ \A k \in cuts' : k <= Recorded'
        <5>1. PICK T : T = cuts'
          OBVIOUS
        <5>2. \E m \in T : \A k \in T : k <= m
          BY <1>3, <4>1, <5>1
        <5>3. T # {}
          BY <4>1, <5>1
        <5> QED
          BY <5>1, <5>2, <5>3 DEF Recorded
      <4> QED
        BY <1>3, <4>1, <4>2
    <3>5. PiecesUpTo(cuts, gone, Recorded)' = PiecesUpTo(cuts', gone', Recorded')
      BY <1>1 DEF PiecesUpTo, PieceAt, Whole
    <3>6. PICK C, D, G, H : C = cuts /\ D = cuts' /\ G = gone /\ H = gone'
      OBVIOUS
    <3>7. /\ D = C \cup {upTo} /\ C \subseteq 1..r /\ (r = 0 \/ r \in C) /\ G \subseteq 1..r
          /\ H = IF fate = "lost" THEN G \cup (r + 1..upTo) ELSE G
      BY <1>1, <1>2, <2>1, <3>6 DEF CutsAreEnds
    <3>8. /\ \A i \in 0..r : (i \in C <=> i \in D) /\ (i \in G <=> i \in H)
          /\ \A i \in r + 1..upTo - 1 : i \notin D \/ ~Whole(output, i)
          /\ \A i \in r + 1..upTo : i \in H <=> fate = "lost"
          /\ upTo \in D /\ (r = 0 \/ r \in D) /\ r <= upTo
      BY <1>3, <3>7
    <3>9. Replay \in Seq(CastGlyph)
      <4>1. PiecesUpTo(cuts, gone, Recorded) \in Seq(CastGlyph)
        BY <1>2, <3>1, PiecesTyped
      <4> QED
        BY <4>1 DEF ReplayedSoFar
    <3>3. CASE fate # "lost"
      <4>1. Replay' = Replay \o Drawn(chunk)
        <5>1. CASE Drawn(chunk) # <<>>
          BY <1>6, <1>7, <2>1, <3>3, <5>1, ReplayGrows DEF CastTypes
        <5>2. CASE Drawn(chunk) = <<>>
          <6>1. Replay' = Replay
            BY <1>7, <5>2 DEF Replay
          <6>2. Replay \o <<>> = Replay
            BY <3>9, ConcatEmptySeq
          <6> QED
            BY <5>2, <6>1, <6>2
        <5> QED
          BY <5>1, <5>2
      <4>2. Paired(output)
        BY DEF CastTypes
      <4>3. ChunkTo(chunk, r, upTo, C, D, G, H)
        BY <1>3, <1>4, <3>3, <3>8 DEF ChunkTo
      <4>4. PiecesUpTo(D, H, upTo) = PiecesUpTo(C, G, r) \o Drawn(chunk)
        BY <1>3, <4>2, <4>3, OneMoreChunk
      <4> QED
        BY <3>1, <3>2, <3>5, <3>6, <4>1, <4>4 DEF ReplayedSoFar
    <3>4. CASE fate = "lost"
      <4>1. Replay' = Replay
        BY <1>7, <3>4 DEF Replay
      <4>2. PiecesUpTo(D, H, upTo) = PiecesUpTo(C, G, r)
        BY <1>3, <3>4, <3>8, LostChunk
      <4> QED
        BY <3>1, <3>2, <3>5, <3>6, <4>1, <4>2 DEF ReplayedSoFar
    <3> QED
      BY <3>3, <3>4
  <2>2. CASE recorder # "writing"
    <3>1. castLines' = castLines /\ cuts' = cuts /\ gone' = gone /\ output' = output
      BY <1>1, <1>7, <2>2
    <3> QED
      BY <3>1 DEF ReplayedSoFar, Replay, PiecesUpTo, PieceAt, Whole, Recorded
  <2> QED
    BY <2>1, <2>2
<1> QED
  BY <1>8, <1>9, <1>10

\* What is replayed, when nothing but what the program wrote is in the file.
LEMMA CastKeeps ==
  ASSUME CastInv, UNCHANGED <<output, readUpTo, live, cuts, gone>>,
         recorder' = recorder \/ (recorder = "writing" /\ recorder' = "finished"),
         NEW fate \in Fates,
         castLines' = castLines \/ (recorder = "writing" /\
           castLines' = Append(castLines, [kind |-> "i", data |-> <<"a">>, fate |-> fate]))
  PROVE  CastInv'
<1> USE DEF CastInv
<1>1. PICK line : line = [kind |-> "i", data |-> <<"a">>, fate |-> fate]
  OBVIOUS
<1>2. line \in AnyLine /\ DataOf(line) = <<>>
  <2>1. <<"a">> \in Seq(CastGlyph)
    BY DEF CastGlyph
  <2> QED
    BY <1>1, <2>1 DEF AnyLine, DataOf
<1>3. CastTypes'
  <2>1. castLines' \in Seq(AnyLine)
    <3>1. castLines \in Seq(AnyLine)
      BY DEF CastTypes
    <3>2. Append(castLines, line) \in Seq(AnyLine)
      BY <1>2, <3>1, AppendProperties
    <3> QED
      BY <1>1, <3>1, <3>2
  <2> QED
    BY <2>1 DEF CastTypes
<1>4. CutsAreEnds'
  BY CastAssumption DEF CutsAreEnds, CastTypes
<1>5. Replay' = Replay
  <2>1. CASE castLines' = castLines
    BY <2>1 DEF Replay
  <2>2. CASE castLines' = Append(castLines, line)
    <3>1. Replay' = Replay \o <<>>
      BY <1>2, <2>2, ReplayGrows DEF CastTypes
    <3>2. Replay \in Seq(CastGlyph)
      <4>1. PICK n \in Nat : n = readUpTo
        BY DEF CastTypes
      <4>2. cuts \subseteq 1..n
        BY <4>1 DEF CutsAreEnds
      <4>3. Recorded \in 0..n
        BY <4>2, RecordedFacts
      <4>4. Recorded \in Nat
        BY <4>3
      <4> QED
        BY <4>4, PiecesTyped DEF ReplayedSoFar
    <3> QED
      BY <3>1, <3>2, ConcatEmptySeq
  <2> QED
    BY <1>1, <2>1, <2>2
<1>6. ReplayedSoFar'
  BY <1>5 DEF ReplayedSoFar, PiecesUpTo, PieceAt, Whole, Recorded
<1> QED
  BY <1>3, <1>4, <1>6

\* Where no read split a character, the screen is what was drawn of every chunk.
LEMMA LiveIsPieces ==
  ASSUME CastInv, \A i \in cuts : ~Whole(output, i), readUpTo = Recorded, gone = {}
  PROVE  Shown = PiecesUpTo(cuts, gone, Recorded)
<1> USE DEF CastInv
<1>1. PICK n \in Nat : n = readUpTo
  BY DEF CastTypes
<1>2. n <= Len(output) /\ output \in Seq(Bytes) /\ (n = 0 \/ n \in cuts)
  <2>1. cuts \subseteq 1..n
    BY <1>1 DEF CutsAreEnds
  <2>2. Recorded = n => n = 0 \/ n \in cuts
    BY <2>1, RecordedFacts
  <2> QED
    BY <1>1, <2>2 DEF CastTypes
<1>3. PICK chunk : chunk = SubSeq(output, 0 + 1, n)
  OBVIOUS
<1>4. chunk \in Seq(Bytes) /\ Len(chunk) = n - 0 /\ \A j \in 1..n - 0 : chunk[j] = output[0 + j]
  BY <1>2, <1>3, ChunkFacts
<1>5. live = chunk
  BY <1>1, <1>3 DEF CastTypes
<1>6. ~(n \in cuts /\ output[n] = "hi")
  BY <1>2 DEF CastTypes, CutsAreEnds, Paired, Whole
<1>7. Shown = Drawn(chunk)
  <2>1. live # <<>> => Last(live) # "hi"
    BY <1>2, <1>4, <1>5, <1>6 DEF Last
  <2> QED
    BY <1>5, <2>1 DEF Shown
<1>8. PiecesUpTo(cuts, gone, n) = PiecesUpTo(cuts, gone, 0) \o Drawn(chunk)
  <2>1. PICK C, D, G, H : C = cuts /\ D = cuts /\ G = gone /\ H = gone
    OBVIOUS
  <2>2. \A i \in 0 + 1..n - 1 : i \notin D \/ ~Whole(output, i)
    BY <2>1
  <2>5. PICK z \in Nat : z = 0
    OBVIOUS
  <2>7. /\ \A i \in 0..z : (i \in C <=> i \in D) /\ (i \in G <=> i \in H)
        /\ \A i \in z + 1..n : i \notin H
    BY <2>1
  <2>6. /\ Len(chunk) = n - z /\ \A j \in 1..n - z : chunk[j] = output[z + j]
        /\ \A i \in z + 1..n - 1 : i \notin D \/ ~Whole(output, i)
    BY <1>4, <2>2, <2>5
  <2>3. z <= n /\ (z = 0 \/ z \in D) /\ (n \in D \/ n = 0 \/ output[n] # "hi") /\ Paired(output)
    BY <1>2, <2>1, <2>5 DEF CastTypes
  <2>8. ChunkTo(chunk, z, n, C, D, G, H)
    BY <1>2, <1>4, <2>3, <2>5, <2>6, <2>7 DEF ChunkTo
  <2>4. PiecesUpTo(D, H, n) = PiecesUpTo(C, G, z) \o Drawn(chunk)
    BY <1>2, <2>3, <2>8, OneMoreChunk
  <2> QED
    BY <2>1, <2>4, <2>5
<1>9. PiecesUpTo(cuts, gone, 0) = <<>>
  <2>1. PICK ps : ps = [i \in 1..0 |-> PieceAt(cuts, gone, i)]
    OBVIOUS
  <2>2. ps = <<>>
    BY <2>1
  <2> QED
    BY <2>1, <2>2, FlattenEmpty DEF PiecesUpTo
<1>10. Drawn(chunk) \in Seq(CastGlyph)
  BY <1>4, DrawnTyped
<1> QED
  BY <1>1, <1>7, <1>8, <1>9, <1>10, ConcatEmptySeq

\* It says what the property says.
LEMMA CastInvShows == CastInv => ReplayShowsScreen
<1> SUFFICES ASSUME CastInv PROVE ReplayShowsScreen
  OBVIOUS
<1> USE DEF CastInv
<1>1. recorder = NoRecorder => castLines = <<>>
  BY DEF CutsAreEnds
<1>2. Replay = PiecesUpTo(cuts, gone, Recorded)
  BY DEF ReplayedSoFar
<1>3. recorder = "writing" => Recorded = readUpTo
  <2>1. PICK n \in Nat : n = readUpTo
    BY DEF CastTypes
  <2> QED
    BY <2>1, RecordedFacts DEF CutsAreEnds
<1>4. (\A i \in cuts : ~Whole(output, i)) /\ gone = {} /\ readUpTo = Recorded => Replay = Shown
  BY <1>2, LiveIsPieces
<1> QED
  BY <1>1, <1>2, <1>3, <1>4 DEF ReplayShowsScreen, PiecesUpTo, PieceAt

\* What replay_cast draws of a recording, if it ends without an error, is what the live
\* screen showed, but for the characters that two reads of the terminal split and for the
\* chunks that could not be written (terminal/cast.rs, terminal/pty.rs).
THEOREM ReplaysShowTheScreen == CastSpec => []ReplayShowsScreen
<1>1. CastInit => CastInv
  BY CastBegins
<1>2. CastInv /\ [CastStep]_castVars => CastInv'
  <2> SUFFICES ASSUME CastInv, [CastStep]_castVars PROVE CastInv'
    OBVIOUS
  <2>1. CASE ReadChunk
    BY <2>1, CastReads
  <2>2. CASE SendBytes
    <3>1. PICK fate \in Fates : RecordLine("i", <<"a">>, fate)
      BY <2>2 DEF SendBytes
    <3> QED
      BY <2>2, <3>1, CastKeeps DEF SendBytes, RecordLine
  <2>6. "written" \in Fates
    BY DEF Fates
  <2>3. CASE FinishCast
    BY <2>3, <2>6, CastKeeps DEF FinishCast
  <2>4. CASE ReplayCast
    BY <2>4, <2>6, CastKeeps DEF ReplayCast
  <2>5. CASE UNCHANGED castVars
    BY <2>5, <2>6, CastKeeps DEF castVars
  <2> QED
    BY <2>1, <2>2, <2>3, <2>4, <2>5 DEF CastStep
<1>3. CastInv => ReplayShowsScreen
  BY CastInvShows
<1> QED
  BY <1>1, <1>2, <1>3, PTL DEF CastSpec

-----------------------------------------------------------------------------
(* CommandLine: words that are quoted and read back, and what init keeps.  *)

CommandChars == OtherChars \cup {"apostrophe", "backslash", "space"}
Reader ==
  [word : Seq(CommandChars), words : Seq(Seq(CommandChars)), single : BOOLEAN, double : BOOLEAN,
   escaped : BOOLEAN]

\* One character keeps the state of the reader well typed.
LEMMA ReadCharType ==
  ASSUME NEW s \in Reader, NEW ch \in CommandChars
  PROVE  ReadChar(s, ch) \in Reader
<1>1. Append(s.word, ch) \in Seq(CommandChars) /\ Append(s.words, s.word) \in Seq(Seq(CommandChars))
  BY AppendProperties DEF Reader
<1>2. <<>> \in Seq(CommandChars)
  BY EmptySeq
<1>3. EndWord(s) \in Reader
  BY <1>1, <1>2 DEF EndWord, Reader
<1>4. [s EXCEPT !.word = Append(@, ch), !.escaped = FALSE] \in Reader
  BY <1>1 DEF Reader
<1>5. /\ [s EXCEPT !.escaped = TRUE] \in Reader /\ [s EXCEPT !.single = ~@] \in Reader
      /\ [s EXCEPT !.double = ~@] \in Reader /\ [s EXCEPT !.word = Append(@, ch)] \in Reader
  BY <1>1 DEF Reader
<1> QED
  BY <1>3, <1>4, <1>5 DEF ReadChar

\* f is what the reader is in after each of the characters of text.
Reads(f, s, phrase) ==
  /\ f \in [0..Len(phrase) -> Reader] /\ f[0] = s
  /\ \A i \in 1..Len(phrase) : f[i] = ReadChar(f[i - 1], phrase[i])

\* A text can be read, character by character.
LEMMA ReadsExists ==
  ASSUME NEW s \in Reader, NEW phrase \in Seq(CommandChars)
  PROVE  \E f : Reads(f, s, phrase) /\ ReadAll(s, phrase) = f[Len(phrase)]
<1>0. Len(phrase) \in Nat /\ \A i \in 1..Len(phrase) : phrase[i] \in CommandChars
  BY ElementOfSeq
<1> DEFINE step == [n \in Nat |-> [x \in Reader |->
                      IF n + 1 \in 1..Len(phrase) THEN ReadChar(x, phrase[n + 1]) ELSE x]]
<1>1. step \in [Nat -> [Reader -> Reader]]
  BY <1>0, ReadCharType
<1>3. \A n \in Nat, x \in Reader :
        n + 1 \in 1..Len(phrase) => step[n][x] = ReadChar(x, phrase[n + 1])
  OBVIOUS
<1> HIDE DEF step
<1>4. PICK f \in [Nat -> Reader] : f[0] = s /\ \A n \in Nat : f[n + 1] = step[n][f[n]]
  <2>1. IsStep(step, Reader)
    BY <1>1 DEF IsStep
  <2>2. PICK V : V = Reader
    OBVIOUS
  <2>3. \E f : Iterates(f, V, s, step)
    BY <2>1, <2>2, Recursion
  <2> QED
    BY <2>2, <2>3 DEF Iterates
<1>5. PICK g : g = [i \in 0..Len(phrase) |-> f[i]]
  OBVIOUS
<1>6. g \in [0..Len(phrase) -> Reader] /\ g[0] = s
  BY <1>0, <1>4, <1>5
<1>7. ASSUME NEW i \in 1..Len(phrase) PROVE g[i] = ReadChar(g[i - 1], phrase[i])
  <2>1. i - 1 \in Nat /\ (i - 1) + 1 = i /\ i \in 0..Len(phrase) /\ i - 1 \in 0..Len(phrase)
    BY <1>0
  <2>2. f[i] = step[i - 1][f[i - 1]] /\ f[i - 1] \in Reader
    <3>1. f[(i - 1) + 1] = step[i - 1][f[i - 1]]
      BY <1>4, <2>1
    <3> QED
      BY <1>4, <2>1, <3>1
  <2>3. step[i - 1][f[i - 1]] = ReadChar(f[i - 1], phrase[(i - 1) + 1])
    BY <1>3, <2>1, <2>2
  <2> QED
    BY <1>5, <2>1, <2>2, <2>3
<1>8. g = [n \in 0..Len(phrase) |-> IF n = 0 THEN s ELSE ReadChar(g[n - 1], phrase[n])]
  <2>1. \A n \in 0..Len(phrase) : g[n] = IF n = 0 THEN s ELSE ReadChar(g[n - 1], phrase[n])
    <3> TAKE n \in 0..Len(phrase)
    <3>1. CASE n = 0
      BY <1>6, <3>1
    <3>2. CASE n # 0
      <4>1. n \in 1..Len(phrase)
        BY <1>0, <3>2
      <4> QED
        BY <1>7, <3>2, <4>1
    <3> QED
      BY <3>1, <3>2
  <2> QED
    BY <1>6, <2>1
<1> DEFINE Fix(h) == h = [n \in 0..Len(phrase) |-> IF n = 0 THEN s ELSE ReadChar(h[n - 1], phrase[n])]
<1>9. PICK reached : reached = CHOOSE h : Fix(h)
  OBVIOUS
<1>10. Fix(reached)
  <2>1. Fix(g)
    BY <1>8
  <2> HIDE DEF Fix
  <2> QED
    BY <1>9, <2>1
<1>11. ReadAll(s, phrase) = reached[Len(phrase)]
  BY <1>9 DEF ReadAll
<1> HIDE DEF Fix
<1>12. \A i \in 0..Len(phrase) : reached[i] = g[i]
  <2> DEFINE Same == {i \in Nat : i <= Len(phrase) => reached[i] = g[i]}
  <2>1. 0 \in Same
    BY <1>0, <1>6, <1>10 DEF Fix
  <2>2. ASSUME NEW i \in Nat, i \in Same PROVE i + 1 \in Same
    <3>1. CASE i + 1 <= Len(phrase)
      <4>1. i + 1 \in 1..Len(phrase) /\ i + 1 \in 0..Len(phrase) /\ (i + 1) - 1 = i /\ i + 1 # 0
        BY <1>0, <3>1
      <4>2. reached[i] = g[i]
        BY <1>0, <2>2, <3>1
      <4>3. reached[i + 1] = ReadChar(reached[(i + 1) - 1], phrase[i + 1])
        BY <1>10, <4>1 DEF Fix
      <4>4. g[i + 1] = ReadChar(g[(i + 1) - 1], phrase[i + 1])
        BY <1>7, <4>1
      <4> QED
        BY <4>1, <4>2, <4>3, <4>4
    <3> QED
      BY <3>1
  <2>3. Nat \subseteq Same
    <3> HIDE DEF Same
    <3> QED
      BY <2>1, <2>2, SetInduction
  <2> QED
    BY <1>0, <2>3
<1> QED
  BY <1>0, <1>6, <1>7, <1>11, <1>12 DEF Reads

Continues(more, phrase) ==
  /\ Len(phrase) \in Nat /\ Len(more) \in Nat /\ Len(phrase) <= Len(more)
  /\ \A i \in 1..Len(phrase) : phrase[i] = more[i]

\* There is one such f.
LEMMA ReadsOnce ==
  ASSUME NEW s, NEW phrase, NEW more, NEW f, NEW g,
         Continues(more, phrase), Reads(f, s, phrase), Reads(g, s, more)
  PROVE  f[Len(phrase)] = g[Len(phrase)]
<1>0. PICK n, m : n = Len(phrase) /\ m = Len(more)
  OBVIOUS
<1>9. n \in Nat /\ m \in Nat /\ n <= m /\ \A i \in 1..n : phrase[i] = more[i]
  BY <1>0 DEF Continues
<1> DEFINE Same == {i \in Nat : i <= n => f[i] = g[i]}
<1>1. 0 \in Same
  BY DEF Reads
<1>2. ASSUME NEW i \in Nat, i \in Same PROVE i + 1 \in Same
  <2>1. CASE i + 1 <= n
    <3>1. i + 1 \in 1..n /\ i + 1 \in 1..m /\ (i + 1) - 1 = i /\ f[i] = g[i]
      BY <1>2, <1>9, <2>1
    <3>2. f[i + 1] = ReadChar(f[(i + 1) - 1], phrase[i + 1])
      BY <1>0, <3>1 DEF Reads
    <3>3. g[i + 1] = ReadChar(g[(i + 1) - 1], more[i + 1])
      BY <1>0, <3>1 DEF Reads
    <3> QED
      BY <1>9, <3>1, <3>2, <3>3
  <2> QED
    BY <2>1
<1>3. Nat \subseteq Same
  <2> HIDE DEF Same
  <2> QED
    BY <1>1, <1>2, SetInduction
<1> QED
  BY <1>0, <1>3, <1>9

\* Of no characters nothing is read.
LEMMA ReadNothing ==
  ASSUME NEW s \in Reader
  PROVE  ReadAll(s, <<>>) = s
<1>1. PICK phrase : phrase = <<>>
  OBVIOUS
<1>2. phrase \in Seq(CommandChars) /\ Len(phrase) = 0
  BY <1>1, EmptySeq
<1>3. PICK f : Reads(f, s, phrase) /\ ReadAll(s, phrase) = f[Len(phrase)]
  BY <1>2, ReadsExists
<1> QED
  BY <1>1, <1>2, <1>3 DEF Reads

\* One more character.
LEMMA ReadOneMore ==
  ASSUME NEW s \in Reader, NEW phrase \in Seq(CommandChars), NEW ch \in CommandChars
  PROVE  /\ ReadAll(s, phrase) \in Reader
         /\ ReadAll(s, Append(phrase, ch)) = ReadChar(ReadAll(s, phrase), ch)
<1>1. PICK more : more = Append(phrase, ch)
  OBVIOUS
<1>2. PICK n \in Nat : n = Len(phrase)
  OBVIOUS
<1>3. /\ more \in Seq(CommandChars) /\ Len(more) = n + 1 /\ more[n + 1] = ch
      /\ \A i \in 1..n : more[i] = phrase[i]
  BY <1>1, <1>2, AppendProperties
<1>4. PICK f : Reads(f, s, phrase) /\ ReadAll(s, phrase) = f[Len(phrase)]
  BY ReadsExists
<1>5. PICK g : Reads(g, s, more) /\ ReadAll(s, more) = g[Len(more)]
  BY <1>3, ReadsExists
<1>6. f[n] = g[n]
  <2>1. PICK m \in Nat : m = Len(more)
    BY <1>3
  <2>2. Continues(more, phrase)
    BY <1>2, <1>3, <2>1 DEF Continues
  <2>3. Reads(f, s, phrase) /\ Reads(g, s, more)
    BY <1>4, <1>5
  <2>4. f[Len(phrase)] = g[Len(phrase)]
    BY <2>2, <2>3, ReadsOnce
  <2> QED
    BY <1>2, <2>4
<1>7. g[n + 1] = ReadChar(g[(n + 1) - 1], more[n + 1])
  <2>1. n + 1 \in 1..Len(more)
    BY <1>3
  <2> QED
    BY <1>5, <2>1 DEF Reads
<1>8. f[n] \in Reader
  <2>1. n \in 0..Len(phrase)
    BY <1>2
  <2> QED
    BY <1>4, <2>1 DEF Reads
<1> QED
  BY <1>1, <1>2, <1>3, <1>4, <1>5, <1>6, <1>7, <1>8

\* Reading on is reading the rest from where the first part ended.
LEMMA ReadOn ==
  ASSUME NEW s \in Reader, NEW a \in Seq(CommandChars), NEW b \in Seq(CommandChars)
  PROVE  ReadAll(s, a \o b) = ReadAll(ReadAll(s, a), b)
<1>1. PICK t : t = ReadAll(s, a)
  OBVIOUS
<1>2. t \in Reader
  <2>1. PICK f : Reads(f, s, a) /\ ReadAll(s, a) = f[Len(a)]
    BY ReadsExists
  <2>2. Len(a) \in 0..Len(a)
    OBVIOUS
  <2> QED
    BY <1>1, <2>1, <2>2 DEF Reads
<1> DEFINE Good == {u \in Seq(CommandChars) : ReadAll(s, a \o u) = ReadAll(t, u)}
<1>3. <<>> \in Good
  BY <1>1, <1>2, ReadNothing, ConcatEmptySeq, EmptySeq
<1>4. ASSUME NEW u \in Seq(CommandChars), NEW ch \in CommandChars, u \in Good PROVE Append(u, ch) \in Good
  <2>1. PICK v : v = a \o u
    OBVIOUS
  <2>2. v \in Seq(CommandChars) /\ a \o Append(u, ch) = Append(v, ch) /\ Append(u, ch) \in Seq(CommandChars)
    BY <2>1, ConcatProperties, AppendProperties
  <2>3. ReadAll(s, Append(v, ch)) = ReadChar(ReadAll(s, v), ch)
    BY <2>2, ReadOneMore
  <2>4. ReadAll(t, Append(u, ch)) = ReadChar(ReadAll(t, u), ch)
    BY <1>2, ReadOneMore
  <2> QED
    BY <1>4, <2>1, <2>2, <2>3, <2>4
<1>5. Seq(CommandChars) \subseteq Good
  <2> HIDE DEF Good
  <2> QED
    BY <1>3, <1>4, SeqInduction
<1> QED
  BY <1>1, <1>5

\* What a word, as it is quoted, is read as.
Holds(s, word) == [s EXCEPT !.word = word]
Free(s) == s \in Reader /\ ~s.single /\ ~s.double /\ ~s.escaped
Inside(s) == s \in Reader /\ s.single /\ ~s.double /\ ~s.escaped

\* A character that says nothing to the reader is added to the word.
LEMMA ReadPlain ==
  ASSUME NEW s, Free(s), s.word = <<>>,
         NEW w \in Seq(CommandChars \ {"space", "newline", "quote", "apostrophe", "backslash"})
  PROVE  ReadAll(s, w) = Holds(s, w)
<1> DEFINE BareChars == CommandChars \ {"space", "newline", "quote", "apostrophe", "backslash"}
           Good == {u \in Seq(BareChars) : ReadAll(s, u) = Holds(s, u)}
<1>0. s \in Reader
  BY DEF Free
<1>1. <<>> \in Good
  <2>1. <<>> \in Seq(BareChars)
    BY EmptySeq
  <2>2. Holds(s, <<>>) = s
    BY DEF Holds, Free, Reader
  <2> QED
    BY <1>0, <2>1, <2>2, ReadNothing
<1>2. ASSUME NEW u \in Seq(BareChars), NEW ch \in BareChars, u \in Good PROVE Append(u, ch) \in Good
  <2>1. u \in Seq(CommandChars) /\ ch \in CommandChars /\ Append(u, ch) \in Seq(BareChars)
    <3>1. BareChars \subseteq CommandChars
      OBVIOUS
    <3> QED
      BY <3>1, SeqMonotonic, AppendProperties
  <2>2. ReadAll(s, Append(u, ch)) = ReadChar(Holds(s, u), ch)
    BY <1>0, <1>2, <2>1, ReadOneMore
  <2>3. ReadChar(Holds(s, u), ch) = Holds(s, Append(u, ch))
    BY DEF ReadChar, Holds, Spaces, Free, Reader
  <2> QED
    BY <2>1, <2>2, <2>3
<1>3. Seq(BareChars) \subseteq Good
  <2> HIDE DEF Good, BareChars
  <2> QED
    BY <1>1, <1>2, SeqInduction
<1> QED
  BY <1>3

\* Reading the pieces of a word that stands between quotes.
LEMMA ReadInside ==
  ASSUME NEW s, Inside(s), s.word = <<>>, NEW w \in Seq(CommandChars)
  PROVE  /\ FlattenSeq([i \in 1..Len(w) |-> QuotedChar(w[i])]) \in Seq(CommandChars)
         /\ ReadAll(s, FlattenSeq([i \in 1..Len(w) |-> QuotedChar(w[i])])) = Holds(s, w)
<1> DEFINE Pieces(u) == [i \in 1..Len(u) |-> QuotedChar(u[i])]
           Good == {u \in Seq(CommandChars) : ReadAll(s, FlattenSeq(Pieces(u))) = Holds(s, u)}
<1>0. s \in Reader
  BY DEF Inside
<1>1. \A ch \in CommandChars : QuotedChar(ch) \in Seq(CommandChars)
  <2> TAKE ch \in CommandChars
  <2>1. "apostrophe" \in CommandChars /\ "backslash" \in CommandChars
    BY DEF CommandChars
  <2> QED
    BY <2>1 DEF QuotedChar
<1>2. \A u \in Seq(CommandChars) : Pieces(u) \in Seq(Seq(CommandChars)) /\ Len(Pieces(u)) = Len(u)
  <2> TAKE u \in Seq(CommandChars)
  <2>1. Len(u) \in Nat /\ \A i \in 1..Len(u) : QuotedChar(u[i]) \in Seq(CommandChars)
    BY <1>1, ElementOfSeq
  <2>2. PICK ps : ps = Pieces(u)
    OBVIOUS
  <2>3. ps \in Seq(Seq(CommandChars)) /\ Len(ps) = Len(u)
    BY <2>1, <2>2, IsASeq
  <2> QED
    BY <2>2, <2>3
<1>3. <<>> \in Good
  <2>1. PICK none : none = <<>>
    OBVIOUS
  <2>2. Pieces(none) = <<>> /\ none \in Seq(CommandChars)
    BY <2>1, EmptySeq
  <2>3. Holds(s, <<>>) = s
    BY DEF Holds, Inside, Reader
  <2> QED
    BY <1>0, <2>1, <2>2, <2>3, FlattenEmpty, ReadNothing
<1>4. ASSUME NEW u \in Seq(CommandChars), NEW ch \in CommandChars, u \in Good PROVE Append(u, ch) \in Good
  <2>1. PICK more, V : more = Append(u, ch) /\ V = Seq(CommandChars)
    OBVIOUS
  <2>2. PICK n \in Nat : n = Len(u)
    OBVIOUS
  <2>3. /\ more \in Seq(CommandChars) /\ Len(more) = n + 1 /\ more[n + 1] = ch
        /\ \A i \in 1..n : more[i] = u[i]
    BY <2>1, <2>2, AppendProperties
  <2>4. PICK ps, qs : ps = Pieces(u) /\ qs = Pieces(more)
    OBVIOUS
  <2>5. ps \in Seq(V) /\ Len(ps) = n /\ qs \in Seq(V) /\ Len(qs) = n + 1
    BY <1>2, <2>1, <2>2, <2>3, <2>4
  <2>6. qs = Append(ps, QuotedChar(ch))
    <3>1. PICK last, rs : last = QuotedChar(ch) /\ rs = Append(ps, last)
      OBVIOUS
    <3>2. /\ last \in V /\ rs \in Seq(V) /\ Len(rs) = n + 1 /\ rs[n + 1] = last
          /\ \A i \in 1..n : rs[i] = ps[i]
      BY <1>1, <2>1, <2>5, <3>1, AppendProperties
    <3>3. \A i \in 1..n + 1 : rs[i] = qs[i]
      <4> TAKE i \in 1..n + 1
      <4>1. CASE i \in 1..n
        BY <2>2, <2>3, <2>4, <3>2, <4>1
      <4>2. CASE i = n + 1
        BY <2>3, <2>4, <3>1, <3>2, <4>2
      <4> QED
        BY <4>1, <4>2
    <3> QED
      BY <2>5, <3>1, <3>2, <3>3, SeqEqual
  <2>7. PICK last : last = QuotedChar(ch)
    OBVIOUS
  <2>8. last \in Seq(CommandChars) /\ ps \in Seq(Seq(CommandChars))
    BY <1>1, <2>1, <2>5, <2>7
  <2>9. FlattenSeq(qs) = FlattenSeq(ps) \o last
    BY <2>6, <2>7, <2>8, FlattenAppend
  <2>10. FlattenSeq(ps) \in Seq(CommandChars)
    BY <2>8, FlattenType
  <2>11. ReadAll(s, FlattenSeq(qs)) = ReadAll(Holds(s, u), last)
    <3>1. PICK x : x = FlattenSeq(ps)
      OBVIOUS
    <3>2. ReadAll(s, x \o last) = ReadAll(ReadAll(s, x), last)
      BY <1>0, <2>8, <2>10, <3>1, ReadOn
    <3>3. ReadAll(s, x) = Holds(s, u)
      BY <1>4, <2>4, <3>1
    <3> QED
      BY <2>9, <3>1, <3>2, <3>3
  <2>12. Inside(Holds(s, u)) /\ Holds(s, u) \in Reader
    BY DEF Inside, Holds, Reader
  <2>13. ReadAll(Holds(s, u), last) = Holds(s, more)
    <3>1. PICK t : t = Holds(s, u)
      OBVIOUS
    <3>2. PICK none : none = <<>>
      OBVIOUS
    <3>3. none \in Seq(CommandChars) /\ ReadAll(t, none) = t /\ t \in Reader
      BY <2>12, <3>1, <3>2, EmptySeq, ReadNothing
    <3>4. CASE ch # "apostrophe"
      <4>1. last = Append(none, ch)
        BY <2>7, <3>2, <3>4 DEF QuotedChar
      <4>2. ReadAll(t, last) = ReadChar(t, ch)
        BY <3>3, <4>1, ReadOneMore
      <4>3. ReadChar(t, ch) = Holds(s, more)
        BY <2>1, <3>1, <3>4 DEF ReadChar, Holds, Inside, Reader
      <4> QED
        BY <3>1, <4>2, <4>3
    <3>5. CASE ch = "apostrophe"
      <4>1. PICK a, b, c, d :
              /\ a = Append(none, "apostrophe") /\ b = Append(a, "backslash")
              /\ c = Append(b, "apostrophe") /\ d = Append(c, "apostrophe")
        OBVIOUS
      <4>2. "apostrophe" \in CommandChars /\ "backslash" \in CommandChars
        BY DEF CommandChars
      <4>3. a \in Seq(CommandChars) /\ b \in Seq(CommandChars) /\ c \in Seq(CommandChars)
        BY <3>3, <4>1, <4>2, AppendProperties
      <4>4. last = d
        BY <2>7, <3>2, <3>5, <4>1 DEF QuotedChar
      <4>5. PICK x, y, z, o :
              /\ x = ReadChar(t, "apostrophe") /\ y = ReadChar(x, "backslash")
              /\ z = ReadChar(y, "apostrophe") /\ o = ReadChar(z, "apostrophe")
        OBVIOUS
      <4>6. ReadAll(t, a) = x
        BY <3>3, <4>1, <4>2, <4>5, ReadOneMore
      <4>7. ReadAll(t, b) = y
        <5>1. \A k \in CommandChars : ReadAll(t, Append(a, k)) = ReadChar(ReadAll(t, a), k)
          BY <3>3, <4>3, ReadOneMore
        <5> QED
          BY <4>1, <4>2, <4>5, <4>6, <5>1
      <4>8. ReadAll(t, c) = z
        <5>1. \A k \in CommandChars : ReadAll(t, Append(b, k)) = ReadChar(ReadAll(t, b), k)
          BY <3>3, <4>3, ReadOneMore
        <5> QED
          BY <4>1, <4>2, <4>5, <4>7, <5>1
      <4>9. ReadAll(t, d) = o
        <5>1. \A k \in CommandChars : ReadAll(t, Append(c, k)) = ReadChar(ReadAll(t, c), k)
          BY <3>3, <4>3, ReadOneMore
        <5> QED
          BY <4>1, <4>2, <4>5, <4>8, <5>1
      <4>10. x = [t EXCEPT !.single = FALSE]
        BY <2>12, <3>1, <4>5 DEF ReadChar, Inside, Reader
      <4>11. y = [t EXCEPT !.single = FALSE, !.escaped = TRUE]
        BY <2>12, <3>1, <4>5, <4>10 DEF ReadChar, Inside, Reader
      <4>12. z = [t EXCEPT !.single = FALSE, !.word = more]
        BY <2>1, <2>12, <3>1, <3>5, <4>5, <4>11 DEF ReadChar, Inside, Reader, Holds
      <4>13. o = [t EXCEPT !.word = more]
        BY <2>12, <3>1, <4>5, <4>12 DEF ReadChar, Inside, Reader
      <4>14. [t EXCEPT !.word = more] = Holds(s, more)
        BY <3>1 DEF Holds, Inside, Reader
      <4> QED
        BY <3>1, <4>4, <4>9, <4>13, <4>14
    <3> QED
      BY <3>4, <3>5
  <2> QED
    BY <2>1, <2>3, <2>4, <2>11, <2>13
<1>5. Seq(CommandChars) \subseteq Good
  <2> HIDE DEF Good, Pieces
  <2> QED
    BY <1>3, <1>4, SeqInduction
<1> QED
  BY <1>2, <1>5, FlattenType

\* A word, quoted, is read as the word.
LEMMA QuotedTyped ==
  ASSUME NEW w \in Seq(CommandChars)
  PROVE  Quoted(w) \in Seq(CommandChars)
<1>1. PICK ps : ps = [i \in 1..Len(w) |-> QuotedChar(w[i])]
  OBVIOUS
<1>2. FlattenSeq(ps) \in Seq(CommandChars)
  <2>1. \A ch \in CommandChars : QuotedChar(ch) \in Seq(CommandChars)
    <3> TAKE ch \in CommandChars
    <3>1. "apostrophe" \in CommandChars /\ "backslash" \in CommandChars
      BY DEF CommandChars
    <3> QED
      BY <3>1 DEF QuotedChar
  <2>2. Len(w) \in Nat /\ \A i \in 1..Len(w) : QuotedChar(w[i]) \in Seq(CommandChars)
    BY <2>1, ElementOfSeq
  <2>3. ps \in Seq(Seq(CommandChars))
    BY <1>1, <2>2, IsASeq
  <2> QED
    BY <2>3, FlattenType
<1>3. PICK q, inner : q = <<"apostrophe">> /\ inner = FlattenSeq(ps)
  OBVIOUS
<1>4. q \in Seq(CommandChars)
  BY <1>3 DEF CommandChars
<1>5. (q \o inner) \o q \in Seq(CommandChars)
  BY <1>2, <1>3, <1>4, ConcatProperties
<1> QED
  BY <1>1, <1>3, <1>5 DEF Quoted

\* Read from between two words, it is that word, whatever it holds.
LEMMA ReadQuoted ==
  ASSUME NEW s, Free(s), s.word = <<>>, NEW w \in Seq(CommandChars), ReadBack(w)
  PROVE  ReadAll(s, Quoted(w)) = Holds(s, w)
<1>0. s \in Reader
  BY DEF Free
<1>1. CASE \E i \in 1..Len(w) : w[i] \in {"space", "quote", "apostrophe"}
  <2>1. PICK q, inner : /\ q = <<"apostrophe">>
                        /\ inner = FlattenSeq([i \in 1..Len(w) |-> QuotedChar(w[i])])
    OBVIOUS
  <2>2. Quoted(w) = (q \o inner) \o q
    BY <1>1, <2>1 DEF Quoted
  <2>3. PICK none : none = <<>>
    OBVIOUS
  <2>4. /\ "apostrophe" \in CommandChars /\ none \in Seq(CommandChars) /\ q = Append(none, "apostrophe")
        /\ q \in Seq(CommandChars)
    BY <2>1, <2>3, EmptySeq DEF CommandChars
  <2>5. PICK t : t = ReadChar(s, "apostrophe")
    OBVIOUS
  <2>6. t = [s EXCEPT !.single = TRUE]
    BY <2>5 DEF ReadChar, Free, Reader
  <2>7. Inside(t) /\ t.word = <<>> /\ t \in Reader
    BY <2>6 DEF Inside, Free, Reader
  <2>8. \A x \in Reader : ReadAll(x, q) = ReadChar(x, "apostrophe")
    <3> TAKE x \in Reader
    <3>1. ReadAll(x, none) = x
      BY <2>3, ReadNothing
    <3>2. \A k \in CommandChars : ReadAll(x, Append(none, k)) = ReadChar(ReadAll(x, none), k)
      BY <2>4, ReadOneMore
    <3> QED
      BY <2>4, <3>1, <3>2
  <2>9. inner \in Seq(CommandChars) /\ ReadAll(t, inner) = Holds(t, w)
    BY <2>1, <2>7, ReadInside
  <2>10. ReadAll(s, q) = t
    BY <1>0, <2>5, <2>8
  <2>11. ReadAll(s, q \o inner) = Holds(t, w)
    BY <1>0, <2>4, <2>9, <2>10, ReadOn
  <2>12. q \o inner \in Seq(CommandChars)
    BY <2>4, <2>9, ConcatProperties
  <2>13. Holds(t, w) \in Reader
    BY <2>7 DEF Holds, Reader
  <2>14. ReadAll(s, (q \o inner) \o q) = ReadChar(Holds(t, w), "apostrophe")
    <3>1. PICK all : all = q \o inner
      OBVIOUS
    <3>2. ReadAll(s, all \o q) = ReadAll(ReadAll(s, all), q)
      BY <1>0, <2>4, <2>12, <3>1, ReadOn
    <3>3. ReadAll(s, all) = Holds(t, w)
      BY <2>11, <3>1
    <3> QED
      BY <2>8, <2>13, <3>1, <3>2, <3>3
  <2>15. ReadChar(Holds(t, w), "apostrophe") = Holds(s, w)
    BY <2>6, <2>7 DEF ReadChar, Holds, Inside, Free, Reader
  <2> QED
    BY <2>2, <2>14, <2>15
<1>2. CASE ~ \E i \in 1..Len(w) : w[i] \in {"space", "quote", "apostrophe"}
  <2>1. Quoted(w) = w
    BY <1>2 DEF Quoted
  <2>2. \A i \in 1..Len(w) :
          w[i] \in CommandChars \ {"space", "newline", "quote", "apostrophe", "backslash"}
    BY <1>2, <2>1, ElementOfSeq DEF ReadBack
  <2>3. w \in Seq(CommandChars \ {"space", "newline", "quote", "apostrophe", "backslash"})
    BY <2>2
  <2> QED
    BY <2>1, <2>3, ReadPlain
<1> QED
  BY <1>1, <1>2

\* The words of a command, as the prompt of an agent shows them, are read as the words.
WordsOf(n) == IF n = 1 THEN <<>> ELSE <<"space">>

\* All the words of a command.
LEMMA WordsAreReadBack ==
  ASSUME NEW argv \in Seq(Seq(CommandChars)), \A i \in 1..Len(argv) : ReadBack(argv[i])
  PROVE  ShellWords(ShellQuote(argv)) = argv
<1> DEFINE Readable == {w \in Seq(CommandChars) : ReadBack(w)}
           Pieces(a) == [i \in 1..Len(a) |-> WordsOf(i) \o Quoted(a[i])]
           After(a) == ReadAll(Ordinary, ShellQuote(a))
           Good == {a \in Seq(Readable) :
                      /\ Free(After(a)) /\ EndWord(After(a)) = [Ordinary EXCEPT !.words = a]
                      /\ a = <<>> => After(a) = Ordinary}
<1>0. Ordinary \in Reader
  BY EmptySeq DEF Ordinary, Reader
<1>1. \A w \in Seq(CommandChars), i \in Nat :
        WordsOf(i) \in Seq(CommandChars) /\ WordsOf(i) \o Quoted(w) \in Seq(CommandChars)
  <2> TAKE w \in Seq(CommandChars), i \in Nat
  <2>1. WordsOf(i) \in Seq(CommandChars)
    <3>1. <<>> \in Seq(CommandChars) /\ <<"space">> \in Seq(CommandChars)
      BY EmptySeq DEF CommandChars
    <3> QED
      BY <3>1 DEF WordsOf
  <2> QED
    BY <2>1, QuotedTyped, ConcatProperties
<1>2. \A a \in Seq(Readable) :
        /\ ShellQuote(a) = FlattenSeq(Pieces(a)) /\ a \in Seq(Seq(CommandChars))
        /\ Pieces(a) \in Seq(Seq(CommandChars)) /\ Len(Pieces(a)) = Len(a)
  <2> TAKE a \in Seq(Readable)
  <2>0. PICK V : V = Seq(CommandChars)
    OBVIOUS
  <2>1. a \in Seq(V)
    <3>1. Readable \subseteq V
      BY <2>0
    <3> HIDE DEF Readable
    <3> QED
      BY <3>1, SeqMonotonic
  <2>2. \A i \in 1..Len(a) : WordsOf(i) \o Quoted(a[i]) \in V
    <3> TAKE i \in 1..Len(a)
    <3>1. i \in Nat /\ a[i] \in V
      BY <2>1, ElementOfSeq
    <3> QED
      BY <1>1, <2>0, <3>1
  <2>3. PICK ps : ps = Pieces(a)
    OBVIOUS
  <2>4. ps \in Seq(V) /\ Len(ps) = Len(a)
    BY <2>1, <2>2, <2>3, IsASeq
  <2>5. ShellQuote(a) = FlattenSeq(Pieces(a))
    BY DEF ShellQuote, WordsOf
  <2> QED
    BY <2>0, <2>1, <2>3, <2>4, <2>5
<1>3. <<>> \in Good
  <2>1. PICK none : none = <<>>
    OBVIOUS
  <2>2. none \in Seq(Readable) /\ Pieces(none) = <<>>
    BY <2>1, EmptySeq
  <2>3. ShellQuote(none) = <<>>
    <3>1. ShellQuote(none) = FlattenSeq(Pieces(none))
      BY <1>2, <2>2
    <3> QED
      BY <2>2, <3>1, FlattenEmpty
  <2>4. After(none) = Ordinary
    BY <1>0, <2>3, ReadNothing
  <2>5. Free(Ordinary) /\ EndWord(Ordinary) = [Ordinary EXCEPT !.words = none]
    BY <1>0, <2>1 DEF Free, Ordinary, EndWord
  <2> QED
    BY <2>1, <2>2, <2>4, <2>5
<1>4. ASSUME NEW a \in Seq(Readable), NEW w \in Readable, a \in Good PROVE Append(a, w) \in Good
  <2>1. PICK more, V : more = Append(a, w) /\ V = Seq(CommandChars)
    OBVIOUS
  <2>2. PICK n \in Nat : n = Len(a)
    OBVIOUS
  <2>3. /\ more \in Seq(Readable) /\ Len(more) = n + 1 /\ more[n + 1] = w
        /\ \A i \in 1..n : more[i] = a[i]
    <3> HIDE DEF Readable
    <3> QED
      BY <2>1, <2>2, AppendProperties
  <2>4. PICK ps, qs, last :
          ps = Pieces(a) /\ qs = Pieces(more) /\ last = WordsOf(n + 1) \o Quoted(w)
    OBVIOUS
  <2>5. /\ ps \in Seq(V) /\ Len(ps) = n /\ qs \in Seq(V) /\ Len(qs) = n + 1 /\ last \in V
        /\ w \in Seq(CommandChars) /\ Quoted(w) \in Seq(CommandChars)
    <3>1. w \in Seq(CommandChars) /\ n + 1 \in Nat
      BY <2>2
    <3>2. /\ Pieces(a) \in Seq(V) /\ Len(Pieces(a)) = n
          /\ Pieces(more) \in Seq(V) /\ Len(Pieces(more)) = n + 1
      BY <1>2, <2>1, <2>2, <2>3
    <3>3. Quoted(w) \in Seq(CommandChars) /\ last \in V
      BY <1>1, <2>1, <2>4, <3>1, QuotedTyped
    <3> QED
      BY <2>4, <3>1, <3>2, <3>3
  <2>6. qs = Append(ps, last)
    <3>1. PICK rs : rs = Append(ps, last)
      OBVIOUS
    <3>2. /\ rs \in Seq(V) /\ Len(rs) = n + 1 /\ rs[n + 1] = last
          /\ \A i \in 1..n : rs[i] = ps[i]
      BY <2>5, <3>1, AppendProperties
    <3>3. \A i \in 1..n + 1 : rs[i] = qs[i]
      <4> TAKE i \in 1..n + 1
      <4>1. CASE i \in 1..n
        BY <2>2, <2>3, <2>4, <3>2, <4>1
      <4>2. CASE i = n + 1
        BY <2>3, <2>4, <3>2, <4>2
      <4> QED
        BY <4>1, <4>2
    <3> QED
      BY <2>5, <3>1, <3>2, <3>3, SeqEqual
  <2>7. PICK x : x = FlattenSeq(ps)
    OBVIOUS
  <2>8. FlattenSeq(qs) = x \o last /\ x \in Seq(CommandChars) /\ last \in Seq(CommandChars)
    <3>1. ps \in Seq(Seq(CommandChars)) /\ last \in Seq(CommandChars)
      BY <2>1, <2>5
    <3> QED
      BY <2>6, <2>7, <3>1, FlattenAppend, FlattenType
  <2>9. ShellQuote(more) = x \o last /\ ShellQuote(a) = x
    BY <1>2, <2>3, <2>4, <2>7, <2>8
  <2>10. PICK r, t : r = After(a) /\ t = [Ordinary EXCEPT !.words = a]
    OBVIOUS
  <2>11. Free(r) /\ EndWord(r) = t /\ (a = <<>> => r = Ordinary) /\ r = ReadAll(Ordinary, x)
    BY <1>4, <2>9, <2>10
  <2>12. ReadAll(r, WordsOf(n + 1)) = t
    <3>1. CASE n = 0
      <4>1. a = <<>> /\ WordsOf(n + 1) = <<>>
        <5>1. n + 1 = 1
          BY <3>1
        <5>2. Len(a) = 0
          BY <2>2, <3>1
        <5> QED
          BY <5>1, <5>2, EmptySeq DEF WordsOf
      <4>2. r = Ordinary /\ t = Ordinary
        BY <2>10, <2>11, <4>1 DEF Ordinary
      <4> QED
        BY <1>0, <4>1, <4>2, ReadNothing
    <3>2. CASE n # 0
      <4>1. PICK none : none = <<>>
        OBVIOUS
      <4>2. n + 1 # 1
        BY <3>2
      <4>3. WordsOf(n + 1) = Append(none, "space") /\ none \in Seq(CommandChars) /\ "space" \in CommandChars
        BY <4>1, <4>2, EmptySeq DEF WordsOf, CommandChars
      <4>4. r \in Reader /\ ReadAll(r, none) = r
        BY <2>11, <4>1, ReadNothing DEF Free
      <4>5. \A k \in CommandChars : ReadAll(r, Append(none, k)) = ReadChar(ReadAll(r, none), k)
        BY <4>3, <4>4, ReadOneMore
      <4>6. ReadChar(r, "space") = EndWord(r)
        BY <2>11 DEF Free, ReadChar, Spaces
      <4> QED
        BY <2>11, <4>3, <4>4, <4>5, <4>6
    <3> QED
      BY <3>1, <3>2
  <2>13. Free(t) /\ t.word = <<>> /\ t \in Reader
    BY <1>0, <1>2, <2>10 DEF Free, Reader, Ordinary
  <2>14. ReadAll(r, last) = Holds(t, w)
    <3>1. PICK sep, quoted : sep = WordsOf(n + 1) /\ quoted = Quoted(w)
      OBVIOUS
    <3>2. sep \in Seq(CommandChars) /\ quoted \in Seq(CommandChars) /\ last = sep \o quoted
      BY <1>1, <2>4, <2>5, <3>1
    <3>3. ReadAll(r, sep \o quoted) = ReadAll(ReadAll(r, sep), quoted)
      BY <2>11, <3>2, ReadOn DEF Free
    <3>4. ReadAll(t, quoted) = Holds(t, w)
      BY <2>5, <2>13, <3>1, ReadQuoted
    <3> QED
      BY <2>12, <3>1, <3>2, <3>3, <3>4
  <2>15. After(more) = Holds(t, w)
    <3>1. ReadAll(Ordinary, x \o last) = ReadAll(ReadAll(Ordinary, x), last)
      BY <1>0, <2>8, ReadOn
    <3> QED
      BY <2>9, <2>11, <2>14, <3>1
  <2>16. Free(Holds(t, w))
    BY <2>5, <2>13 DEF Free, Holds, Reader
  <2>17. EndWord(Holds(t, w)) = [Ordinary EXCEPT !.words = more]
    <3>1. w # <<>>
      BY DEF ReadBack
    <3>2. PICK o, e : o = Ordinary /\ e = EndWord(Holds(t, w))
      OBVIOUS
    <3>3. /\ o.words = <<>> /\ o.word = <<>> /\ o \in Reader
          /\ o.single = FALSE /\ o.double = FALSE /\ o.escaped = FALSE
      BY <1>0, <3>2 DEF Ordinary
    <3>4. t = [o EXCEPT !.words = a] /\ t \in Reader
      BY <2>10, <2>13, <3>2
    <3>5. Holds(t, w) = [o EXCEPT !.words = a, !.word = w]
      BY <3>3, <3>4 DEF Holds, Reader
    <3>6. e = [o EXCEPT !.words = more]
      BY <2>1, <3>1, <3>2, <3>3, <3>5 DEF EndWord, Reader
    <3> QED
      BY <3>2, <3>6
  <2>18. more # <<>>
    BY <2>2, <2>3, EmptySeq
  <2> QED
    BY <2>1, <2>3, <2>15, <2>16, <2>17, <2>18
<1>5. argv \in Good
  <2>1. argv \in Seq(Readable)
    <3>1. \A i \in 1..Len(argv) : argv[i] \in Readable
      BY ElementOfSeq
    <3> HIDE DEF Readable
    <3> QED
      BY <3>1
  <2>2. Seq(Readable) \subseteq Good
    <3> HIDE DEF Good, Readable
    <3> QED
      BY <1>3, <1>4, SeqInduction
  <2> QED
    BY <2>1, <2>2
<1>6. EndWord(After(argv)) = [Ordinary EXCEPT !.words = argv]
  BY <1>5
<1> QED
  BY <1>6 DEF ShellWords, Ordinary

-----------------------------------------------------------------------------
CONSTANTS CommandNames, Options

AnyCommand ==
  {[name |-> n, given |-> g, malformed |-> m, unknown |-> u, words |-> ws,
    text |-> ShellQuote(ws), quotedName |-> q, parallel |-> p] :
     n \in CommandNames, g \in SUBSET Options, m \in SUBSET Options, u \in BOOLEAN,
     ws \in Seq(Seq(CommandChars)), q \in BOOLEAN, p \in Nat}

CommandSpec == CommandInit /\ [][Give(AnyCommand) \/ CreateRecipe \/ Meanwhile]_commandVars

\* An init between its look and its write was forced or found nothing when it was given.
Creating ==
  creating => /\ command \in AnyCommand /\ command.name = "init"
              /\ "force" \in command.given \/ found = Nowhere

\* The words of a command that can be written are what its file holds.
LEMMA WordsAreWritten ==
  ASSUME NEW c \in AnyCommand, ~c.quotedName,
         \A i \in 1..Len(c.words) : ReadBack(c.words[i]) /\ CanBePrinted(c.words[i])
  PROVE  Written(c) = [is |-> "recipe", argv |-> c.words]
<1>1. c.words \in Seq(Seq(CommandChars)) /\ c.text = ShellQuote(c.words)
  BY DEF AnyCommand
<1>2. PICK ws : ws = c.words
  OBVIOUS
<1>3. ShellWords(ShellQuote(ws)) = ws
  BY <1>1, <1>2, WordsAreReadBack
<1>4. \A i \in 1..Len(ws) : \A j \in 1..Len(ws[i]) : ws[i][j] # "control"
  BY <1>2 DEF CanBePrinted
<1> QED
  BY <1>1, <1>2, <1>3, <1>4 DEF Written

\* Init replaces no recipe that was there when it was given unless it is forced, and what it
\* says it has written are the words that were given (handle_init, shell_words of
\* termproof-cli's main.rs).
THEOREM CommandsAlwaysKeepFiles == CommandSpec => CommandsKeepFiles
<1> DEFINE CommandStep == Give(AnyCommand) \/ CreateRecipe \/ Meanwhile
           Given ==
             commandsRun' # commandsRun =>
               LET c == command' IN
               /\ recipeFile' = recipeFile
               /\ c.name = "validate" /\ exitStatus' = SUCCESS => recipeFile # Nowhere
               /\ c.name = "run" /\ (c.parallel = 0 \/ {"skip-unchanged", "diff"} \subseteq c.given) =>
                    exitStatus' = USAGE
           Over ==
             creating /\ ~creating' =>
               /\ command.name = "init" /\ ("force" \in command.given \/ found = Nowhere)
               /\ exitStatus' = FAILURE => recipeFile' \in {recipeFile, HalfWritten}
               /\ exitStatus' = SUCCESS /\ ~command.quotedName
                  /\ (\A i \in 1..Len(command.words) :
                        ReadBack(command.words[i]) /\ CanBePrinted(command.words[i])) =>
                    recipeFile' = [is |-> "recipe", argv |-> command.words]
<1>1. CommandInit => Creating
  BY DEF CommandInit, Creating
<1>2. ASSUME Creating, [CommandStep]_commandVars PROVE Creating' /\ Given /\ Over
  <2>1. CASE Give(AnyCommand)
    <3>1. PICK c \in AnyCommand : command' = c /\ Handle(c)
      BY <2>1 DEF Give
    <3>2. ~creating /\ found' = recipeFile
      BY <2>1 DEF Give
    <3>3. CASE c.name = "init" /\ ~RefusedCommand(c)
      <4>1. HandleInit(c)
        BY <3>1, <3>3 DEF Handle
      <4>2. recipeFile' = recipeFile
        BY <4>1 DEF HandleInit, KeepRecipe
      <4>3. creating' => recipeFile = Nowhere \/ "force" \in c.given
        BY <4>1 DEF HandleInit, Exit
      <4> QED
        BY <3>1, <3>2, <3>3, <4>2, <4>3 DEF Creating
    <3>4. CASE ~(c.name = "init" /\ ~RefusedCommand(c))
      <4>1. recipeFile' = recipeFile /\ creating' = FALSE
        BY <3>1, <3>4
        DEF Handle, KeepRecipe, Exit, HandleValidate, HandleList, HandlePlugins, HandleDemo
      <4>2. c.name = "validate" /\ exitStatus' = SUCCESS => recipeFile # Nowhere
        BY <3>1, <3>4 DEF Handle, Exit, HandleValidate, USAGE, SUCCESS, FAILURE
      <4>3. c.parallel \in Nat
        BY <3>1 DEF AnyCommand
      <4>4. c.name = "run" /\ (c.parallel = 0 \/ {"skip-unchanged", "diff"} \subseteq c.given) =>
              exitStatus' = USAGE
        BY <3>1, <4>3 DEF Handle, Exit, RefusedCommand
      <4> QED
        BY <3>1, <3>2, <4>1, <4>2, <4>4 DEF Creating
    <3> QED
      BY <3>3, <3>4
  <2>2. CASE CreateRecipe
    <3>1. creating /\ creating' = FALSE /\ command \in AnyCommand /\ UNCHANGED commandsRun
      BY <1>2, <2>2 DEF CreateRecipe, Creating, Exit
    <3>2. command.name = "init" /\ ("force" \in command.given \/ found = Nowhere)
      BY <1>2, <3>1 DEF Creating
    <3>3. exitStatus' = FAILURE => recipeFile' \in {recipeFile, HalfWritten}
      BY <2>2 DEF CreateRecipe, Exit, KeepRecipe, SUCCESS, FAILURE
    <3>4. exitStatus' = SUCCESS => recipeFile' = Written(command)
      BY <2>2 DEF CreateRecipe, Exit, SUCCESS, FAILURE
    <3> QED
      BY <3>1, <3>2, <3>3, <3>4, WordsAreWritten DEF Creating
  <2>3. CASE Meanwhile \/ UNCHANGED commandVars
    BY <1>2, <2>3 DEF Meanwhile, commandVars, Creating
  <2> QED
    BY <1>2, <2>1, <2>2, <2>3
<1>3. CommandSpec => []Creating
  BY <1>1, <1>2, PTL DEF CommandSpec
<1>4. Creating /\ [CommandStep]_commandVars => [Given /\ Over]_commandVars
  BY <1>2
<1> QED
  BY <1>3, <1>4, PTL DEF CommandSpec, CommandsKeepFiles

-----------------------------------------------------------------------------
(* Layers: what the files that are merged say of a setting.                *)

\* A map is no leaf.
LEMMA MapFacts ==
  /\ \A f : IsMap(Map(f)) /\ Map(f).map = f
  /\ \A x : ~IsMap(Leaf(x))
BY DEF IsMap, Map, Leaf

Scalars == {Leaf(x) : x \in Leaves}
Sections(S) == {Map(values) : values \in UNION {[keys -> S] : keys \in SUBSET Settings}}
NestedUpTo(f, d) ==
  /\ f = [i \in 0..d |-> f[i]] /\ f[0] = Scalars
  /\ \A i \in 0..d - 1 : f[i + 1] = f[i] \cup Sections(f[i])

\* Maps can be nested to any depth.
LEMMA NestedExists ==
  ASSUME NEW d \in Nat
  PROVE  \E f : NestedUpTo(f, d)
<1> DEFINE Good == {n \in Nat : \E f : NestedUpTo(f, n)}
<1>1. 0 \in Good
  <2>1. NestedUpTo([i \in 0..0 |-> Scalars], 0)
    BY DEF NestedUpTo
  <2> QED
    BY <2>1
<1>2. ASSUME NEW n \in Nat, n \in Good PROVE n + 1 \in Good
  <2>1. PICK f : NestedUpTo(f, n)
    BY <1>2
  <2>2. PICK next : next = f[n] \cup Sections(f[n])
    OBVIOUS
  <2>3. PICK h : h = [i \in 0..n + 1 |-> IF i = n + 1 THEN next ELSE f[i]]
    OBVIOUS
  <2>4. h[n + 1] = next /\ \A i \in 0..n : h[i] = f[i]
    BY <2>3
  <2>5. h = [i \in 0..n + 1 |-> h[i]] /\ h[0] = Scalars
    BY <2>1, <2>3, <2>4 DEF NestedUpTo
  <2>6. ASSUME NEW i \in 0..(n + 1) - 1 PROVE h[i + 1] = h[i] \cup Sections(h[i])
    <3>1. CASE i = n
      <4>1. h[i] = f[n] /\ h[i + 1] = next
        BY <2>4, <3>1
      <4> QED
        BY <2>2, <4>1
    <3>2. CASE i \in 0..n - 1
      <4>1. h[i] = f[i] /\ h[i + 1] = f[i + 1]
        BY <2>4, <3>2
      <4>2. f[i + 1] = f[i] \cup Sections(f[i])
        BY <2>1, <3>2 DEF NestedUpTo
      <4> QED
        BY <4>1, <4>2
    <3> QED
      BY <3>1, <3>2
  <2>7. NestedUpTo(h, n + 1)
    BY <2>5, <2>6 DEF NestedUpTo
  <2> QED
    BY <2>7
<1>3. Nat \subseteq Good
  <2> HIDE DEF Good
  <2> QED
    BY <1>1, <1>2, SetInduction
<1> QED
  BY <1>3

\* Nested is defined level by level.
LEMMA NestedIs ==
  /\ Nested[0] = Scalars
  /\ \A n \in 1..Depth : Nested[n] = Nested[n - 1] \cup Sections(Nested[n - 1])
<1>1. PICK g : NestedUpTo(g, Depth)
  BY LayerAssumption, NestedExists
<1> DEFINE Fix(h) == h = [n \in 0..Depth |->
                            IF n = 0 THEN Scalars ELSE h[n - 1] \cup Sections(h[n - 1])]
<1>2. Fix(g)
  <2>1. ASSUME NEW n \in 0..Depth
        PROVE  g[n] = IF n = 0 THEN Scalars ELSE g[n - 1] \cup Sections(g[n - 1])
    <3>1. CASE n = 0
      BY <1>1, <3>1 DEF NestedUpTo
    <3>2. CASE n # 0
      <4>1. n - 1 \in 0..Depth - 1 /\ (n - 1) + 1 = n
        BY <3>2, LayerAssumption
      <4>2. g[(n - 1) + 1] = g[n - 1] \cup Sections(g[n - 1])
        BY <1>1, <4>1 DEF NestedUpTo
      <4> QED
        BY <3>2, <4>1, <4>2
    <3> QED
      BY <3>1, <3>2
  <2>2. g = [i \in 0..Depth |-> g[i]]
    BY <1>1 DEF NestedUpTo
  <2> QED
    BY <2>1, <2>2
<1>3. Nested = CHOOSE h : Fix(h)
  BY DEF Nested, Scalars, Sections
<1>4. Fix(Nested)
  <2> HIDE DEF Fix
  <2> QED
    BY <1>2, <1>3
<1>5. Depth \in Nat
  BY LayerAssumption
<1>6. PICK N : N = Nested
  OBVIOUS
<1>7. N[0] = Scalars /\ \A n \in 1..Depth : N[n] = N[n - 1] \cup Sections(N[n - 1])
  <2>1. N = [n \in 0..Depth |-> IF n = 0 THEN Scalars ELSE N[n - 1] \cup Sections(N[n - 1])]
    BY <1>4, <1>6
  <2>2. \A n \in 0..Depth : N[n] = IF n = 0 THEN Scalars ELSE N[n - 1] \cup Sections(N[n - 1])
    BY <2>1, Zenon
  <2>3. 0 \in 0..Depth /\ \A n \in 1..Depth : n \in 0..Depth /\ n # 0
    BY <1>5
  <2> QED
    BY <2>2, <2>3, Zenon
<1> QED
  BY <1>6, <1>7

\* The parts of a value.
LEMMA PartsOf ==
  ASSUME NEW n \in 0..Depth
  PROVE  \A v \in Nested[n] :
           IsMap(v) => /\ n \in 1..Depth /\ n - 1 \in 0..Depth /\ v = Map(v.map)
                       /\ \E keys \in SUBSET Settings : v.map \in [keys -> Nested[n - 1]]
<1> DEFINE Fine(m) == \A v \in Nested[m] :
             IsMap(v) => /\ m \in 1..Depth /\ m - 1 \in 0..Depth /\ v = Map(v.map)
                         /\ \E keys \in SUBSET Settings : v.map \in [keys -> Nested[m - 1]]
           Good == {m \in Nat : m <= Depth => Fine(m)}
<1>1. 0 \in Good
  BY NestedIs, MapFacts DEF Scalars
<1>2. ASSUME NEW m \in Nat, m \in Good PROVE m + 1 \in Good
  <2>1. SUFFICES ASSUME m + 1 <= Depth, NEW v \in Nested[m + 1], IsMap(v)
                 PROVE  /\ m + 1 \in 1..Depth /\ (m + 1) - 1 \in 0..Depth /\ v = Map(v.map)
                        /\ \E keys \in SUBSET Settings : v.map \in [keys -> Nested[(m + 1) - 1]]
    OBVIOUS
  <2>2. m + 1 \in 1..Depth /\ (m + 1) - 1 = m /\ m <= Depth /\ m \in 0..Depth
    BY <2>1, LayerAssumption
  <2>3. Nested[m + 1] = Nested[m] \cup Sections(Nested[m])
    BY <2>2, NestedIs
  <2>4. CASE v \in Sections(Nested[m])
    <3>1. PICK keys \in SUBSET Settings : \E values \in [keys -> Nested[m]] : v = Map(values)
      BY <2>4 DEF Sections
    <3>2. PICK values \in [keys -> Nested[m]] : v = Map(values)
      BY <3>1
    <3>3. v.map = values /\ v = Map(v.map)
      BY <3>2, MapFacts
    <3> QED
      BY <2>2, <3>2, <3>3
  <2>5. CASE v \in Nested[m]
    <3>1. /\ m \in 1..Depth /\ m - 1 \in 0..Depth /\ v = Map(v.map)
          /\ \E keys \in SUBSET Settings : v.map \in [keys -> Nested[m - 1]]
      BY <1>2, <2>1, <2>2, <2>5
    <3>2. Nested[m - 1] \subseteq Nested[m]
      BY <3>1, NestedIs
    <3>3. PICK keys \in SUBSET Settings : v.map \in [keys -> Nested[m - 1]]
      BY <3>1
    <3>4. v.map \in [keys -> Nested[m]]
      BY <3>2, <3>3
    <3> QED
      BY <2>2, <3>1, <3>4
  <2> QED
    BY <2>3, <2>4, <2>5
<1>3. Nat \subseteq Good
  <2> HIDE DEF Good
  <2> QED
    BY <1>1, <1>2, SetInduction
<1> QED
  BY <1>3

\* A map of nested values is nested.
LEMMA MapIsNested ==
  ASSUME NEW n \in 1..Depth, NEW keys \in SUBSET Settings, NEW f \in [keys -> Nested[n - 1]]
  PROVE  Map(f) \in Nested[n]
BY NestedIs DEF Sections

\* One level of deep_merge, where g merges what is in both.
MergeOnce(g, b, o) ==
  IF IsMap(b) /\ IsMap(o)
  THEN Map([k \in DOMAIN b.map \cup DOMAIN o.map |->
              IF k \notin DOMAIN o.map THEN b.map[k]
              ELSE IF k \notin DOMAIN b.map THEN o.map[k]
              ELSE g[b.map[k]][o.map[k]]])
  ELSE o
Level(g, n) == [b \in Nested[n] |-> [o \in Nested[n] |-> MergeOnce(g, b, o)]]
MergesUpTo(f, d) ==
  /\ f = [n \in 0..d |-> f[n]]
  /\ \A n \in 0..d : f[n] = Level(f[n - 1], n)

\* Of leaves the second is what is merged.
LEMMA ScalarLevel ==
  ASSUME NEW g, NEW h
  PROVE  Level(g, 0) = Level(h, 0)
<1>1. \A b \in Nested[0] : ~IsMap(b)
  BY NestedIs, MapFacts DEF Scalars
<1>2. \A b \in Nested[0], o \in Nested[0] : MergeOnce(g, b, o) = o /\ MergeOnce(h, b, o) = o
  BY <1>1 DEF MergeOnce
<1> QED
  BY <1>2, Zenon DEF Level

\* Maps of any depth can be merged.
LEMMA MergesExist ==
  ASSUME NEW d \in Nat
  PROVE  \E f : MergesUpTo(f, d)
<1> DEFINE Good == {n \in Nat : \E f : MergesUpTo(f, n)}
<1>1. 0 \in Good
  <2>1. PICK level : level = Level(0, 0)
    OBVIOUS
  <2>2. PICK f : f = [n \in 0..0 |-> level]
    OBVIOUS
  <2>3. f = [n \in 0..0 |-> f[n]] /\ f[0] = level
    BY <2>2
  <2>4. f[0] = Level(f[0 - 1], 0)
    BY <2>1, <2>3, ScalarLevel
  <2>5. MergesUpTo(f, 0)
    <3>1. \A n \in 0..0 : n = 0
      OBVIOUS
    <3> QED
      BY <2>3, <2>4, <3>1, Zenon DEF MergesUpTo
  <2> QED
    BY <2>5
<1>2. ASSUME NEW n \in Nat, n \in Good PROVE n + 1 \in Good
  <2>1. PICK f : MergesUpTo(f, n)
    BY <1>2
  <2>2. PICK next : next = Level(f[n], n + 1)
    OBVIOUS
  <2>3. PICK h : h = [i \in 0..n + 1 |-> IF i = n + 1 THEN next ELSE f[i]]
    OBVIOUS
  <2>4. h[n + 1] = next /\ (\A i \in 0..n : h[i] = f[i]) /\ h = [i \in 0..n + 1 |-> h[i]]
    BY <2>3
  <2>5. ASSUME NEW i \in 0..n + 1 PROVE h[i] = Level(h[i - 1], i)
    <3>1. CASE i = n + 1
      <4>1. i - 1 = n /\ n \in 0..n
        BY <3>1
      <4>2. h[i - 1] = f[n]
        BY <2>4, <4>1
      <4> QED
        BY <2>2, <2>4, <3>1, <4>2
    <3>2. CASE i \in 1..n
      <4>1. i \in 0..n /\ i - 1 \in 0..n
        BY <3>2
      <4>2. h[i] = f[i] /\ h[i - 1] = f[i - 1]
        BY <2>4, <4>1
      <4>3. f[i] = Level(f[i - 1], i)
        BY <2>1, <4>1 DEF MergesUpTo
      <4> QED
        BY <4>2, <4>3
    <3>3. CASE i = 0
      <4>0. 0 \in 0..n
        OBVIOUS
      <4>1. h[0] = f[0] /\ f[0] = Level(f[0 - 1], 0)
        BY <2>1, <2>4, <4>0, Zenon DEF MergesUpTo
      <4>2. Level(f[0 - 1], 0) = Level(h[0 - 1], 0)
        BY ScalarLevel
      <4> QED
        BY <3>3, <4>1, <4>2
    <3> QED
      BY <3>1, <3>2, <3>3
  <2>6. MergesUpTo(h, n + 1)
    BY <2>4, <2>5 DEF MergesUpTo
  <2> QED
    BY <2>6
<1>3. Nat \subseteq Good
  <2> HIDE DEF Good
  <2> QED
    BY <1>1, <1>2, SetInduction
<1> QED
  BY <1>3

\* DeepMerge is defined level by level.
LEMMA MergeIs ==
  \E f : /\ MergesUpTo(f, Depth)
         /\ \A b, o : DeepMerge(b, o) = f[Depth][b][o]
<1>1. PICK g : MergesUpTo(g, Depth)
  BY LayerAssumption, MergesExist
<1> DEFINE Fix(h) == h = [n \in 0..Depth |-> [b \in Nested[n] |-> [o \in Nested[n] |->
                            IF IsMap(b) /\ IsMap(o)
                            THEN Map([k \in DOMAIN b.map \cup DOMAIN o.map |->
                                        IF k \notin DOMAIN o.map THEN b.map[k]
                                        ELSE IF k \notin DOMAIN b.map THEN o.map[k]
                                        ELSE h[n - 1][b.map[k]][o.map[k]]])
                            ELSE o]]]
           Same(h) == h = [n \in 0..Depth |-> Level(h[n - 1], n)]
<1>2. \A h : Fix(h) <=> Same(h)
  BY DEF Level, MergeOnce
<1>3. Same(g)
  <2>1. g = [n \in 0..Depth |-> g[n]] /\ \A n \in 0..Depth : g[n] = Level(g[n - 1], n)
    BY <1>1 DEF MergesUpTo
  <2> QED
    BY <2>1, Zenon
<1>4. PICK f : f = CHOOSE h : Fix(h)
  OBVIOUS
<1>5. \A b, o : DeepMerge(b, o) = f[Depth][b][o]
  BY <1>4 DEF DeepMerge
<1>6. Same(f)
  <2> HIDE DEF Fix, Same
  <2> QED
    BY <1>2, <1>3, <1>4
<1>7. MergesUpTo(f, Depth)
  <2>1. \A n \in 0..Depth : f[n] = Level(f[n - 1], n)
    BY <1>6, Zenon
  <2>2. f = [n \in 0..Depth |-> f[n]]
    BY <1>6, <2>1, Zenon
  <2> QED
    BY <2>1, <2>2 DEF MergesUpTo
<1> QED
  BY <1>5, <1>7

Agrees(value, told) == IF IsMap(value) THEN IsMap(told) ELSE told = value

\* What is merged of two values.
LEMMA MergeFacts ==
  ASSUME NEW f, MergesUpTo(f, Depth), NEW n \in 0..Depth, NEW b \in Nested[n], NEW o \in Nested[n]
  PROVE  /\ f[n][b][o] = MergeOnce(f[n - 1], b, o)
         /\ Agrees(o, f[n][b][o])
<1>1. f[n] = Level(f[n - 1], n)
  BY DEF MergesUpTo
<1>2. PICK g : g = f[n - 1]
  OBVIOUS
<1>3. Level(g, n)[b][o] = MergeOnce(g, b, o)
  BY Zenon DEF Level
<1>4. Agrees(o, MergeOnce(g, b, o))
  BY MapFacts DEF Agrees, MergeOnce
<1> QED
  BY <1>1, <1>2, <1>3, <1>4

\* What is merged is nested no deeper.
LEMMA MergeTyped ==
  ASSUME NEW f, MergesUpTo(f, Depth), NEW n \in 0..Depth
  PROVE  \A b, o \in Nested[n] : f[n][b][o] \in Nested[n]
<1> DEFINE Good == {m \in Nat : m <= Depth => \A b, o \in Nested[m] : f[m][b][o] \in Nested[m]}
<1>1. 0 \in Good
  <2>1. ASSUME NEW b \in Nested[0], NEW o \in Nested[0] PROVE f[0][b][o] \in Nested[0]
    <3>1. ~IsMap(b) /\ 0 \in 0..Depth
      BY NestedIs, MapFacts, LayerAssumption DEF Scalars
    <3>2. f[0][b][o] = MergeOnce(f[0 - 1], b, o)
      BY <3>1, MergeFacts
    <3> QED
      BY <3>1, <3>2 DEF MergeOnce
  <2> QED
    BY <2>1
<1>2. ASSUME NEW m \in Nat, m \in Good PROVE m + 1 \in Good
  <2>1. SUFFICES ASSUME m + 1 <= Depth, NEW b \in Nested[m + 1], NEW o \in Nested[m + 1]
                 PROVE  f[m + 1][b][o] \in Nested[m + 1]
    OBVIOUS
  <2>2. /\ m + 1 \in 1..Depth /\ (m + 1) - 1 = m /\ m <= Depth /\ m \in 0..Depth
        /\ m + 1 \in 0..Depth
    BY <2>1, LayerAssumption
  <2>3. f[m + 1][b][o] = MergeOnce(f[(m + 1) - 1], b, o)
    BY <2>2, MergeFacts
  <2>4. CASE ~(IsMap(b) /\ IsMap(o))
    BY <2>3, <2>4 DEF MergeOnce
  <2>5. CASE IsMap(b) /\ IsMap(o)
    <3>1. PICK j \in SUBSET Settings : b.map \in [j -> Nested[(m + 1) - 1]]
      BY <2>2, <2>5, PartsOf
    <3>2. PICK k \in SUBSET Settings : o.map \in [k -> Nested[(m + 1) - 1]]
      BY <2>2, <2>5, PartsOf
    <3>3. PICK x, y, g : x = b.map /\ y = o.map /\ g = f[m]
      OBVIOUS
    <3>4. x \in [j -> Nested[m]] /\ y \in [k -> Nested[m]]
      BY <2>2, <3>1, <3>2, <3>3
    <3>5. \A u, v \in Nested[m] : g[u][v] \in Nested[m]
      BY <1>2, <2>2, <3>3
    <3>6. PICK all : all = [i \in j \cup k |->
                              IF i \notin k THEN x[i] ELSE IF i \notin j THEN y[i] ELSE g[x[i]][y[i]]]
      OBVIOUS
    <3>7. all \in [j \cup k -> Nested[m]] /\ j \cup k \in SUBSET Settings
      BY <3>4, <3>5, <3>6
    <3>8. f[m + 1][b][o] = Map(all)
      <4>1. DOMAIN x = j /\ DOMAIN y = k
        BY <3>4
      <4> QED
        BY <2>2, <2>3, <2>5, <3>3, <3>6, <4>1 DEF MergeOnce
    <3> QED
      BY <2>2, <3>7, <3>8, MapIsNested
  <2> QED
    BY <2>4, <2>5
<1>3. Nat \subseteq Good
  <2> HIDE DEF Good
  <2> QED
    BY <1>1, <1>2, SetInduction
<1> QED
  BY <1>3

\* One key of what is merged.
LEMMA MergedKey ==
  ASSUME NEW f, MergesUpTo(f, Depth), NEW n \in 0..Depth, NEW b \in Nested[n], NEW o \in Nested[n],
         IsMap(b), IsMap(o), NEW m, m = f[n][b][o]
  PROVE  /\ IsMap(m) /\ DOMAIN m.map = DOMAIN b.map \cup DOMAIN o.map
         /\ \A k \in DOMAIN o.map : k \notin DOMAIN b.map => m.map[k] = o.map[k]
         /\ \A k \in DOMAIN b.map : k \notin DOMAIN o.map => m.map[k] = b.map[k]
         /\ \A k \in DOMAIN b.map \cap DOMAIN o.map : m.map[k] = f[n - 1][b.map[k]][o.map[k]]
         /\ n - 1 \in 0..Depth
         /\ \A k \in DOMAIN b.map : b.map[k] \in Nested[n - 1]
         /\ \A k \in DOMAIN o.map : o.map[k] \in Nested[n - 1]
<1>1. m = MergeOnce(f[n - 1], b, o)
  BY MergeFacts
<1>2. PICK x, y, g : x = b.map /\ y = o.map /\ g = f[n - 1]
  OBVIOUS
<1>3. PICK all : all = [k \in DOMAIN x \cup DOMAIN y |->
                          IF k \notin DOMAIN y THEN x[k]
                          ELSE IF k \notin DOMAIN x THEN y[k] ELSE g[x[k]][y[k]]]
  OBVIOUS
<1>4. m = Map(all)
  BY <1>1, <1>2, <1>3 DEF MergeOnce
<1>5. IsMap(m) /\ m.map = all
  BY <1>4, MapFacts
<1>6. n - 1 \in 0..Depth
  BY PartsOf
<1>7. PICK j \in SUBSET Settings : x \in [j -> Nested[n - 1]]
  BY <1>2, PartsOf
<1>8. PICK k \in SUBSET Settings : y \in [k -> Nested[n - 1]]
  BY <1>2, PartsOf
<1>9. DOMAIN x = j /\ DOMAIN y = k
  BY <1>7, <1>8
<1>10. DOMAIN all = j \cup k
  BY <1>3, <1>9
<1>11. /\ \A i \in k : i \notin j => all[i] = y[i]
       /\ \A i \in j : i \notin k => all[i] = x[i]
       /\ \A i \in j \cap k : all[i] = g[x[i]][y[i]]
  BY <1>3, <1>9
<1>12. /\ \A i \in k : i \notin j => m.map[i] = y[i]
       /\ \A i \in j : i \notin k => m.map[i] = x[i]
       /\ \A i \in j \cap k : m.map[i] = g[x[i]][y[i]]
  BY <1>5, <1>11
<1>13. DOMAIN m.map = j \cup k
  BY <1>5, <1>10
<1>14. \A i \in DOMAIN y : i \notin DOMAIN x => m.map[i] = y[i]
  BY <1>9, <1>12
<1>15. \A i \in DOMAIN x : i \notin DOMAIN y => m.map[i] = x[i]
  BY <1>9, <1>12
<1>16. \A i \in DOMAIN x \cap DOMAIN y : m.map[i] = g[x[i]][y[i]]
  BY <1>9, <1>12
<1>17. DOMAIN m.map = DOMAIN x \cup DOMAIN y
  BY <1>9, <1>13
<1>18. /\ \A i \in DOMAIN x : x[i] \in Nested[n - 1]
       /\ \A i \in DOMAIN y : y[i] \in Nested[n - 1]
  BY <1>7, <1>8
<1> QED
  BY <1>2, <1>5, <1>6, <1>14, <1>15, <1>16, <1>17, <1>18, Zenon

\* Two maps merge into a map.
LEMMA MergeIsMap ==
  ASSUME NEW b \in Nested[Depth], NEW o \in Nested[Depth], IsMap(b), IsMap(o)
  PROVE  DeepMerge(b, o) \in Nested[Depth] /\ IsMap(DeepMerge(b, o))
<1>0. Depth \in 0..Depth /\ Depth \in Nat
  BY LayerAssumption
<1>1. PICK f : MergesUpTo(f, Depth) /\ \A x, y : DeepMerge(x, y) = f[Depth][x][y]
  BY MergeIs
<1>2. PICK m : m = f[Depth][b][o]
  OBVIOUS
<1>3. m \in Nested[Depth] /\ IsMap(m)
  BY <1>0, <1>1, <1>2, MergeTyped, MergedKey
<1> QED
  BY <1>1, <1>2, <1>3

\* What a configuration says of a path once one more file is merged over it.
LEMMA OneMoreLayer ==
  ASSUME NEW b \in Nested[Depth], NEW o \in Nested[Depth], IsMap(b), IsMap(o), NEW path \in KeyPaths,
         NEW m, m = DeepMerge(b, o)
  PROVE  /\ m \in Nested[Depth] /\ IsMap(m)
         /\ Says(o, path) => Says(m, path) /\ Agrees(Told(o, path), Told(m, path))
         /\ Cuts(o, path) => ~Says(m, path)
         /\ ~Says(o, path) /\ ~Cuts(o, path) =>
              /\ Says(m, path) <=> Says(b, path)
              /\ Says(b, path) => Told(m, path) = Told(b, path)
<1>0. Depth \in 0..Depth /\ Depth \in Nat
  BY LayerAssumption
<1>1. PICK f : MergesUpTo(f, Depth) /\ \A x, y : DeepMerge(x, y) = f[Depth][x][y]
  BY MergeIs
<1>2. m = f[Depth][b][o]
  BY <1>1
<1>3. m \in Nested[Depth]
  BY <1>0, <1>1, <1>2, MergeTyped
<1>4. PICK e : e = Depth - 1
  OBVIOUS
<1>5. /\ IsMap(m) /\ DOMAIN m.map = DOMAIN b.map \cup DOMAIN o.map
      /\ \A k \in DOMAIN o.map : k \notin DOMAIN b.map => m.map[k] = o.map[k]
      /\ \A k \in DOMAIN b.map : k \notin DOMAIN o.map => m.map[k] = b.map[k]
      /\ \A k \in DOMAIN b.map \cap DOMAIN o.map : m.map[k] = f[e][b.map[k]][o.map[k]]
      /\ e \in 0..Depth
      /\ \A k \in DOMAIN b.map : b.map[k] \in Nested[e]
      /\ \A k \in DOMAIN o.map : o.map[k] \in Nested[e]
  BY <1>0, <1>1, <1>2, <1>4, MergedKey
<1>6. \A k \in DOMAIN b.map \cap DOMAIN o.map : Agrees(o.map[k], m.map[k])
  BY <1>1, <1>5, MergeFacts
<1>7. CASE \E k \in Settings : path = <<k>>
  <2>1. PICK k \in Settings : path = <<k>>
    BY <1>7
  <2>2. \A v : /\ Says(v, path) <=> k \in DOMAIN v.map
               /\ ~Cuts(v, path) /\ Told(v, path) = v.map[k]
    BY <2>1 DEF Says, Cuts, Told
  <2>3. /\ Says(b, path) <=> k \in DOMAIN b.map
        /\ Says(o, path) <=> k \in DOMAIN o.map
        /\ Says(m, path) <=> k \in DOMAIN m.map
    BY <2>2
  <2>4. /\ ~Cuts(o, path)
        /\ Told(b, path) = b.map[k] /\ Told(o, path) = o.map[k] /\ Told(m, path) = m.map[k]
    BY <2>2
  <2>5. Agrees(o.map[k], o.map[k])
    BY DEF Agrees
  <2>6. CASE k \in DOMAIN o.map
    <3>1. Agrees(o.map[k], m.map[k]) /\ k \in DOMAIN m.map
      BY <1>5, <1>6, <2>5, <2>6
    <3> QED
      BY <1>3, <1>5, <2>3, <2>4, <2>6, <3>1
  <2>7. CASE k \notin DOMAIN o.map
    <3>1. /\ k \in DOMAIN m.map <=> k \in DOMAIN b.map
          /\ k \in DOMAIN b.map => m.map[k] = b.map[k]
      BY <1>5, <2>7
    <3> QED
      BY <1>3, <1>5, <2>3, <2>4, <2>7, <3>1
  <2> QED
    BY <2>6, <2>7
<1>8. CASE \E k, l \in Settings : path = <<k, l>>
  <2>1. PICK k \in Settings, l \in Settings : path = <<k, l>>
    BY <1>8
  <2>0. path[1] = k /\ path[2] = l /\ Len(path) = 2
    BY <2>1
  <2>2. \A v : /\ Says(v, path) <=> k \in DOMAIN v.map /\ IsMap(v.map[k]) /\ l \in DOMAIN v.map[k].map
               /\ Cuts(v, path) <=> k \in DOMAIN v.map /\ ~IsMap(v.map[k])
               /\ Told(v, path) = v.map[k].map[l]
    BY <2>0 DEF Says, Cuts, Told
  <2>3. PICK x, y, z : x = b.map[k] /\ y = o.map[k] /\ z = m.map[k]
    OBVIOUS
  <2>4. /\ Says(b, path) <=> k \in DOMAIN b.map /\ IsMap(x) /\ l \in DOMAIN x.map
        /\ Says(o, path) <=> k \in DOMAIN o.map /\ IsMap(y) /\ l \in DOMAIN y.map
        /\ Says(m, path) <=> k \in DOMAIN m.map /\ IsMap(z) /\ l \in DOMAIN z.map
        /\ Cuts(o, path) <=> k \in DOMAIN o.map /\ ~IsMap(y)
    BY <2>2, <2>3
  <2>5. Told(b, path) = x.map[l] /\ Told(o, path) = y.map[l] /\ Told(m, path) = z.map[l]
    BY <2>2, <2>3
  <2>6. Agrees(y.map[l], y.map[l])
    BY DEF Agrees
  <2>7. CASE k \notin DOMAIN o.map
    <3>1. /\ k \in DOMAIN m.map <=> k \in DOMAIN b.map
          /\ k \in DOMAIN b.map => z = x
      BY <1>5, <2>3, <2>7
    <3> QED
      BY <1>3, <1>5, <2>4, <2>5, <2>7, <3>1
  <2>8. CASE k \in DOMAIN o.map /\ (k \notin DOMAIN b.map \/ ~(IsMap(x) /\ IsMap(y)))
    <3>1. k \in DOMAIN m.map
      BY <1>5, <2>8
    <3>2. z = y
      <4>1. CASE k \notin DOMAIN b.map
        BY <1>5, <2>3, <2>8, <4>1
      <4>2. CASE k \in DOMAIN b.map
        <5>1. x \in Nested[e] /\ y \in Nested[e] /\ z = f[e][x][y]
          BY <1>5, <2>3, <2>8, <4>2
        <5>2. z = MergeOnce(f[e - 1], x, y)
          BY <1>1, <1>5, <5>1, MergeFacts
        <5> QED
          BY <2>8, <4>2, <5>2 DEF MergeOnce
      <4> QED
        BY <4>1, <4>2
    <3> QED
      BY <1>3, <1>5, <2>4, <2>5, <2>6, <2>8, <3>1, <3>2
  <2>9. CASE k \in DOMAIN o.map /\ k \in DOMAIN b.map /\ IsMap(x) /\ IsMap(y)
    <3>1. x \in Nested[e] /\ y \in Nested[e] /\ z = f[e][x][y] /\ k \in DOMAIN m.map
      BY <1>5, <2>3, <2>9
    <3>2. /\ IsMap(z) /\ DOMAIN z.map = DOMAIN x.map \cup DOMAIN y.map
          /\ \A i \in DOMAIN y.map : i \notin DOMAIN x.map => z.map[i] = y.map[i]
          /\ \A i \in DOMAIN x.map : i \notin DOMAIN y.map => z.map[i] = x.map[i]
          /\ \A i \in DOMAIN x.map \cap DOMAIN y.map : z.map[i] = f[e - 1][x.map[i]][y.map[i]]
          /\ e - 1 \in 0..Depth
          /\ \A i \in DOMAIN x.map : x.map[i] \in Nested[e - 1]
          /\ \A i \in DOMAIN y.map : y.map[i] \in Nested[e - 1]
      BY <1>1, <1>5, <2>9, <3>1, MergedKey
    <3>3. \A i \in DOMAIN x.map \cap DOMAIN y.map : Agrees(y.map[i], z.map[i])
      BY <1>1, <3>2, MergeFacts
    <3>4. l \in DOMAIN y.map => l \in DOMAIN z.map /\ Agrees(y.map[l], z.map[l])
      BY <2>6, <3>2, <3>3
    <3>5. l \notin DOMAIN y.map => /\ l \in DOMAIN z.map <=> l \in DOMAIN x.map
                                   /\ l \in DOMAIN x.map => z.map[l] = x.map[l]
      BY <3>2
    <3> QED
      BY <1>3, <1>5, <2>4, <2>5, <2>9, <3>1, <3>2, <3>4, <3>5
  <2> QED
    BY <2>7, <2>8, <2>9
<1> QED
  BY <1>7, <1>8 DEF KeyPaths

-----------------------------------------------------------------------------
AnyContent == Nested[Depth] \cup {Leaf("missing"), Leaf("broken")}
LayerSpec == LayerInit(AnyContent) /\ [][LayerStep]_layerVars

LayersTyped ==
  /\ Len(places) \in Nat /\ \A i \in 1..Len(places) : contents[places[i]] \in AnyContent
  /\ nth \in 0..Len(places)
  /\ merged \in Nested[Depth] /\ IsMap(merged)

\* Of the first n files, i is the last to say something of the path.
LastToTell(n, i, path) ==
  /\ i \in 0..n /\ Says(LayerOf(i), path)
  /\ \A j \in i + 1..n : ~Says(LayerOf(j), path) /\ ~Cuts(LayerOf(j), path)

Standing(n, value, path) ==
  /\ \A i : LastToTell(n, i, path) =>
       Says(value, path) /\ Agrees(Told(LayerOf(i), path), Told(value, path))
  /\ Says(value, path) => \E i : LastToTell(n, i, path)

LayersInv ==
  /\ loading = "loading" => LayersTyped /\ \A path \in KeyPaths : Standing(nth, merged, path)
  /\ loading # "refused" => ConfigIsLayered

\* What is assumed of the built-in configuration.
LEMMA BuiltinFacts ==
  Builtin \in Nested[Depth] /\ IsMap(Builtin) /\ Depth \in 1..Depth /\ Depth \in Nat
<1>1. Depth \in 0..Depth
  BY LayerAssumption
<1>2. Depth \in 1..Depth
  BY <1>1, LayerAssumption, PartsOf
<1> QED
  BY <1>2, LayerAssumption

\* A file that is missing says nothing.
LEMMA OverlayFacts ==
  ASSUME NEW c \in AnyContent
  PROVE  /\ Overlay(c) \in Nested[Depth] /\ IsMap(Overlay(c))
         /\ c = Leaf("missing") => \A path \in KeyPaths : ~Says(Overlay(c), path) /\ ~Cuts(Overlay(c), path)
<1>1. PICK none : none = [k \in {} |-> Builtin]
  OBVIOUS
<1>2. none \in [{} -> Nested[Depth - 1]] /\ {} \in SUBSET Settings /\ DOMAIN none = {}
  BY <1>1
<1>3. Map(none) \in Nested[Depth] /\ IsMap(Map(none)) /\ Map(none).map = none
  BY <1>2, BuiltinFacts, MapIsNested, MapFacts
<1>4. Overlay(c) = IF IsMap(c) THEN c ELSE Map(none)
  BY <1>1 DEF Overlay
<1>5. \A path : ~Says(Map(none), path) /\ ~Cuts(Map(none), path)
  BY <1>2, <1>3 DEF Says, Cuts
<1> QED
  BY <1>3, <1>4, <1>5, MapFacts DEF AnyContent

\* One more file, whether it is there or not.
LEMMA StandingKept ==
  ASSUME NEW n \in Nat, NEW v, NEW w, NEW path, Standing(n, v, path),
         Says(LayerOf(n + 1), path) =>
           Says(w, path) /\ Agrees(Told(LayerOf(n + 1), path), Told(w, path)),
         Cuts(LayerOf(n + 1), path) => ~Says(w, path),
         ~Says(LayerOf(n + 1), path) /\ ~Cuts(LayerOf(n + 1), path) =>
           (Says(w, path) <=> Says(v, path)) /\ (Says(v, path) => Told(w, path) = Told(v, path))
  PROVE  Standing(n + 1, w, path)
<1>1. CASE Says(LayerOf(n + 1), path)
  <2>1. LastToTell(n + 1, n + 1, path)
    BY <1>1 DEF LastToTell
  <2>2. \A i : LastToTell(n + 1, i, path) => i = n + 1
    <3> SUFFICES ASSUME NEW i, LastToTell(n + 1, i, path), i # n + 1 PROVE FALSE
      OBVIOUS
    <3>1. n + 1 \in i + 1..n + 1
      BY DEF LastToTell
    <3> QED
      BY <1>1, <3>1 DEF LastToTell
  <2> QED
    BY <1>1, <2>1, <2>2 DEF Standing
<1>2. CASE ~Says(LayerOf(n + 1), path) /\ Cuts(LayerOf(n + 1), path)
  <2>1. \A i : ~LastToTell(n + 1, i, path)
    <3> SUFFICES ASSUME NEW i, LastToTell(n + 1, i, path) PROVE FALSE
      OBVIOUS
    <3>1. i = n + 1 \/ n + 1 \in i + 1..n + 1
      BY DEF LastToTell
    <3> QED
      BY <1>2, <3>1 DEF LastToTell
  <2> QED
    BY <1>2, <2>1 DEF Standing
<1>3. CASE ~Says(LayerOf(n + 1), path) /\ ~Cuts(LayerOf(n + 1), path)
  <2>1. \A i : LastToTell(n + 1, i, path) <=> LastToTell(n, i, path)
    <3> TAKE i
    <3>1. ASSUME LastToTell(n + 1, i, path) PROVE LastToTell(n, i, path)
      <4>1. i # n + 1
        BY <1>3, <3>1 DEF LastToTell
      <4>2. i \in 0..n /\ \A j \in i + 1..n : j \in i + 1..n + 1
        BY <3>1, <4>1 DEF LastToTell
      <4> QED
        BY <3>1, <4>2 DEF LastToTell
    <3>2. ASSUME LastToTell(n, i, path) PROVE LastToTell(n + 1, i, path)
      <4>1. i \in 0..n + 1 /\ \A j \in i + 1..n + 1 : j \in i + 1..n \/ j = n + 1
        BY <3>2 DEF LastToTell
      <4> QED
        BY <1>3, <3>2, <4>1 DEF LastToTell
    <3> QED
      BY <3>1, <3>2
  <2> QED
    BY <1>3, <2>1 DEF Standing
<1> QED
  BY <1>1, <1>2, <1>3

\* The invariant holds at first.
LEMMA LayersBegin ==
  LayerInit(AnyContent) => LayersTyped /\ \A path \in KeyPaths : Standing(nth, merged, path)
<1> SUFFICES ASSUME LayerInit(AnyContent)
             PROVE  LayersTyped /\ \A path \in KeyPaths : Standing(nth, merged, path)
  OBVIOUS
<1>1. PICK given \in BOOLEAN, home \in BOOLEAN, explicit \in BOOLEAN :
        places = Places(given, home, explicit)
  BY DEF LayerInit
<1>2. Len(places) \in Nat /\ \A i \in 1..Len(places) : places[i] \in ToSet(places)
  <2>1. PICK V : V = {"user_given", "user_legacy", "user_current", "project_legacy",
                      "project_current", "explicit"}
    OBVIOUS
  <2>2. PICK a, b, c : /\ a = UserPlaces(given, home) /\ b = <<"project_legacy", "project_current">>
                       /\ c = IF explicit THEN <<"explicit">> ELSE <<>>
    OBVIOUS
  <2>3. a \in Seq(V) /\ b \in Seq(V) /\ c \in Seq(V)
    <3>1. <<>> \in Seq(V)
      BY EmptySeq
    <3>2. a \in Seq(V)
      <4>1. <<"user_given">> \in Seq(V) /\ <<"user_legacy", "user_current">> \in Seq(V)
        BY <2>1
      <4> QED
        BY <2>2, <3>1, <4>1 DEF UserPlaces
    <3>3. b \in Seq(V)
      BY <2>1, <2>2
    <3>4. c \in Seq(V)
      BY <2>1, <2>2, <3>1
    <3> QED
      BY <3>2, <3>3, <3>4
  <2>4. (a \o b) \o c \in Seq(V)
    BY <2>3, ConcatProperties
  <2>5. places \in Seq(V)
    BY <1>1, <2>2, <2>4 DEF Places
  <2> QED
    BY <2>5 DEF ToSet
<1>3. LayersTyped
  <2>1. \A i \in 1..Len(places) : contents[places[i]] \in AnyContent
    BY <1>2 DEF LayerInit
  <2> QED
    BY <1>2, <2>1, BuiltinFacts DEF LayersTyped, LayerInit
<1>4. ASSUME NEW path \in KeyPaths PROVE Standing(nth, merged, path)
  <2>1. nth = 0 /\ merged = Builtin /\ LayerOf(0) = Builtin
    BY DEF LayerInit, LayerOf
  <2>2. \A i : LastToTell(0, i, path) <=> i = 0 /\ Says(Builtin, path)
    <3>1. \A i : i \in 0..0 <=> i = 0
      OBVIOUS
    <3>2. \A j \in 0 + 1..0 : FALSE
      OBVIOUS
    <3> QED
      BY <2>1, <3>1, <3>2 DEF LastToTell
  <2>3. Agrees(Told(Builtin, path), Told(Builtin, path))
    BY DEF Agrees
  <2> QED
    BY <2>1, <2>2, <2>3 DEF Standing
<1> QED
  BY <1>3, <1>4

\* Looking at one more file keeps it.
LEMMA LayersMerge ==
  ASSUME LayersTyped, \A path \in KeyPaths : Standing(nth, merged, path), Skip \/ Merge
  PROVE  (LayersTyped /\ \A path \in KeyPaths : Standing(nth, merged, path))'
<1>1. CASE Skip \/ Merge
  <2>1. PICK n \in Nat : n = nth
    BY DEF LayersTyped
  <2>2. n + 1 \in 1..Len(places) /\ nth' = n + 1 /\ UNCHANGED <<places, contents, loading>>
    BY <1>1, <2>1 DEF LayersTyped, Skip, Merge, Unread
  <2>3. PICK c \in AnyContent : c = contents[places[n + 1]]
    BY <2>2 DEF LayersTyped
  <2>4. PICK o, b, m : o = Overlay(c) /\ b = merged /\ m = merged'
    OBVIOUS
  <2>5. /\ o \in Nested[Depth] /\ IsMap(o) /\ b \in Nested[Depth] /\ IsMap(b)
        /\ c = Leaf("missing") => \A path \in KeyPaths : ~Says(o, path) /\ ~Cuts(o, path)
    BY <2>4, OverlayFacts DEF LayersTyped
  <2>6. (m = b /\ c = Leaf("missing")) \/ m = DeepMerge(b, o)
    BY <1>1, <2>1, <2>3, <2>4 DEF Skip, Merge
  <2>7. LayerOf(n + 1) = o
    BY <2>3, <2>4 DEF LayerOf
  <2>8. /\ m \in Nested[Depth] /\ IsMap(m)
        /\ \A path \in KeyPaths :
             /\ Says(o, path) => Says(m, path) /\ Agrees(Told(o, path), Told(m, path))
             /\ Cuts(o, path) => ~Says(m, path)
             /\ ~Says(o, path) /\ ~Cuts(o, path) =>
                  /\ Says(m, path) <=> Says(b, path)
                  /\ Says(b, path) => Told(m, path) = Told(b, path)
    <3>1. CASE m = DeepMerge(b, o)
      <4>1. m \in Nested[Depth] /\ IsMap(m)
        BY <2>5, <3>1, MergeIsMap
      <4>2. ASSUME NEW path \in KeyPaths
            PROVE  /\ Says(o, path) => Says(m, path) /\ Agrees(Told(o, path), Told(m, path))
                   /\ Cuts(o, path) => ~Says(m, path)
                   /\ ~Says(o, path) /\ ~Cuts(o, path) =>
                        /\ Says(m, path) <=> Says(b, path)
                        /\ Says(b, path) => Told(m, path) = Told(b, path)
        BY <2>5, <3>1, OneMoreLayer
      <4> QED
        BY <4>1, <4>2
    <3>2. CASE m = b /\ c = Leaf("missing")
      BY <2>5, <3>2
    <3> QED
      BY <2>6, <3>1, <3>2
  <2>9. \A path \in KeyPaths : Standing(n + 1, m, path)
    <3> TAKE path \in KeyPaths
    <3>1. Standing(n, b, path)
      BY <2>1, <2>4
    <3> QED
      BY <2>7, <2>8, <3>1, StandingKept
  <2>10. \A path \in KeyPaths : Standing(nth, merged, path)'
    BY <2>2, <2>4, <2>9 DEF Standing, LastToTell, LayerOf
  <2>11. LayersTyped'
    BY <2>2, <2>4, <2>8 DEF LayersTyped
  <2> QED
    BY <2>10, <2>11
<1> QED
  BY <1>1

\* It says what the property says.
LEMMA StandingIsLayered ==
  LayersTyped /\ (\A path \in KeyPaths : Standing(nth, merged, path)) /\ loading = "loading" =>
    ConfigIsLayered
<1> SUFFICES ASSUME LayersTyped, \A p \in KeyPaths : Standing(nth, merged, p),
                    loading = "loading", NEW path \in KeyPaths
             PROVE  /\ Says(merged, path) <=> ~Removed(path)
                    /\ ~Removed(path) => IF IsMap(Said(path)) THEN IsMap(Told(merged, path))
                                         ELSE Told(merged, path) = Said(path)
  BY DEF ConfigIsLayered
<1>1. PICK n \in Nat : n = nth
  BY DEF LayersTyped
<1>2. Standing(n, merged, path)
  BY <1>1
<1>3. PICK telling, cutting : /\ telling = {i \in 0..n : Says(LayerOf(i), path)}
                              /\ cutting = {i \in 0..n : Cuts(LayerOf(i), path)}
  OBVIOUS
<1>4. PICK last : last = CHOOSE i \in telling : \A j \in telling : j <= i
  OBVIOUS
<1>5. /\ Removed(path) <=> telling = {} \/ \E i \in cutting : i > last
      /\ Said(path) = Told(LayerOf(last), path)
  BY <1>1, <1>3, <1>4 DEF Removed, Said, LastTelling, Telling
<1>6. CASE telling = {}
  <2>1. \A i : ~LastToTell(n, i, path)
    BY <1>3, <1>6 DEF LastToTell
  <2>2. ~Says(merged, path)
    BY <1>2, <2>1 DEF Standing
  <2> QED
    BY <1>5, <1>6, <2>2
<1>7. CASE telling # {}
  <2>1. last \in telling /\ \A j \in telling : j <= last
    <3>1. telling \subseteq 0..n
      BY <1>3
    <3>2. \E i \in telling : \A j \in telling : j <= i
      BY <1>7, <3>1, NatMax
    <3> QED
      BY <1>4, <3>2
  <2>2. \A i : LastToTell(n, i, path) => i = last
    <3> SUFFICES ASSUME NEW i, LastToTell(n, i, path) PROVE i = last
      OBVIOUS
    <3>1. i \in telling /\ i \in 0..n /\ last \in 0..n
      BY <1>3, <2>1 DEF LastToTell
    <3>2. i < last => last \in i + 1..n
      BY <3>1
    <3>3. Says(LayerOf(last), path)
      BY <1>3, <2>1
    <3> QED
      BY <2>1, <3>1, <3>2, <3>3 DEF LastToTell
  <2>3. CASE \E i \in cutting : i > last
    <3>1. PICK i \in cutting : i > last
      BY <2>3
    <3>2. i \in last + 1..n /\ Cuts(LayerOf(i), path)
      BY <1>3, <2>1, <3>1
    <3>3. ~LastToTell(n, last, path)
      BY <3>2 DEF LastToTell
    <3>4. ~Says(merged, path)
      BY <1>2, <2>2, <3>3 DEF Standing
    <3> QED
      BY <1>5, <2>3, <3>4
  <2>4. CASE ~ \E i \in cutting : i > last
    <3>1. LastToTell(n, last, path)
      <4>1. ASSUME NEW j \in last + 1..n
            PROVE  ~Says(LayerOf(j), path) /\ ~Cuts(LayerOf(j), path)
        <5>1. j \in 0..n /\ j > last /\ ~(j <= last)
          BY <1>3, <2>1
        <5> QED
          BY <1>3, <2>1, <2>4, <5>1
      <4> QED
        BY <1>3, <2>1, <4>1 DEF LastToTell
    <3>2. Says(merged, path) /\ Agrees(Told(LayerOf(last), path), Told(merged, path))
      BY <1>2, <3>1 DEF Standing
    <3> QED
      BY <1>5, <1>7, <2>4, <3>2 DEF Agrees
  <2> QED
    BY <2>3, <2>4
<1> QED
  BY <1>6, <1>7

\* What the fields of the loaded configuration are: a field of a typed section that is not
\* set is what the built-in configuration says, and everything else is as it was merged.
LEMMA DeserializedFacts ==
  ASSUME NEW m, IsMap(m), WellTyped(m), NEW path \in KeyPaths, NEW d, d = Deserialized(m),
         \A p \in Filled : Says(m, <<p[1]>>)
  PROVE  /\ path \notin Filled =>
              /\ Says(d, path) <=> Says(m, path)
              /\ Says(m, path) => /\ IsMap(Told(d, path)) <=> IsMap(Told(m, path))
                                  /\ ~IsMap(Told(m, path)) => Told(d, path) = Told(m, path)
         /\ path \in Filled =>
              /\ Says(d, path)
              /\ Told(d, path) = IF Unset(m, path) THEN Told(Builtin, path) ELSE Told(m, path)
<1> DEFINE fields(k) == {l \in Settings : <<k, l>> \in Filled}
           Section(k) ==
             Map([l \in DOMAIN m.map[k].map \cup fields(k) |->
                    IF l \in fields(k) /\ Unset(m, <<k, l>>) THEN Told(Builtin, <<k, l>>)
                    ELSE m.map[k].map[l]])
<1>1. /\ d.map = [k \in DOMAIN m.map |-> IF fields(k) = {} THEN m.map[k] ELSE Section(k)]
      /\ DOMAIN d.map = DOMAIN m.map
  BY MapFacts DEF Deserialized
<1>2. ASSUME NEW k \in Settings, fields(k) # {}
      PROVE  k \in DOMAIN m.map /\ IsMap(m.map[k])
  <2>1. PICK l \in Settings : <<k, l>> \in Filled
    BY <1>2
  <2>2. <<k>> \in DOMAIN Types /\ Types[<<k>>] = {} /\ Says(m, <<k>>)
    BY <2>1, LayerAssumption
  <2>3. k \in DOMAIN m.map /\ Told(m, <<k>>) = m.map[k]
    BY <2>2 DEF Says, Told
  <2> QED
    BY <2>2, <2>3 DEF WellTyped
<1>3. ASSUME NEW k
      PROVE  /\ IsMap(Section(k)) /\ DOMAIN Section(k).map = DOMAIN m.map[k].map \cup fields(k)
             /\ \A l \in DOMAIN m.map[k].map \cup fields(k) :
                  Section(k).map[l] =
                    IF l \in fields(k) /\ Unset(m, <<k, l>>) THEN Told(Builtin, <<k, l>>)
                    ELSE m.map[k].map[l]
  BY MapFacts
<1> HIDE DEF Section
<1>4. CASE \E k \in Settings : path = <<k>>
  <2>1. PICK k \in Settings : path = <<k>>
    BY <1>4
  <2>2. path \notin Filled
    <3>1. \A x, y : <<x, y>> # <<k>>
      OBVIOUS
    <3> QED
      BY <2>1, <3>1, LayerAssumption
  <2>3. \A v : /\ Says(v, path) <=> k \in DOMAIN v.map
               /\ Told(v, path) = v.map[k]
    BY <2>1 DEF Says, Told
  <2>4. k \in DOMAIN m.map => d.map[k] = IF fields(k) = {} THEN m.map[k] ELSE Section(k)
    BY <1>1
  <2>5. k \in DOMAIN m.map => /\ IsMap(d.map[k]) <=> IsMap(m.map[k])
                              /\ ~IsMap(m.map[k]) => d.map[k] = m.map[k]
    BY <1>2, <1>3, <2>4
  <2> QED
    BY <1>1, <2>2, <2>3, <2>5
<1>5. CASE \E k, l \in Settings : path = <<k, l>>
  <2>1. PICK k \in Settings, l \in Settings : path = <<k, l>>
    BY <1>5
  <2>0. path[1] = k /\ path[2] = l /\ Len(path) = 2
    BY <2>1
  <2>2. \A v : /\ Says(v, path) <=> k \in DOMAIN v.map /\ IsMap(v.map[k]) /\ l \in DOMAIN v.map[k].map
               /\ Told(v, path) = v.map[k].map[l]
    BY <2>0 DEF Says, Told
  <2>3. path \in Filled <=> l \in fields(k)
    BY <2>1
  <2>4. CASE fields(k) = {}
    <3>1. k \in DOMAIN m.map => d.map[k] = m.map[k]
      BY <1>1, <2>4
    <3> QED
      BY <1>1, <2>2, <2>3, <2>4, <3>1
  <2>5. CASE fields(k) # {}
    <3>1. k \in DOMAIN m.map /\ IsMap(m.map[k]) /\ d.map[k] = Section(k)
      BY <1>1, <1>2, <2>5
    <3>2. /\ Says(d, path) <=> l \in DOMAIN m.map[k].map \cup fields(k)
          /\ Says(m, path) <=> l \in DOMAIN m.map[k].map
      BY <1>1, <1>3, <2>2, <3>1
    <3>3. l \in DOMAIN m.map[k].map \cup fields(k) =>
            Told(d, path) = IF l \in fields(k) /\ Unset(m, path) THEN Told(Builtin, path)
                            ELSE Told(m, path)
      BY <1>3, <2>1, <2>2, <3>1
    <3> QED
      BY <2>3, <3>2, <3>3
  <2> QED
    BY <2>4, <2>5
<1> QED
  BY <1>4, <1>5 DEF KeyPaths

\* A section that the built-in configuration has is never removed.
LEMMA SectionStays ==
  ASSUME LayersTyped, \A path \in KeyPaths : Standing(nth, merged, path), NEW p \in Filled
  PROVE  Says(merged, <<p[1]>>)
<1>1. PICK k \in Settings : p[1] = k /\ <<k>> \in KeyPaths /\ Says(Builtin, <<k>>)
  <2>1. PICK x \in Settings, y \in Settings : p = <<x, y>>
    BY LayerAssumption
  <2> QED
    BY <2>1, LayerAssumption DEF KeyPaths
<1>2. PICK n \in Nat : n = nth
  BY DEF LayersTyped
<1>3. PICK telling : telling = {i \in 0..n : Says(LayerOf(i), <<k>>)}
  OBVIOUS
<1>4. telling \subseteq 0..n /\ telling # {}
  BY <1>1, <1>3 DEF LayerOf
<1>5. PICK i \in telling : \A j \in telling : j <= i
  BY <1>4, NatMax
<1>6. LastToTell(n, i, <<k>>)
  <2>1. \A j \in i + 1..n : j \in 0..n /\ ~(j <= i)
    BY <1>4
  <2>2. \A v : ~Cuts(v, <<k>>)
    BY DEF Cuts
  <2> QED
    BY <1>3, <1>5, <2>1, <2>2 DEF LastToTell
<1> QED
  BY <1>1, <1>2, <1>6 DEF Standing

\* So the configuration that is loaded is layered, as the merged one was.
LEMMA LayersFinish ==
  ASSUME LayersTyped, \A path \in KeyPaths : Standing(nth, merged, path), FinishLoading,
         loading' = "loaded"
  PROVE  ConfigIsLayered'
<1>1. /\ loading = "loading" /\ WellTyped(merged) /\ merged' = Deserialized(merged)
      /\ UNCHANGED <<places, contents, nth>>
  BY DEF FinishLoading
<1>2. ASSUME NEW path \in KeyPaths
      PROVE  IF path \in Filled /\ (Removed(path) \/ (path = IdleCap /\ Said(path) = Leaf(Null)))
             THEN Says(merged', path) /\ Told(merged', path) = Told(Builtin, path)
             ELSE /\ Says(merged', path) <=> ~Removed(path)
                  /\ ~Removed(path) => IF IsMap(Said(path)) THEN IsMap(Told(merged', path))
                                       ELSE Told(merged', path) = Said(path)
  <2>1. /\ Says(merged, path) <=> ~Removed(path)
        /\ ~Removed(path) => IF IsMap(Said(path)) THEN IsMap(Told(merged, path))
                             ELSE Told(merged, path) = Said(path)
    BY <1>1, StandingIsLayered DEF ConfigIsLayered
  <2>2. PICK d : d = merged'
    OBVIOUS
  <2>3. /\ path \notin Filled =>
             /\ Says(d, path) <=> Says(merged, path)
             /\ Says(merged, path) =>
                  /\ IsMap(Told(d, path)) <=> IsMap(Told(merged, path))
                  /\ ~IsMap(Told(merged, path)) => Told(d, path) = Told(merged, path)
        /\ path \in Filled =>
             /\ Says(d, path)
             /\ Told(d, path) = IF Unset(merged, path) THEN Told(Builtin, path)
                                ELSE Told(merged, path)
    BY <1>1, <2>2, SectionStays, DeserializedFacts DEF LayersTyped
  <2>4. Unset(merged, path) <=> Removed(path) \/ (path = IdleCap /\ Said(path) = Leaf(Null))
    BY <2>1, MapFacts DEF Unset
  <2> QED
    BY <2>1, <2>2, <2>3, <2>4
<1>3. \A i : LayerOf(i)' = LayerOf(i)
  BY <1>1 DEF LayerOf
<1>4. ASSUME NEW path
      PROVE  (Removed(path)' <=> Removed(path)) /\ Said(path)' = Said(path)
  <2>1. Telling(path)' = Telling(path)
    BY <1>1, <1>3 DEF Telling
  <2>2. LastTelling(path)' = LastTelling(path)
    BY <2>1 DEF LastTelling
  <2> QED
    BY <1>1, <1>3, <2>1, <2>2 DEF Removed, Said
<1> QED
  BY <1>2, <1>4 DEF ConfigIsLayered

\* Every step keeps the invariant.
LEMMA LayersStep ==
  ASSUME LayersInv, [LayerStep]_layerVars
  PROVE  LayersInv'
<1>1. CASE Skip \/ Merge
  <2>1. loading = "loading" /\ loading' = "loading"
    BY <1>1 DEF Skip, Merge
  <2>2. (LayersTyped /\ \A path \in KeyPaths : Standing(nth, merged, path))'
    BY <1>1, <2>1, LayersMerge DEF LayersInv
  <2>3. (LayersTyped /\ (\A path \in KeyPaths : Standing(nth, merged, path)) /\
           loading = "loading" => ConfigIsLayered)'
    BY StandingIsLayered, PTL
  <2> QED
    BY <2>1, <2>2, <2>3 DEF LayersInv
<1>2. CASE Refuse
  BY <1>2 DEF Refuse, LayersInv
<1>3. CASE FinishLoading
  BY <1>3, LayersFinish DEF FinishLoading, LayersInv
<1>4. CASE UNCHANGED layerVars
  <2>1. LayersTyped' <=> LayersTyped
    BY <1>4 DEF layerVars, LayersTyped
  <2>2. \A i : LayerOf(i)' = LayerOf(i)
    BY <1>4 DEF layerVars, LayerOf
  <2>3. \A path : Standing(nth, merged, path)' <=> Standing(nth, merged, path)
    BY <1>4, <2>2 DEF layerVars, Standing, LastToTell
  <2>4. ASSUME NEW path
        PROVE  (Removed(path)' <=> Removed(path)) /\ Said(path)' = Said(path)
    <3>1. Telling(path)' = Telling(path)
      BY <1>4, <2>2 DEF layerVars, Telling
    <3>2. LastTelling(path)' = LastTelling(path)
      BY <3>1 DEF LastTelling
    <3> QED
      BY <1>4, <2>2, <3>1, <3>2 DEF layerVars, Removed, Said
  <2>5. ConfigIsLayered' <=> ConfigIsLayered
    BY <1>4, <2>4 DEF layerVars, ConfigIsLayered
  <2> QED
    BY <1>4, <2>1, <2>3, <2>5 DEF layerVars, LayersInv
<1> QED
  BY <1>1, <1>2, <1>3, <1>4 DEF LayerStep

\* Whatever files there are and whatever they say, each setting is what the last of them
\* that mentions it says (VerifierConfig::load and deep_merge of config.rs).
THEOREM ConfigIsAlwaysLayered == LayerSpec => []ConfigIsLayered
<1>1. LayerInit(AnyContent) => LayersInv
  BY LayersBegin, StandingIsLayered DEF LayerInit, LayersInv
<1>2. LayersInv /\ [LayerStep]_layerVars => LayersInv'
  BY LayersStep
<1>3. LayersInv => ConfigIsLayered
  BY DEF LayersInv, ConfigIsLayered
<1> QED
  BY <1>1, <1>2, <1>3, PTL DEF LayerSpec

-----------------------------------------------------------------------------
(* SessionDriver: the one failure it keeps is the first of its script.     *)

\* What the latch knows of the script. `failure` holds the earliest position
\* since `armed` that went wrong, and nothing when there is none.
Latch ==
  /\ driven = Len(scenario) /\ armed <= driven
  /\ ~IsFailed => \A i \in armed + 1 .. driven : scenario[i].result \notin Causes
  /\ IsFailed =>
       /\ failure.call \in armed + 1 .. driven
       /\ scenario[failure.call] = [op |-> failure.op, result |-> failure.cause]
       /\ \A i \in armed + 1 .. driven : scenario[i].result \in Causes => failure.call <= i

\* A driver that has failed keeps its failure.
LEMMA FailureFacts ==
  ASSUME MaxDriving \in Nat
  PROVE  /\ NoFailure \notin Failure
         /\ "ok" \notin Causes /\ "skipped" \notin Causes
         /\ \A f \in Failure : f.call \in 1..MaxDriving /\ f.op \in Ops /\ f.cause \in Causes
BY DEF NoFailure, Failure, Causes

\* What a driving call does, apart from which operation it is.
LEMMA DriveFacts ==
  ASSUME Driving
  PROVE  \E op \in Ops, results \in SUBSET (Causes \cup {"ok"}) : Drive(op, results)
<1>1. CASE Command
  BY <1>1 DEF Command, Ops, Causes
<1>2. CASE Wait
  BY <1>2 DEF Wait, Ops, Causes
<1>3. CASE Settle
  BY <1>3 DEF Settle, Ops, Causes
<1> QED
  BY <1>1, <1>2, <1>3 DEF Driving

\* The types of a driver and its script.
LEMMA DriveTypes ==
  ASSUME MaxDriving \in Nat, DriverTypeOK, Latch,
         NEW op \in Ops, NEW results \in SUBSET (Causes \cup {"ok"}),
         Drive(op, results)
  PROVE  DriverTypeOK'
<1>1. /\ driven + 1 \in 1..MaxDriving /\ driven' \in 0..MaxDriving
      /\ armed' \in 0..MaxDriving /\ owner' \in {"driver", "caller", "dropped"}
      /\ UNCHANGED reply
  BY DEF Drive, DriverTypeOK
<1>2. PICK result \in Causes \cup {"ok", "skipped"} :
        /\ scenario' = Append(scenario, [op |-> op, result |-> result])
        /\ \/ UNCHANGED <<failure, seen>>
           \/ /\ seen' = Append(seen, driven + 1)
              /\ UNCHANGED failure \/ (result \in Causes /\ Fail(op, result))
  BY DEF Drive
<1>3. scenario' \in Seq(DrivingCall)
  <2>1. [op |-> op, result |-> result] \in DrivingCall
    BY DEF DrivingCall
  <2> QED
    BY <1>2, <2>1, AppendProperties DEF DriverTypeOK
<1>4. seen' \in Seq(1..MaxDriving)
  <2>1. Append(seen, driven + 1) \in Seq(1..MaxDriving)
    BY <1>1, AppendProperties DEF DriverTypeOK
  <2> QED
    BY <1>2, <2>1 DEF DriverTypeOK
<1>5. failure' \in Failure \cup {NoFailure}
  <2>1. result \in Causes => [call |-> driven + 1, op |-> op, cause |-> result] \in Failure
    BY <1>1 DEF Failure
  <2>2. CASE UNCHANGED failure
    BY <2>2 DEF DriverTypeOK
  <2>3. CASE result \in Causes /\ Fail(op, result)
    BY <2>1, <2>3 DEF Fail, DriverTypeOK
  <2> QED
    BY <1>2, <2>2, <2>3
<1> QED
  BY <1>1, <1>3, <1>4, <1>5 DEF DriverTypeOK

\* A call of the driver keeps the first failure.
LEMMA DriveLatch ==
  ASSUME MaxDriving \in Nat, DriverTypeOK, Latch,
         NEW op \in Ops, NEW results \in SUBSET (Causes \cup {"ok"}),
         Drive(op, results)
  PROVE  Latch'
<1>0. driven \in Nat /\ armed \in Nat /\ scenario \in Seq(DrivingCall)
  BY DEF DriverTypeOK
<1>1. PICK result \in Causes \cup {"ok", "skipped"} :
        /\ scenario' = Append(scenario, [op |-> op, result |-> result])
        /\ \/ IsFailed /\ result = "skipped" /\ UNCHANGED failure
           \/ ~IsFailed /\ result = "ok" /\ UNCHANGED failure
           \/ ~IsFailed /\ result \in Causes
              /\ failure' = [call |-> driven + 1, op |-> op, cause |-> result]
        /\ driven' = driven + 1 /\ armed' = armed
  BY DEF Drive, Fail
<1>2. /\ Len(scenario') = driven + 1
      /\ scenario'[driven + 1] = [op |-> op, result |-> result]
      /\ \A i \in armed + 1 .. driven : scenario'[i] = scenario[i]
  BY <1>0, <1>1 DEF Latch
<1>3. armed + 1 .. driven + 1 = (armed + 1 .. driven) \cup {driven + 1}
  BY <1>0 DEF Latch
<1>4. CASE IsFailed /\ result = "skipped" /\ UNCHANGED failure
  BY <1>0, <1>1, <1>2, <1>3, <1>4, FailureFacts DEF Latch, IsFailed
<1>5. CASE ~IsFailed /\ result = "ok" /\ UNCHANGED failure
  BY <1>0, <1>1, <1>2, <1>3, <1>5, FailureFacts DEF Latch, IsFailed
<1>6. CASE /\ ~IsFailed /\ result \in Causes
           /\ failure' = [call |-> driven + 1, op |-> op, cause |-> result]
  <2>1. failure'.call = driven + 1 /\ failure'.op = op /\ failure'.cause = result
    BY <1>6
  <2>2. \A i \in armed + 1 .. driven : scenario'[i].result \notin Causes
    BY <1>2, <1>6 DEF Latch
  <2>3. scenario'[failure'.call] = [op |-> failure'.op, result |-> failure'.cause]
    BY <1>2, <2>1
  <2>4. \A i \in armed' + 1 .. driven' : scenario'[i].result \in Causes => failure'.call <= i
    <3>1. \A i \in armed + 1 .. driven + 1 : scenario'[i].result \in Causes => i = driven + 1
      BY <1>3, <2>2
    <3>2. armed' = armed /\ driven' = driven + 1 /\ failure'.call = driven + 1
      BY <1>1, <2>1
    <3>3. driven + 1 \in Nat
      BY <1>0
    <3> QED
      BY <3>1, <3>2, <3>3
  <2>5. driven' = Len(scenario') /\ armed' <= driven' /\ failure'.call \in armed' + 1 .. driven'
    BY <1>0, <1>1, <1>2, <2>1 DEF Latch
  <2>6. IsFailed'
    BY <1>0, <2>1 DEF IsFailed, NoFailure
  <2> QED
    BY <2>3, <2>4, <2>5, <2>6 DEF Latch
<1> QED
  BY <1>1, <1>4, <1>5, <1>6

ReadingActions == Read \/ Expect \/ ClearFailure \/ Bypass \/ Finish \/ IntoInner

\* Reading the failure does too.
LEMMA ReadingStep ==
  ASSUME DriverTypeOK, Latch, ReadingActions
  PROVE  DriverTypeOK' /\ Latch'
<1>1. \/ failure \in Failure /\ IsFailed
      \/ failure = NoFailure /\ ~IsFailed
  BY DEF DriverTypeOK, IsFailed
<1>2. reply' \in {Nothing, Obtained, Expectation} \cup {Surfaced(f) : f \in Failure}
  BY <1>1 DEF ReadingActions, Read, Expect, ClearFailure, Bypass, Finish, IntoInner, DriverTypeOK
<1>3. owner' \in {"driver", "caller", "dropped"}
  BY DEF ReadingActions, Read, Expect, ClearFailure, Bypass, Finish, IntoInner, DriverTypeOK
<1>4. CASE ClearFailure
  <2>1. /\ failure' = NoFailure /\ armed' = driven
        /\ UNCHANGED <<driven, seen, scenario>>
    BY <1>4 DEF ClearFailure, Latch
  <2> QED
    BY <1>2, <1>3, <2>1 DEF DriverTypeOK, Latch, IsFailed
<1>5. CASE UNCHANGED <<driven, failure, seen, scenario, armed>>
  BY <1>2, <1>3, <1>5 DEF DriverTypeOK, Latch, IsFailed
<1> QED
  BY <1>4, <1>5 DEF ReadingActions, Read, Expect, Bypass, Finish, IntoInner

\* The driver's counter is the length of the script and its one Option the
\* first failure in it that was not cleared.
THEOREM LatchHolds ==
  ASSUME MaxDriving \in Nat
  PROVE  DriverSpec => [](DriverTypeOK /\ Latch)
<1>1. DriverInit => DriverTypeOK /\ Latch
  BY DEF DriverInit, DriverTypeOK, Latch, IsFailed
<1>2. DriverTypeOK /\ Latch /\ [DriverNext]_driverVars => DriverTypeOK' /\ Latch'
  <2> SUFFICES ASSUME DriverTypeOK, Latch, [DriverNext]_driverVars PROVE DriverTypeOK' /\ Latch'
    OBVIOUS
  <2>1. CASE Driving
    BY <2>1, DriveFacts, DriveTypes, DriveLatch
  <2>2. CASE ReadingActions
    BY <2>2, ReadingStep
  <2>3. CASE UNCHANGED driverVars
    BY <2>3 DEF driverVars, DriverTypeOK, Latch, IsFailed
  <2> QED
    BY <2>1, <2>2, <2>3 DEF DriverNext, ReadingActions
<1> QED
  BY <1>1, <1>2, PTL DEF DriverSpec

-----------------------------------------------------------------------------
\* The session is left where the scenario went wrong: the last call it was
\* given is the one the pending failure names.
THEOREM StopsAtFailure ==
  ASSUME MaxDriving \in Nat
  PROVE  DriverSpec => []StoppedAtFailure
<1>1. DriverInit => StoppedAtFailure
  BY DEF DriverInit, StoppedAtFailure, IsFailed
<1>2. DriverTypeOK /\ StoppedAtFailure /\ [DriverNext]_driverVars => StoppedAtFailure'
  <2> SUFFICES ASSUME DriverTypeOK, StoppedAtFailure, [DriverNext]_driverVars PROVE StoppedAtFailure'
    OBVIOUS
  <2>1. CASE Driving
    <3>1. PICK op \in Ops, results \in SUBSET (Causes \cup {"ok"}) : Drive(op, results)
      BY <2>1, DriveFacts
    <3>2. \/ UNCHANGED <<failure, seen>>
          \/ /\ ~IsFailed /\ seen' = Append(seen, driven + 1)
             /\ failure' = failure \/ failure'.call = driven + 1
      <4>1. ASSUME ~IsFailed, NEW cause, Fail(op, cause) PROVE failure'.call = driven + 1
        BY <4>1 DEF Fail
      <4> QED
        BY <3>1, <4>1 DEF Drive
    <3>3. Len(Append(seen, driven + 1)) = Len(seen) + 1
          /\ Append(seen, driven + 1)[Len(seen) + 1] = driven + 1 /\ Len(seen) \in Nat
      BY <3>1, AppendProperties DEF DriverTypeOK, Drive
    <3> QED
      BY <3>2, <3>3 DEF StoppedAtFailure, IsFailed
  <2>2. CASE ReadingActions
    BY <2>2 DEF ReadingActions, Read, Expect, ClearFailure, Bypass, Finish, IntoInner,
       StoppedAtFailure, IsFailed
  <2>3. CASE UNCHANGED driverVars
    BY <2>3 DEF driverVars, StoppedAtFailure, IsFailed
  <2> QED
    BY <2>1, <2>2, <2>3 DEF DriverNext, ReadingActions
<1> QED
  BY <1>1, <1>2, LatchHolds, PTL DEF DriverSpec

-----------------------------------------------------------------------------
(* Refinement.                                                             *)

\* The latch is the first failure of the promise's script.
LEMMA LatchIsFirst ==
  ASSUME DriverTypeOK, Latch
  PROVE  /\ Deferred!Failed <=> IsFailed
         /\ IsFailed => failure \in Deferred!Failure /\ Deferred!IsFirst(failure)
<1> USE DEF Deferred!Failures, Deferred!Causes, Causes
<1>1. CASE IsFailed
  <2>1. failure \in Failure
    BY <1>1 DEF DriverTypeOK, IsFailed
  <2>2. failure = [call |-> failure.call, op |-> failure.op, cause |-> failure.cause]
        /\ failure.cause \in Causes
    BY <2>1 DEF Failure
  <2>3. failure.call \in Deferred!Failures
        /\ \A i \in Deferred!Failures : failure.call <= i
    BY <1>1, <2>2 DEF Latch
  <2>4. scenario[failure.call].op = failure.op
        /\ scenario[failure.call].result = failure.cause
    BY <1>1 DEF Latch
  <2> QED
    BY <1>1, <2>1, <2>2, <2>3, <2>4
       DEF Deferred!Failed, Deferred!IsFirst, Deferred!Failure, Failure
<1>2. CASE ~IsFailed
  BY <1>2 DEF Latch, Deferred!Failed
<1> QED
  BY <1>1, <1>2

\* A step of the driver is one of the deferred failure, or none.
LEMMA RefinedStep ==
  ASSUME MaxDriving \in Nat, DriverTypeOK, Latch, DriverNext
  PROVE  Deferred!Next
<1> DEFINE told == IF reply = Expectation THEN Nothing ELSE reply
<1> USE DEF Deferred!Nothing, Deferred!Value, Deferred!Surfaced, Nothing, Obtained, Surfaced,
      Expectation
<1>0. (Deferred!Failed <=> IsFailed)
      /\ (IsFailed => failure \in Deferred!Failure /\ Deferred!IsFirst(failure))
  BY LatchIsFirst
<1>1. CASE Driving
  <2>1. PICK op \in Ops, results \in SUBSET (Causes \cup {"ok"}) : Drive(op, results)
    BY <1>1, DriveFacts
  <2>2. PICK result \in Causes \cup {"ok", "skipped"} :
          /\ scenario' = Append(scenario, [op |-> op, result |-> result])
          /\ result = "skipped" <=> IsFailed
    BY <2>1, FailureFacts DEF Drive
  <2>3. owner = "driver" /\ Len(scenario) < MaxDriving /\ UNCHANGED <<armed, owner, reply>>
    BY <2>1 DEF Drive, Latch
  <2> QED
    BY <1>0, <2>2, <2>3 DEF Deferred!Next, Deferred!Call, Deferred!Results,
       Deferred!Causes, Causes
<1>a. IsFailed /\ reply' = Surfaced(failure) => Deferred!Reports
  BY <1>0 DEF Deferred!Reports
<1>2. CASE Read
  BY <1>0, <1>a, <1>2 DEF Read, Deferred!Next, Deferred!Read
<1>3. CASE Expect
  BY <1>0, <1>a, <1>3 DEF Expect, Deferred!Next, Deferred!Read
<1>4. CASE ClearFailure
  BY <1>0, <1>a, <1>4 DEF ClearFailure, Deferred!Next, Deferred!Clear
<1>5. CASE Bypass
  BY <1>5 DEF Bypass, Deferred!Next, Deferred!Bypass
<1>6. CASE Finish
  BY <1>0, <1>a, <1>6 DEF Finish, Deferred!Next, Deferred!Finish
<1>7. CASE IntoInner
  BY <1>7 DEF IntoInner, Deferred!Next, Deferred!IntoInner
<1> QED
  BY <1>1, <1>2, <1>3, <1>4, <1>5, <1>6, <1>7 DEF DriverNext

\* The driver implements the promise: whatever a scenario does, it hears of the
\* first failure it has not cleared, and of nothing else.
THEOREM DriverImplementsDeferredFailure ==
  ASSUME MaxDriving \in Nat
  PROVE  DriverSpec => ImplementsDeferredFailure
<1>1. DriverInit => Deferred!Init
  BY DEF DriverInit, Deferred!Init, Deferred!Nothing, Nothing, Expectation
<1>2. DriverTypeOK /\ Latch /\ [DriverNext]_driverVars => [Deferred!Next]_(Deferred!vars)
  <2>1. DriverTypeOK /\ Latch /\ DriverNext => Deferred!Next
    BY RefinedStep
  <2>2. UNCHANGED driverVars => UNCHANGED Deferred!vars
    BY DEF driverVars, Deferred!vars
  <2> QED
    BY <2>1, <2>2
<1> QED
  BY <1>1, <1>2, LatchHolds, PTL DEF DriverSpec, Deferred!Spec, ImplementsDeferredFailure

-----------------------------------------------------------------------------
(* AgentOutput: which object of an output is preferred, and what it says.  *)

\* Of a text, Trim leaves a text, that has all but the ends of lines.
LEMMA TrimFacts ==
  ASSUME NEW S, NEW phrase \in Seq(S)
  PROVE  /\ Trim(phrase) \in Seq(S)
         /\ \A i \in 1..Len(phrase) :
              phrase[i] # "nl" => \E j \in 1..Len(Trim(phrase)) : Trim(phrase)[j] = phrase[i]
<1> DEFINE kept == {i \in 1..Len(phrase) : phrase[i] # "nl"}
<1>0. Len(phrase) \in Nat /\ \A i \in 1..Len(phrase) : phrase[i] \in S
  BY ElementOfSeq
<1>1. CASE kept = {}
  <2>1. Trim(phrase) = <<>>
    BY <1>1 DEF Trim
  <2>2. <<>> \in Seq(S)
    BY EmptySeq
  <2> QED
    BY <1>1, <2>1, <2>2
<1>2. CASE kept # {}
  <2>1. PICK m, n : m = Min(kept) /\ n = Max(kept)
    OBVIOUS
  <2>2. PICK T : T = kept
    OBVIOUS
  <2>3. T \subseteq Nat /\ T \subseteq 0..Len(phrase) /\ T # {} /\ T \subseteq 1..Len(phrase)
    BY <1>0, <1>2, <2>2
  <2>4. m \in T /\ n \in T /\ \A k \in T : m <= k /\ k <= n
    BY <1>0, <2>1, <2>2, <2>3, MinIs, MaxIs
  <2>5. Trim(phrase) = SubSeq(phrase, m, n)
    BY <1>2, <2>1 DEF Trim
  <2>6. PICK out : out = SubSeq(phrase, m, n)
    OBVIOUS
  <2>7. /\ m \in Int /\ n \in Int /\ m <= n /\ m \in 1..Len(phrase) /\ n \in 1..Len(phrase)
        /\ \A i \in m..n : phrase[i] \in S
    BY <1>0, <2>3, <2>4
  <2>8. out \in Seq(S) /\ Len(out) = n - m + 1 /\ \A i \in 1..n - m + 1 : out[i] = phrase[m + i - 1]
    BY <2>6, <2>7, SubSeqProperties
  <2>9. ASSUME NEW i \in 1..Len(phrase), phrase[i] # "nl"
        PROVE  \E j \in 1..Len(out) : out[j] = phrase[i]
    <3>1. i \in T /\ m <= i /\ i <= n
      BY <2>2, <2>4, <2>9
    <3>2. i - m + 1 \in 1..n - m + 1 /\ m + (i - m + 1) - 1 = i
      BY <2>7, <3>1
    <3>3. out[i - m + 1] = phrase[i]
      BY <2>8, <3>2
    <3> QED
      BY <2>8, <3>2, <3>3
  <2> QED
    BY <2>5, <2>6, <2>8, <2>9
<1> QED
  BY <1>1, <1>2

\* What text is split into are texts without the mark.
LEMMA SplitFacts ==
  ASSUME NEW S, NEW phrase \in Seq(S), NEW mark
  PROVE  SplitBy(phrase, mark) \in Seq(Seq(S \ {mark}))
<1>0. Len(phrase) \in Nat /\ \A i \in 1..Len(phrase) : phrase[i] \in S
  BY ElementOfSeq
<1> DEFINE Marks(i) == {0} \cup {j \in 1..i - 1 : phrase[j] = mark}
           Part(i) == SubSeq(phrase, Max(Marks(i)) + 1, i - 1)
           End(i) == i = Len(phrase) + 1 \/ phrase[i] = mark
           pieces == [i \in 1..Len(phrase) + 1 |-> IF End(i) THEN <<Part(i)>> ELSE <<>>]
<1>1. ASSUME NEW i \in 1..Len(phrase) + 1 PROVE Part(i) \in Seq(S \ {mark})
  <2>1. PICK T, n : T = Marks(i) /\ n = i - 1
    OBVIOUS
  <2>2. n \in Nat /\ n <= Len(phrase) /\ T \subseteq 0..n /\ T # {}
    BY <1>0, <2>1
  <2>3. PICK m : m = Max(T)
    OBVIOUS
  <2>4. m \in T /\ \A k \in T : k <= m
    BY <2>2, <2>3, MaxIs
  <2>5. ASSUME NEW j \in m + 1..n PROVE phrase[j] \in S \ {mark}
    <3>1. j \in 1..Len(phrase) /\ j \in 1..i - 1 /\ ~(j <= m)
      BY <1>0, <2>1, <2>2, <2>4
    <3>2. j \notin T
      BY <2>4, <3>1
    <3> QED
      BY <1>0, <2>1, <3>1, <3>2
  <2>6. m + 1 \in Int /\ n \in Int
    BY <2>2, <2>4
  <2>7. SubSeq(phrase, m + 1, n) \in Seq(S \ {mark})
    <3>1. PICK l, U : l = m + 1 /\ U = S \ {mark}
      OBVIOUS
    <3>2. \A j \in l..n : phrase[j] \in U
      BY <2>5, <3>1
    <3>3. SubSeq(phrase, l, n) \in Seq(U)
      BY <2>6, <3>1, <3>2, SubSeqProperties
    <3> QED
      BY <3>1, <3>3
  <2> QED
    BY <2>1, <2>3, <2>7
<1>2. pieces \in Seq(Seq(Seq(S \ {mark})))
  <2>1. PICK V : V = Seq(S \ {mark})
    OBVIOUS
  <2>2. \A i \in 1..Len(phrase) + 1 : Part(i) \in V
    BY <1>1, <2>1
  <2> HIDE DEF Part
  <2>3. \A i \in 1..Len(phrase) + 1 : pieces[i] \in Seq(V)
    <3>1. <<>> \in Seq(V)
      BY EmptySeq
    <3>2. \A x \in V : <<x>> \in Seq(V)
      OBVIOUS
    <3> QED
      BY <2>2, <3>1, <3>2
  <2>4. pieces \in Seq(Seq(V))
    <3>1. Len(phrase) + 1 \in Nat
      BY <1>0
    <3> HIDE DEF End
    <3> QED
      BY <2>3, <3>1
  <2> QED
    BY <2>1, <2>4
<1>3. SplitBy(phrase, mark) = FlattenSeq(pieces)
  BY DEF SplitBy
<1> HIDE DEF pieces
<1>4. PICK V, p : V = Seq(S \ {mark}) /\ p = pieces
  OBVIOUS
<1>5. FlattenSeq(p) \in Seq(V)
  BY <1>2, <1>4, FlattenType
<1> QED
  BY <1>3, <1>4, <1>5

\* The only element of pieces[i] is x, and those of the pieces before it are in F.
ComesFirst(pieces, i, x, F) ==
  /\ i \in 1..Len(pieces) /\ pieces[i] = <<x>>
  /\ \A j \in 1..i - 1 : pieces[j] = <<>> \/ pieces[j][1] \in F

\* What comes first among the pieces comes first among what is picked of them.
LEMMA FirstPicked ==
  ASSUME NEW S, NEW pieces \in Seq(Seq(S)), Thin(pieces), NEW F, NEW x,
         NEW i, ComesFirst(pieces, i, x, F)
  PROVE  LET out == FlattenSeq(pieces) IN
         \E k \in 1..Len(out) : out[k] = x /\ \A l \in 1..k - 1 : out[l] \in F
<1> USE DEF ComesFirst
<1>1. PICK out : out = FlattenSeq(pieces)
  OBVIOUS
<1>2. PICK g : PickedAt(g, out, pieces)
  BY <1>1, FlattenPicks
<1>3. /\ g \in [1..Len(out) -> 1..Len(pieces)]
      /\ \A k \in 1..Len(out) : pieces[g[k]] = <<out[k]>>
      /\ \A k, l \in 1..Len(out) : k < l => g[k] < g[l]
      /\ pieces[i] = <<>> \/ \E k \in 1..Len(out) : g[k] = i
  BY <1>2 DEF PickedAt
<1>4. PICK k \in 1..Len(out) : g[k] = i
  BY <1>3
<1>5. out[k] = x
  BY <1>3, <1>4
<1>6. ASSUME NEW l \in 1..k - 1 PROVE out[l] \in F
  <2>0. out \in Seq(S) /\ Len(out) \in Nat /\ Len(pieces) \in Nat
    BY <1>1, FlattenType
  <2>1. l \in 1..Len(out) /\ l < k
    BY <1>4, <2>0
  <2>2. g[l] < i /\ g[l] \in 1..Len(pieces) /\ pieces[g[l]] = <<out[l]>>
    BY <1>3, <1>4, <2>1
  <2>3. g[l] \in 1..i - 1
    BY <2>0, <2>2
  <2>4. pieces[g[l]] = <<>> \/ pieces[g[l]][1] \in F
    BY <2>3
  <2> QED
    BY <2>2, <2>4
<1> QED
  BY <1>1, <1>5, <1>6

\* A text that is in the list, and those before it are in F.
Leads(list, x, F) ==
  x # <<>> /\ \E i \in 1..Len(list) : list[i] = x /\ \A j \in 1..i - 1 : list[j] \in F

\* What comes first still does when what is empty is left out.
LEMMA NotEmptyFacts ==
  ASSUME NEW S, NEW texts \in Seq(Seq(S))
  PROVE  /\ NotEmpty(texts) \in Seq(Seq(S))
         /\ \A F, x : Leads(texts, x, F) => Leads(NotEmpty(texts), x, F)
<1>1. PICK V, pieces : /\ V = Seq(S)
                       /\ pieces = [k \in 1..Len(texts) |->
                                      IF texts[k] = <<>> THEN <<>> ELSE <<texts[k]>>]
  OBVIOUS
<1>2. Len(texts) \in Nat /\ \A k \in 1..Len(texts) : texts[k] \in V
  BY <1>1, ElementOfSeq
<1>3. /\ Len(pieces) = Len(texts)
      /\ \A k \in 1..Len(texts) :
           pieces[k] = IF texts[k] = <<>> THEN <<>> ELSE <<texts[k]>>
  BY <1>1, <1>2
<1>4. pieces \in Seq(Seq(V)) /\ Thin(pieces)
  <2>1. <<>> \in Seq(V) /\ Len(<<>>) = 0
    BY EmptySeq
  <2>2. \A x \in V : <<x>> \in Seq(V) /\ Len(<<x>>) = 1
    OBVIOUS
  <2>3. ASSUME NEW k \in 1..Len(texts) PROVE pieces[k] \in Seq(V) /\ Len(pieces[k]) <= 1
    <3>1. PICK t, p : t = texts[k] /\ p = pieces[k]
      OBVIOUS
    <3>2. t \in V /\ p = IF t = <<>> THEN <<>> ELSE <<t>>
      BY <1>2, <1>3, <3>1
    <3>3. p \in Seq(V) /\ Len(p) <= 1
      BY <2>1, <2>2, <3>2
    <3> QED
      BY <3>1, <3>3
  <2>4. pieces \in Seq(Seq(V))
    BY <1>1, <1>2, <2>3
  <2> QED
    BY <1>3, <2>3, <2>4 DEF Thin
<1>5. NotEmpty(texts) = FlattenSeq(pieces)
  BY <1>1 DEF NotEmpty
<1>6. NotEmpty(texts) \in Seq(Seq(S))
  BY <1>1, <1>4, <1>5, FlattenType
<1>7. ASSUME NEW F, NEW x, Leads(texts, x, F) PROVE Leads(NotEmpty(texts), x, F)
  <2>0. PICK i \in 1..Len(texts) : texts[i] = x /\ \A j \in 1..i - 1 : texts[j] \in F
    BY <1>7 DEF Leads
  <2>1. pieces[i] = <<x>> /\ i \in 1..Len(pieces)
    BY <1>3, <1>7, <2>0 DEF Leads
  <2>2. ASSUME NEW j \in 1..i - 1 PROVE pieces[j] = <<>> \/ pieces[j][1] \in F
    <3>1. j \in 1..Len(texts) /\ texts[j] \in F
      BY <1>2, <2>0
    <3>2. PICK t, p : t = texts[j] /\ p = pieces[j]
      OBVIOUS
    <3>3. p = IF t = <<>> THEN <<>> ELSE <<t>>
      BY <1>3, <3>1, <3>2
    <3>4. <<t>>[1] = t
      OBVIOUS
    <3>5. p = <<>> \/ p[1] \in F
      BY <3>1, <3>2, <3>3, <3>4
    <3> QED
      BY <3>2, <3>5
  <2>4. ComesFirst(pieces, i, x, F)
    BY <2>1, <2>2 DEF ComesFirst
  <2>3. LET out == FlattenSeq(pieces) IN
        \E k \in 1..Len(out) : out[k] = x /\ \A l \in 1..k - 1 : out[l] \in F
    BY <1>4, <2>4, FirstPicked
  <2> QED
    BY <1>5, <1>7, <2>3 DEF Leads
<1> QED
  BY <1>6, <1>7

\* What the output has: its pieces, and the objects it can be made of.
Spoken == {said[i] : i \in 1..Len(said)}
Backed ==
  {x \in Objects : x \in Spoken \/ x = "other" \/ (x = "yes" /\ "<" \in Spoken)}

\* What is decoded of pieces of the output is of the output.
LEMMA DecodedBacked ==
  ASSUME NEW c \in Seq(Spoken)
  PROVE  Decoded(c) \subseteq Backed
<1>1. CASE c = <<"<", "nl", ">">>
  <2>1. c[1] = "<" /\ 1 \in 1..Len(c)
    BY <1>1
  <2>2. "<" \in Spoken
    BY <2>1, ElementOfSeq
  <2> QED
    BY <1>1, <2>2 DEF Decoded, Backed, Objects
<1>2. CASE c # <<"<", "nl", ">">> /\ Len(c) = 1
  <2>1. c[1] \in Spoken
    BY <1>2, ElementOfSeq
  <2>2. Decoded(c) = {c[1]} \cap Objects
    BY <1>2 DEF Decoded
  <2> QED
    BY <2>1, <2>2 DEF Backed
<1>3. CASE c # <<"<", "nl", ">">> /\ Len(c) # 1
  BY <1>3 DEF Decoded
<1> QED
  BY <1>1, <1>2, <1>3

\* At most one element of a set, as a list.
LEMMA OneOfFacts ==
  ASSUME NEW S, NEW T, T \subseteq S
  PROVE  /\ OneOf(T) \in Seq(S) /\ Len(OneOf(T)) <= 1
         /\ OneOf(T) = <<>> \/ OneOf(T)[1] \in T
         /\ \A x : T = {x} => OneOf(T) = <<x>>
<1>1. CASE T = {}
  <2>1. OneOf(T) = <<>>
    BY <1>1 DEF OneOf
  <2>2. <<>> \in Seq(S) /\ Len(<<>>) = 0
    BY EmptySeq
  <2>3. \A x : T # {x}
    BY <1>1
  <2> QED
    BY <2>1, <2>2, <2>3
<1>2. CASE T # {}
  <2>1. PICK y : y = CHOOSE x \in T : TRUE
    OBVIOUS
  <2>2. y \in T
    BY <1>2, <2>1
  <2>3. OneOf(T) = <<y>>
    BY <1>2, <2>1 DEF OneOf
  <2>4. <<y>> \in Seq(S) /\ Len(<<y>>) = 1 /\ <<y>>[1] = y
    BY <2>2
  <2> QED
    BY <2>2, <2>3, <2>4
<1> QED
  BY <1>1, <1>2

\* So is what is decoded from a brace on.
LEMMA FromBraceBacked ==
  ASSUME NEW S, said \in Seq(S), NEW i \in 1..Len(said)
  PROVE  FromBrace(i) \subseteq Backed
<1>1. Len(said) \in Nat /\ \A j \in 1..Len(said) : said[j] \in Spoken
  BY DEF Spoken
<1>2. ASSUME NEW n \in 0..Len(said) PROVE SubSeq(said, i, n) \in Seq(Spoken)
  <2>1. i \in Int /\ n \in Int /\ \A j \in i..n : said[j] \in Spoken
    BY <1>1
  <2> QED
    BY <2>1, SubSeqProperties
<1> DEFINE closing == {j \in i..Len(said) : Closes(said[j])}
<1>3. PICK T, upTo : T = closing /\ upTo = IF T = {} THEN i - 1 ELSE Max(T)
  OBVIOUS
<1>4. upTo \in 0..Len(said)
  <2>1. CASE T = {}
    BY <1>1, <1>3, <2>1
  <2>2. CASE T # {}
    <3>1. T \subseteq 0..Len(said)
      BY <1>1, <1>3
    <3>2. Max(T) \in T
      BY <1>1, <2>2, <3>1, MaxIs
    <3> QED
      BY <1>3, <2>2, <3>1, <3>2
  <2> QED
    BY <2>1, <2>2
<1>5. PICK slice, part : slice = SubSeq(said, i, Len(said)) /\ part = SubSeq(said, i, upTo)
  OBVIOUS
<1>6. slice \in Seq(Spoken) /\ part \in Seq(Spoken)
  BY <1>1, <1>2, <1>4, <1>5
<1>7. Trim(slice) \in Seq(Spoken)
  BY <1>6, TrimFacts
<1>8. Decoded(Trim(slice)) \subseteq Backed /\ Decoded(part) \subseteq Backed
  BY <1>6, <1>7, DecodedBacked
<1>9. FromBrace(i) = IF said[i] = "cut" THEN IF upTo = i THEN {"other"} ELSE {}
                     ELSE IF Decoded(Trim(slice)) # {} THEN Decoded(Trim(slice)) ELSE Decoded(part)
  BY <1>3, <1>5 DEF FromBrace
<1>10. "other" \in Backed
  BY DEF Backed, Objects
<1> QED
  BY <1>8, <1>9, <1>10

\* The fenced chunks are texts of what was said,
LEMMA ChunksTyped ==
  ASSUME said \in Seq(Spoken)
  PROVE  Chunks \in Seq(Seq(Spoken))
<1>1. PICK V : V = Seq(Spoken)
  OBVIOUS
<1>2. <<>> \in Seq(V)
  BY EmptySeq
<1>3. ASSUME NEW c \in V PROVE WithoutTag(Trim(c)) \in V
  <2>1. PICK t : t = Trim(c)
    OBVIOUS
  <2>2. t \in Seq(Spoken)
    BY <1>1, <1>3, <2>1, TrimFacts
  <2>3. t # <<>> => Trim(Tail(t)) \in Seq(Spoken)
    BY <2>2, HeadTailProperties, TrimFacts
  <2> QED
    BY <1>1, <2>1, <2>2, <2>3 DEF WithoutTag
<1>4. PICK parts : parts = SplitBy(said, "fence")
  OBVIOUS
<1>5. parts \in Seq(Seq(Spoken \ {"fence"}))
  BY <1>4, SplitFacts
<1>6. \A i \in 1..Len(parts) : parts[i] \in V
  <2>1. PICK W : W = Seq(Spoken \ {"fence"})
    OBVIOUS
  <2>2. \A i \in 1..Len(parts) : parts[i] \in W
    BY <1>5, <2>1, ElementOfSeq
  <2>3. W \subseteq V
    BY <1>1, <2>1, SeqMonotonic
  <2> QED
    BY <2>2, <2>3
<1>7. PICK chunks : chunks = Reverse(parts)
  OBVIOUS
<1>8. Len(parts) \in Nat
  BY <1>5
<1>9. Len(chunks) = Len(parts) /\ \A i \in 1..Len(chunks) : chunks[i] \in V
  <2>1. chunks = [i \in 1..Len(parts) |-> parts[(Len(parts) - i) + 1]]
    BY <1>7 DEF Reverse
  <2>2. \A i \in 1..Len(parts) : (Len(parts) - i) + 1 \in 1..Len(parts)
    BY <1>8
  <2> QED
    BY <1>6, <1>8, <2>1, <2>2
<1>10. [k \in 1..Len(chunks) |-> WithoutTag(Trim(chunks[k]))] \in Seq(V)
  <2>1. \A k \in 1..Len(chunks) : WithoutTag(Trim(chunks[k])) \in V
    BY <1>3, <1>9
  <2> QED
    BY <1>8, <1>9, <2>1
<1>11. Chunks = IF "fence" \notin Spoken THEN <<>>
                ELSE [k \in 1..Len(chunks) |-> WithoutTag(Trim(chunks[k]))]
  BY <1>4, <1>7 DEF Chunks, Spoken
<1> QED
  BY <1>1, <1>2, <1>10, <1>11

\* The lines of the output, and the last on which an object with a verdict stands alone.
OutputLines == SplitBy(said, "nl")
Alone ==
  {k \in 1..Len(OutputLines) : Len(OutputLines[k]) = 1 /\ OutputLines[k][1] \in Keyed}
LastAlone == OutputLines[Max(Alone)][1]
NoOther(x) == {c \in Seq(Spoken) : Decoded(c) \cap Keyed \subseteq {x}}

\* and so are the lines, with no end of a line in them.
LEMMA LinesTyped ==
  ASSUME said \in Seq(Spoken)
  PROVE  /\ OutputLines \in Seq(Seq(Spoken)) /\ Len(OutputLines) \in Nat
         /\ \A k \in 1..Len(OutputLines) : OutputLines[k] \in Seq(Spoken \ {"nl"})
<1>1. PICK W, spoken : W = Seq(Spoken \ {"nl"}) /\ spoken = OutputLines
  OBVIOUS
<1>2. spoken \in Seq(W)
  BY <1>1, SplitFacts DEF OutputLines
<1>3. W \subseteq Seq(Spoken)
  BY <1>1, SeqMonotonic
<1>4. spoken \in Seq(Seq(Spoken))
  BY <1>2, <1>3, SeqMonotonic
<1>5. \A k \in 1..Len(spoken) : spoken[k] \in W
  BY <1>2, ElementOfSeq
<1> QED
  BY <1>1, <1>2, <1>4, <1>5

\* The last line on which an object with a verdict stands alone is one of them.
LEMMA AloneFacts ==
  ASSUME said \in Seq(Spoken), Alone # {}
  PROVE  /\ Max(Alone) \in Alone /\ \A k \in Alone : k <= Max(Alone)
         /\ LastAlone \in Keyed /\ LastAlone \in Spoken
         /\ OutputLines[Max(Alone)] = <<LastAlone>>
<1>1. Alone \subseteq 0..Len(OutputLines) /\ Len(OutputLines) \in Nat
  BY LinesTyped DEF Alone
<1>2. PICK m : m = Max(Alone)
  OBVIOUS
<1>3. m \in Alone /\ \A k \in Alone : k <= m
  <2>1. PICK T, b : T = Alone /\ b = Len(OutputLines)
    OBVIOUS
  <2> QED
    BY <1>1, <1>2, <2>1, MaxIs
<1>4. PICK line : line = OutputLines[m]
  OBVIOUS
<1>5. line \in Seq(Spoken \ {"nl"}) /\ Len(line) = 1 /\ line[1] \in Keyed
  BY <1>3, <1>4, LinesTyped DEF Alone
<1>6. line[1] \in Spoken
  BY <1>5, ElementOfSeq
<1>7. line = <<line[1]>>
  BY <1>5
<1> QED
  BY <1>2, <1>3, <1>4, <1>5, <1>6, <1>7 DEF LastAlone

\* Of the whole output no other object is made,
LEMMA WholeIsAlone ==
  ASSUME said \in Seq(Spoken), Alone # {}
  PROVE  Trim(said) \in NoOther(LastAlone)
<1>1. PICK y, phrase : y = LastAlone /\ phrase = Trim(said)
  OBVIOUS
<1>2. y \in Keyed /\ y \in Spoken
  BY <1>1, AloneFacts
<1>3. y \in Objects /\ y \notin {"nl", "<", ">"}
  BY <1>2 DEF Keyed, Objects
<1>4. PICK i \in 1..Len(said) : said[i] = y
  BY <1>2 DEF Spoken
<1>5. phrase \in Seq(Spoken) /\ \E j \in 1..Len(phrase) : phrase[j] = y
  BY <1>1, <1>3, <1>4, TrimFacts
<1>6. CASE phrase = <<"<", "nl", ">">>
  <2>1. \A j \in 1..3 : phrase[j] \in {"<", "nl", ">"}
    BY <1>6
  <2>2. Len(phrase) = 3
    BY <1>6
  <2> QED
    BY <1>3, <1>5, <2>1, <2>2
<1>7. CASE phrase # <<"<", "nl", ">">> /\ Len(phrase) = 1
  <2>1. phrase[1] = y
    BY <1>5, <1>7
  <2>2. Decoded(phrase) = {y} \cap Objects
    BY <1>7, <2>1 DEF Decoded
  <2> QED
    BY <1>1, <1>5, <2>2 DEF NoOther
<1>8. CASE phrase # <<"<", "nl", ">">> /\ Len(phrase) # 1
  <2>1. Decoded(phrase) = {}
    BY <1>8 DEF Decoded
  <2> QED
    BY <1>1, <1>5, <2>1 DEF NoOther
<1> QED
  BY <1>6, <1>7, <1>8

\* and none of a line on which no object stands alone.
LEMMA OtherLines ==
  ASSUME said \in Seq(Spoken), NEW k \in 1..Len(OutputLines), k \notin Alone, NEW x
  PROVE  OutputLines[k] \in NoOther(x)
<1>1. PICK line : line = OutputLines[k]
  OBVIOUS
<1>2. line \in Seq(Spoken \ {"nl"}) /\ ~(Len(line) = 1 /\ line[1] \in Keyed)
  BY <1>1, LinesTyped DEF Alone
<1>3. line \in Seq(Spoken)
  BY <1>2, SeqMonotonic
<1>4. line # <<"<", "nl", ">">>
  <2>1. SUFFICES ASSUME line = <<"<", "nl", ">">> PROVE FALSE
    OBVIOUS
  <2>2. 2 \in 1..Len(line) /\ line[2] = "nl"
    BY <2>1
  <2>3. line[2] \in Spoken \ {"nl"}
    BY <1>2, <2>2, ElementOfSeq
  <2> QED
    BY <2>2, <2>3
<1>5. Decoded(line) \cap Keyed = {}
  BY <1>2, <1>4 DEF Decoded
<1> QED
  BY <1>1, <1>3, <1>5 DEF NoOther

\* What one finds in the candidates, and in the objects that are decoded of them: each is
\* of the output, and what stands alone on its line last comes before any other.
CandidatesHeard(list) ==
  /\ list \in Seq(Seq(Spoken))
  /\ Alone # {} => \E k \in 1..Len(list) :
                     list[k] = <<LastAlone>> /\ \A l \in 1..k - 1 : list[l] \in NoOther(LastAlone)
FirstWithVerdict(x) == {y \in Backed : y \in Keyed => y = x}
ObjectsHeard(list) ==
  /\ list \in Seq(Backed)
  /\ Alone # {} => \E k \in 1..Len(list) :
                     list[k] = LastAlone /\ \A l \in 1..k - 1 : list[l] \in FirstWithVerdict(LastAlone)

\* Collect: the object that decides comes before any other with a verdict.
LEMMA CandidatesAreHeard ==
  ASSUME said \in Seq(Spoken)
  PROVE  CandidatesHeard(NotEmpty(<<Trim(said)>> \o Reverse(SplitBy(said, "nl")) \o Chunks))
<1>1. PICK V, spoken, backwards, one, others :
        /\ V = Seq(Spoken) /\ spoken = OutputLines /\ backwards = Reverse(spoken)
        /\ one = <<Trim(said)>> /\ others = Chunks
  OBVIOUS
<1>2. spoken \in Seq(V) /\ Len(spoken) \in Nat /\ others \in Seq(V) /\ one \in Seq(V)
  <2>1. Trim(said) \in V
    BY <1>1, TrimFacts
  <2> QED
    BY <1>1, <2>1, LinesTyped, ChunksTyped
<1>3. /\ backwards \in Seq(V) /\ Len(backwards) = Len(spoken)
      /\ \A j \in 1..Len(spoken) : backwards[j] = spoken[(Len(spoken) - j) + 1]
  <2>1. backwards = [i \in 1..Len(spoken) |-> spoken[(Len(spoken) - i) + 1]]
    BY <1>1 DEF Reverse
  <2>2. \A i \in 1..Len(spoken) : (Len(spoken) - i) + 1 \in 1..Len(spoken)
    BY <1>2
  <2>3. \A i \in 1..Len(spoken) : spoken[i] \in V
    BY <1>2, ElementOfSeq
  <2> QED
    BY <1>2, <2>1, <2>2, <2>3
<1>4. PICK first, all : first = one \o backwards /\ all = first \o others
  OBVIOUS
<1>5. first \in Seq(V) /\ all \in Seq(V)
  BY <1>2, <1>3, <1>4, ConcatProperties
<1>6. /\ Len(first) = 1 + Len(spoken) /\ first[1] = Trim(said)
      /\ \A j \in 1..Len(spoken) : first[1 + j] = spoken[(Len(spoken) - j) + 1]
  <2>1. Len(one) = 1 /\ one[1] = Trim(said)
    BY <1>1
  <2>2. /\ Len(first) = Len(one) + Len(backwards)
        /\ \A i \in 1..Len(one) + Len(backwards) :
             first[i] = IF i <= Len(one) THEN one[i] ELSE backwards[i - Len(one)]
    <3>1. \A a, b \in Seq(V) :
            /\ Len(a \o b) = Len(a) + Len(b)
            /\ \A i \in 1..Len(a) + Len(b) :
                 (a \o b)[i] = IF i <= Len(a) THEN a[i] ELSE b[i - Len(a)]
      BY ConcatProperties
    <3> QED
      BY <1>2, <1>3, <1>4, <3>1
  <2>3. first[1] = one[1]
    BY <1>2, <1>3, <2>1, <2>2
  <2>4. ASSUME NEW j \in 1..Len(spoken) PROVE first[1 + j] = backwards[j]
    BY <1>2, <1>3, <2>1, <2>2
  <2> QED
    BY <1>3, <2>1, <2>2, <2>3, <2>4
<1>7. /\ Len(all) >= 1 + Len(spoken) /\ all[1] = Trim(said)
      /\ \A j \in 1..Len(spoken) : all[1 + j] = spoken[(Len(spoken) - j) + 1]
  <2>1. /\ Len(all) = Len(first) + Len(others) /\ Len(others) \in Nat
        /\ \A i \in 1..Len(first) + Len(others) :
             all[i] = IF i <= Len(first) THEN first[i] ELSE others[i - Len(first)]
    BY <1>2, <1>4, <1>5, ConcatProperties
  <2>2. \A i \in 1..1 + Len(spoken) : all[i] = first[i]
    BY <1>2, <1>6, <2>1
  <2>3. 1 \in 1..1 + Len(spoken) /\ \A j \in 1..Len(spoken) : 1 + j \in 1..1 + Len(spoken)
    BY <1>2
  <2>4. all[1] = first[1] /\ \A j \in 1..Len(spoken) : all[1 + j] = first[1 + j]
    BY <2>2, <2>3
  <2> QED
    BY <1>2, <1>6, <2>1, <2>4
<1>8. PICK list : list = NotEmpty(all)
  OBVIOUS
<1>9. list \in Seq(Seq(Spoken))
  BY <1>1, <1>5, <1>8, NotEmptyFacts
<1>10. ASSUME Alone # {}
       PROVE  \E k \in 1..Len(list) :
                list[k] = <<LastAlone>> /\ \A l \in 1..k - 1 : list[l] \in NoOther(LastAlone)
  <2>1. PICK m, x, F : m = Max(Alone) /\ x = <<LastAlone>> /\ F = NoOther(LastAlone)
    OBVIOUS
  <2>2. m \in 1..Len(spoken) /\ spoken[m] = x /\ \A k \in Alone : k <= m
    BY <1>1, <1>10, <2>1, AloneFacts DEF Alone
  <2>3. PICK i : i = 1 + ((Len(spoken) - m) + 1)
    OBVIOUS
  <2>4. (Len(spoken) - m) + 1 \in 1..Len(spoken) /\ (Len(spoken) - ((Len(spoken) - m) + 1)) + 1 = m
    BY <1>2, <2>2
  <2>5. i \in 1..Len(all) /\ all[i] = x
    <3>1. PICK n : n = (Len(spoken) - m) + 1
      OBVIOUS
    <3>2. n \in 1..Len(spoken) /\ (Len(spoken) - n) + 1 = m /\ i = 1 + n
      BY <2>3, <2>4, <3>1
    <3>3. all[i] = spoken[m]
      BY <1>7, <3>2
    <3>4. Len(all) \in Nat /\ i \in 1..Len(all)
      BY <1>2, <1>5, <1>7, <3>2
    <3> QED
      BY <2>2, <3>3, <3>4
  <2>6. ASSUME NEW j \in 1..i - 1 PROVE all[j] \in F
    <3>1. CASE j = 1
      BY <1>7, <1>10, <2>1, <3>1, WholeIsAlone
    <3>2. CASE j # 1
      <4>1. PICK n : n = (Len(spoken) - (j - 1)) + 1
        OBVIOUS
      <4>2. j - 1 \in 1..Len(spoken) /\ 1 + (j - 1) = j /\ n \in 1..Len(spoken) /\ ~(n <= m)
        BY <1>2, <2>2, <2>3, <2>6, <3>2, <4>1
      <4>3. n \notin Alone
        BY <2>2, <4>2
      <4>4. all[j] = spoken[n]
        BY <1>7, <4>1, <4>2
      <4> QED
        BY <1>1, <2>1, <4>2, <4>3, <4>4, OtherLines
    <3> QED
      BY <3>1, <3>2
  <2>7. x # <<>>
    BY <2>1
  <2>8. \E k \in 1..Len(list) : list[k] = x /\ \A l \in 1..k - 1 : list[l] \in F
    <3>1. all \in Seq(Seq(Spoken))
      BY <1>1, <1>5
    <3>2. Leads(all, x, F)
      BY <2>5, <2>6, <2>7 DEF Leads
    <3>3. Leads(list, x, F)
      BY <1>8, <3>1, <3>2, NotEmptyFacts
    <3> QED
      BY <3>3 DEF Leads
  <2> QED
    BY <2>1, <2>8
<1>11. CandidatesHeard(list)
  BY <1>9, <1>10 DEF CandidatesHeard
<1> QED
  BY <1>1, <1>4, <1>8, <1>11 DEF OutputLines

DecodedFrom(list) == FlattenSeq([k \in 1..Len(list) |-> OneOf(Decoded(list[k]))])
FromBraces ==
  FlattenSeq([k \in 1..Len(said) |->
    LET i == Len(said) + 1 - k IN IF Opens(said[i]) THEN OneOf(FromBrace(i)) ELSE <<>>])

\* Decode: it still does among the objects.
LEMMA ObjectsAreHeard ==
  ASSUME said \in Seq(Spoken), NEW list, CandidatesHeard(list)
  PROVE  ObjectsHeard(DecodedFrom(list) \o FromBraces)
<1>1. PICK pieces : pieces = [k \in 1..Len(list) |-> OneOf(Decoded(list[k]))]
  OBVIOUS
<1>2. /\ list \in Seq(Seq(Spoken)) /\ Len(list) \in Nat
      /\ \A k \in 1..Len(list) : list[k] \in Seq(Spoken)
  BY ElementOfSeq DEF CandidatesHeard
<1>3. /\ Len(pieces) = Len(list) /\ \A k \in 1..Len(list) : pieces[k] = OneOf(Decoded(list[k]))
      /\ pieces \in Seq(Seq(Backed)) /\ Thin(pieces)
  <2>1. ASSUME NEW k \in 1..Len(list)
        PROVE  OneOf(Decoded(list[k])) \in Seq(Backed) /\ Len(OneOf(Decoded(list[k]))) <= 1
    <3>1. Decoded(list[k]) \subseteq Backed
      BY <1>2, DecodedBacked
    <3> QED
      BY <3>1, OneOfFacts
  <2>2. pieces \in Seq(Seq(Backed))
    BY <1>1, <1>2, <2>1
  <2> QED
    BY <1>1, <1>2, <2>1, <2>2 DEF Thin
<1>4. PICK out, others : out = DecodedFrom(list) /\ others = FromBraces
  OBVIOUS
<1>5. out = FlattenSeq(pieces) /\ out \in Seq(Backed)
  BY <1>1, <1>3, <1>4, FlattenType DEF DecodedFrom
<1>6. others \in Seq(Backed)
  <2>1. PICK p : p = [k \in 1..Len(said) |->
          LET i == Len(said) + 1 - k IN IF Opens(said[i]) THEN OneOf(FromBrace(i)) ELSE <<>>]
    OBVIOUS
  <2>2. Len(said) \in Nat /\ \A k \in 1..Len(said) : Len(said) + 1 - k \in 1..Len(said)
    OBVIOUS
  <2>3. \A i \in 1..Len(said) : OneOf(FromBrace(i)) \in Seq(Backed)
    BY FromBraceBacked, OneOfFacts
  <2>4. <<>> \in Seq(Backed)
    BY EmptySeq
  <2>5. p \in Seq(Seq(Backed))
    BY <2>1, <2>2, <2>3, <2>4
  <2> QED
    BY <1>4, <2>1, <2>5, FlattenType DEF FromBraces
<1>7. PICK both : both = out \o others
  OBVIOUS
<1>8. /\ both \in Seq(Backed) /\ Len(both) = Len(out) + Len(others)
      /\ Len(out) \in Nat /\ Len(others) \in Nat
      /\ \A i \in 1..Len(out) : both[i] = out[i]
  <2>1. /\ both \in Seq(Backed) /\ Len(both) = Len(out) + Len(others)
        /\ \A i \in 1..Len(out) + Len(others) :
             both[i] = IF i <= Len(out) THEN out[i] ELSE others[i - Len(out)]
    BY <1>5, <1>6, <1>7, ConcatProperties
  <2>2. Len(out) \in Nat /\ Len(others) \in Nat
    BY <1>5, <1>6
  <2> QED
    BY <2>1, <2>2
<1>9. ASSUME Alone # {}
      PROVE  \E k \in 1..Len(both) :
               both[k] = LastAlone /\ \A l \in 1..k - 1 : both[l] \in FirstWithVerdict(LastAlone)
  <2>1. PICK x, F : x = LastAlone /\ F = FirstWithVerdict(LastAlone)
    OBVIOUS
  <2>2. x \in Keyed /\ x \in Objects
    BY <1>9, <2>1, AloneFacts DEF Keyed
  <2>3. PICK i \in 1..Len(list) :
          list[i] = <<x>> /\ \A l \in 1..i - 1 : list[l] \in NoOther(x)
    BY <1>9, <2>1 DEF CandidatesHeard
  <2>4. pieces[i] = <<x>>
    <3>1. PICK c : c = list[i]
      OBVIOUS
    <3>2. c = <<x>> /\ Len(c) = 1 /\ c[1] = x
      BY <2>3, <3>1
    <3>3. Decoded(c) = {x}
      BY <2>2, <3>2 DEF Decoded
    <3>4. OneOf(Decoded(c)) = <<x>>
      BY <3>3, OneOfFacts
    <3> QED
      BY <1>3, <3>1, <3>4
  <2>5. ASSUME NEW j \in 1..i - 1 PROVE pieces[j] = <<>> \/ pieces[j][1] \in F
    <3>6. list[j] \in NoOther(x)
      BY <2>3
    <3>7. PICK n : n = Len(list)
      OBVIOUS
    <3>8. n \in Nat /\ i \in 1..n
      BY <1>2, <2>3, <3>7
    <3>9. j \in 1..n
      BY <3>8
    <3>1. j \in 1..Len(list) /\ list[j] \in NoOther(x)
      BY <3>6, <3>7, <3>9
    <3>2. PICK D : D = Decoded(list[j])
      OBVIOUS
    <3>3. D \cap Keyed \subseteq {x} /\ D \subseteq Backed
      BY <1>2, <3>1, <3>2, DecodedBacked DEF NoOther
    <3>4. OneOf(D) = <<>> \/ OneOf(D)[1] \in D
      BY <3>3, OneOfFacts
    <3>5. \A y \in D : y \in F
      BY <2>1, <3>3 DEF FirstWithVerdict
    <3> QED
      BY <1>3, <3>1, <3>2, <3>4, <3>5
  <2>6. ComesFirst(pieces, i, x, F)
    BY <1>3, <2>3, <2>4, <2>5 DEF ComesFirst
  <2>7. LET o == FlattenSeq(pieces) IN
        \E k \in 1..Len(o) : o[k] = x /\ \A l \in 1..k - 1 : o[l] \in F
    BY <1>3, <2>6, FirstPicked
  <2>8. PICK k \in 1..Len(out) : out[k] = x /\ \A l \in 1..k - 1 : out[l] \in F
    BY <1>5, <2>7
  <2>9. k \in 1..Len(both) /\ both[k] = x /\ \A l \in 1..k - 1 : both[l] \in F
    <3>1. PICK n, m \in Nat : n = Len(out) /\ m = Len(others)
      BY <1>8
    <3>2. k \in 1..n /\ k \in 1..n + m /\ \A l \in 1..k - 1 : l \in 1..n
      BY <2>8, <3>1
    <3> QED
      BY <1>8, <2>8, <3>1, <3>2
  <2> QED
    BY <2>1, <2>9
<1> QED
  BY <1>4, <1>7, <1>8, <1>9 DEF ObjectsHeard

-----------------------------------------------------------------------------
\* Every output of any length.
Pieces == Objects \cup {"w", "nl", "fence", "json", "<", ">", "{", "}"}
AgentSpec == AgentInit(Seq(Pieces)) /\ [][AgentStep]_agentVars

AgentTypes ==
  /\ said \in Seq(Pieces \cup {"cut"}) /\ context \in Nat
  /\ parsing \in {"prompting", "given", "bounded", "collected", "decoded", "parsed", "panicked"}
\* Only a recipe that is short enough is in the prompt whole.
PromptMarked ==
  /\ parsing = "prompting" => prompt = "none"
  /\ prompt = "whole" => context <= MaxContext
  /\ parsing \notin {"prompting", "panicked"} /\ context > MaxContext => prompt = "marked"

\* The property of what was parsed, in terms of what is spoken.
AnswerRight ==
  /\ parsed.check = "passed" => "yes" \in Spoken \/ "<" \in Spoken
  /\ parsed.check = "failed" => "no" \in Spoken \/ "odd" \in Spoken
  /\ parsed.transcript = "told" => "told" \in Spoken
  /\ Alone # {} => /\ parsed.check = "passed" <=> LastAlone = "yes"
                   /\ parsed.check = "failed" <=> LastAlone \in {"no", "odd"}
                   /\ parsed.transcript = "told" <=> LastAlone = "told"

\* The inductive invariant: what holds of each stage of the reading.
AgentInv ==
  /\ AgentTypes /\ PromptMarked
  /\ parsing = "collected" => CandidatesHeard(candidates)
  /\ parsing = "decoded" => ObjectsHeard(objects)
  /\ parsing = "parsed" => AnswerRight

\* An output is a text of what it says.
LEMMA SaidIsSpoken ==
  ASSUME NEW S, said \in Seq(S)
  PROVE  said \in Seq(Spoken)
<1>1. Len(said) \in Nat /\ \A i \in 1..Len(said) : said[i] \in Spoken
  BY DEF Spoken
<1>2. said = [i \in 1..Len(said) |-> said[i]]
  OBVIOUS
<1> QED
  BY <1>1, <1>2

\* The object that is preferred is of the output, and the last that stands alone, if any.
LEMMA PreferredFacts ==
  ASSUME said \in Seq(Spoken), ObjectsHeard(objects), objects # <<>>
  PROVE  Preferred \in Backed /\ (Alone # {} => Preferred = LastAlone)
<1>1. PICK T : T = {i \in 1..Len(objects) : objects[i] \in Keyed}
  OBVIOUS
<1>2. /\ objects \in Seq(Backed) /\ Len(objects) \in Nat /\ T \subseteq Nat
      /\ \A i \in 1..Len(objects) : objects[i] \in Backed
  BY <1>1, ElementOfSeq DEF ObjectsHeard
<1>3. CASE T = {}
  <2>1. 1 \in 1..Len(objects)
    BY <1>2, EmptySeq
  <2>2. Preferred = objects[1]
    BY <1>1, <1>3 DEF Preferred
  <2>3. ASSUME Alone # {} PROVE FALSE
    <3>1. PICK k \in 1..Len(objects) : objects[k] = LastAlone
      BY <2>3 DEF ObjectsHeard
    <3>2. LastAlone \in Keyed
      BY <2>3, AloneFacts
    <3> QED
      BY <1>1, <1>3, <3>1, <3>2
  <2> QED
    BY <1>2, <2>1, <2>2, <2>3
<1>4. CASE T # {}
  <2>1. PICK m : m = Min(T)
    OBVIOUS
  <2>2. m \in T /\ \A k \in T : m <= k
    BY <1>2, <1>4, <2>1, MinIs
  <2>3. Preferred = objects[m]
    BY <1>1, <1>4, <2>1 DEF Preferred
  <2>4. m \in 1..Len(objects) /\ objects[m] \in Keyed
    BY <1>1, <2>2
  <2>5. ASSUME Alone # {} PROVE objects[m] = LastAlone
    <3>1. PICK k \in 1..Len(objects) :
            objects[k] = LastAlone /\ \A l \in 1..k - 1 : objects[l] \in FirstWithVerdict(LastAlone)
      BY <2>5 DEF ObjectsHeard
    <3>2. LastAlone \in Keyed
      BY <2>5, AloneFacts
    <3>3. k \in T
      BY <1>1, <3>1, <3>2
    <3>4. m <= k
      BY <2>2, <3>3
    <3>5. CASE m = k
      BY <3>1, <3>5
    <3>6. CASE m # k
      <4>1. m \in 1..k - 1
        BY <1>2, <2>4, <3>1, <3>4, <3>6
      <4> QED
        BY <2>4, <3>1, <4>1 DEF FirstWithVerdict
    <3> QED
      BY <3>5, <3>6
  <2> QED
    BY <1>2, <2>3, <2>4, <2>5
<1> QED
  BY <1>3, <1>4

\* ParseAgentOutput: what is made of the preferred object is right.
LEMMA AnswerFollows ==
  ASSUME AgentInv, ParseAgentOutput
  PROVE  AnswerRight'
<1>1. said \in Seq(Spoken) /\ ObjectsHeard(objects) /\ said' = said
  BY SaidIsSpoken DEF AgentInv, AgentTypes, ParseAgentOutput
<1>2. PICK map : map = IF objects = <<>> THEN "nothing" ELSE Preferred
  OBVIOUS
<1>3. parsed' = [check |-> CASE map = "yes" -> "passed"
                             [] map \in {"no", "odd"} -> "failed"
                             [] OTHER -> "not reported",
                 transcript |-> IF map = "told" THEN "told" ELSE "output"]
  BY <1>2 DEF ParseAgentOutput
<1>4. /\ parsed'.check = "passed" <=> map = "yes"
      /\ parsed'.check = "failed" <=> map \in {"no", "odd"}
      /\ parsed'.transcript = "told" <=> map = "told"
  BY <1>3
<1>5. map \in {"yes", "no", "odd", "told"} => map \in Backed
  BY <1>1, <1>2, PreferredFacts
<1>6. Alone # {} => map = LastAlone
  <2>1. SUFFICES ASSUME Alone # {} PROVE map = LastAlone
    OBVIOUS
  <2>2. objects # <<>>
    <3>1. PICK k \in 1..Len(objects) : objects[k] = LastAlone
      BY <1>1, <2>1 DEF ObjectsHeard
    <3>2. Len(<<>>) = 0
      BY EmptySeq
    <3> QED
      BY <3>1, <3>2
  <2> QED
    BY <1>1, <1>2, <2>1, <2>2, PreferredFacts
<1>7. Spoken' = Spoken /\ Alone' = Alone /\ LastAlone' = LastAlone
  BY <1>1 DEF Spoken, Alone, LastAlone, OutputLines
<1>8. /\ map = "yes" => "yes" \in Spoken \/ "<" \in Spoken
      /\ map \in {"no", "odd"} => "no" \in Spoken \/ "odd" \in Spoken
      /\ map = "told" => "told" \in Spoken
  BY <1>5 DEF Backed
<1> QED
  BY <1>4, <1>6, <1>7, <1>8 DEF AnswerRight

\* The invariant holds at first.
LEMMA AgentBegins == AgentInit(Seq(Pieces)) => AgentInv
<1>1. SUFFICES ASSUME AgentInit(Seq(Pieces)) PROVE AgentInv
  OBVIOUS
<1>2. Seq(Pieces) \subseteq Seq(Pieces \cup {"cut"})
  BY SeqMonotonic
<1>3. context \in Nat
  BY <1>1, AgentAssumption DEF AgentInit
<1> QED
  BY <1>1, <1>2, <1>3 DEF AgentInit, AgentInv, AgentTypes, PromptMarked

\* The prompt and the bound on the output keep it,
LEMMA AgentCalls ==
  ASSUME AgentInv, BuildAgentPrompt \/ Bound
  PROVE  AgentInv'
<1>1. CASE BuildAgentPrompt
  <2>1. /\ parsing = "prompting" /\ context' = context /\ said' = said
        /\ \/ context <= MaxContext /\ prompt' = "whole" /\ parsing' = "given"
           \/ ~(context <= MaxContext) /\ prompt' = "marked" /\ parsing' = "given"
           \/ ~(context <= MaxContext) /\ prompt' = "none" /\ parsing' = "panicked"
    BY <1>1 DEF BuildAgentPrompt
  <2>2. AgentTypes'
    BY <2>1 DEF AgentInv, AgentTypes
  <2>3. PromptMarked'
    <3>1. context \in Nat /\ MaxContext \in Nat
      BY AgentAssumption DEF AgentInv, AgentTypes
    <3> QED
      BY <2>1, <3>1 DEF PromptMarked
  <2>4. parsing' \in {"given", "panicked"}
    BY <2>1
  <2> QED
    BY <2>2, <2>3, <2>4 DEF AgentInv
<1>2. CASE Bound
  <2>1. PICK P : P = Pieces \cup {"cut"}
    OBVIOUS
  <2>2. said \in Seq(P) /\ Len(said) \in Nat /\ MaxBytes \in Nat \ {0}
    BY <2>1, AgentAssumption DEF AgentInv, AgentTypes
  <2>3. Bounded \in Seq(P)
    <3>1. CASE Len(said) <= MaxBytes
      BY <2>2, <3>1 DEF Bounded
    <3>2. CASE ~(Len(said) <= MaxBytes)
      <4>1. MaxBytes \in 1..Len(said)
        BY <2>2, <3>2
      <4>2. said[MaxBytes] \in P
        BY <2>2, <4>1, ElementOfSeq
      <4>3. PICK start, last :
              /\ start = SubSeq(said, 1, MaxBytes - 1)
              /\ last = IF ~inside \/ said[MaxBytes] \notin Objects THEN said[MaxBytes]
                        ELSE IF said[MaxBytes] \in {"yes", "no", "odd"} THEN "cut" ELSE "{"
        OBVIOUS
      <4>4. last \in P
        <5>1. "cut" \in P /\ "{" \in P
          BY <2>1 DEF Pieces
        <5> QED
          BY <4>2, <4>3, <5>1
      <4>5. start \in Seq(P)
        <5>1. \A i \in 1..MaxBytes - 1 : said[i] \in P
          <6>1. \A i \in 1..MaxBytes - 1 : i \in 1..Len(said)
            BY <2>2, <4>1
          <6> QED
            BY <2>2, <6>1, ElementOfSeq
        <5>2. PICK m, n : m = 1 /\ n = MaxBytes - 1
          OBVIOUS
        <5>3. m \in Int /\ n \in Int /\ \A i \in m..n : said[i] \in P
          BY <2>2, <5>1, <5>2
        <5>4. SubSeq(said, m, n) \in Seq(P)
          BY <5>3, SubSeqProperties
        <5> QED
          BY <4>3, <5>2, <5>4
      <4>6. <<last>> \in Seq(P)
        BY <4>4
      <4>7. start \o <<last>> \in Seq(P)
        BY <4>5, <4>6, ConcatProperties
      <4>8. Bounded = start \o <<last>>
        BY <3>2, <4>3 DEF Bounded
      <4> QED
        BY <4>7, <4>8
    <3> QED
      BY <3>1, <3>2
  <2>4. said' \in Seq(P)
    BY <1>2, <2>2, <2>3 DEF Bound
  <2>5. parsing' \in {"bounded", "panicked"} /\ parsing = "given" /\ UNCHANGED <<context, prompt>>
    BY <1>2 DEF Bound
  <2> QED
    BY <2>1, <2>4, <2>5 DEF AgentInv, AgentTypes, PromptMarked
<1> QED
  BY <1>1, <1>2

\* and so do the steps of reading the output.
LEMMA AgentReads ==
  ASSUME AgentInv, Collect \/ Decode \/ ParseAgentOutput
  PROVE  AgentInv'
<1>0. said \in Seq(Spoken) /\ UNCHANGED <<said, context, prompt>>
  BY SaidIsSpoken DEF AgentInv, AgentTypes, Collect, Decode, ParseAgentOutput
<1>1. /\ Spoken' = Spoken /\ Alone' = Alone /\ LastAlone' = LastAlone /\ Backed' = Backed
      /\ \A x : NoOther(x)' = NoOther(x)
  BY <1>0 DEF Spoken, Alone, LastAlone, OutputLines, Backed, NoOther
<1>2. CASE Collect
  <2>1. PICK list : list = NotEmpty(<<Trim(said)>> \o Reverse(SplitBy(said, "nl")) \o Chunks)
    OBVIOUS
  <2>2. CandidatesHeard(list) /\ candidates' = list
    BY <1>0, <1>2, <2>1, CandidatesAreHeard DEF Collect
  <2>3. CandidatesHeard(candidates)'
    BY <1>1, <2>2 DEF CandidatesHeard
  <2>4. parsing = "bounded" /\ parsing' = "collected"
    BY <1>2 DEF Collect
  <2> QED
    BY <1>0, <2>3, <2>4 DEF AgentInv, AgentTypes, PromptMarked
<1>3. CASE Decode
  <2>1. PICK list : list = DecodedFrom(candidates) \o FromBraces
    OBVIOUS
  <2>2. CandidatesHeard(candidates)
    BY <1>3 DEF AgentInv, Decode
  <2>3. ObjectsHeard(list) /\ objects' = list
    BY <1>0, <1>3, <2>1, <2>2, ObjectsAreHeard DEF Decode, DecodedFrom, FromBraces
  <2>4. ObjectsHeard(objects)'
    BY <1>1, <2>3 DEF ObjectsHeard, FirstWithVerdict
  <2>5. parsing = "collected" /\ parsing' = "decoded"
    BY <1>3 DEF Decode
  <2> QED
    BY <1>0, <2>4, <2>5 DEF AgentInv, AgentTypes, PromptMarked
<1>4. CASE ParseAgentOutput
  <2>1. parsing = "decoded" /\ parsing' = "parsed"
    BY <1>4 DEF ParseAgentOutput
  <2>2. AnswerRight'
    BY <1>4, AnswerFollows
  <2> QED
    BY <1>0, <2>1, <2>2 DEF AgentInv, AgentTypes, PromptMarked
<1> QED
  BY <1>2, <1>3, <1>4

\* It speaks of nothing else.
LEMMA AgentStays ==
  ASSUME AgentInv, UNCHANGED agentVars
  PROVE  AgentInv'
<1>1. UNCHANGED <<context, prompt, said, inside, candidates, objects, parsed, parsing>>
  BY DEF agentVars
<1>2. /\ Spoken' = Spoken /\ Alone' = Alone /\ LastAlone' = LastAlone /\ Backed' = Backed
      /\ \A x : NoOther(x)' = NoOther(x)
  BY <1>1 DEF Spoken, Alone, LastAlone, OutputLines, Backed, NoOther
<1>3. CandidatesHeard(candidates)' <=> CandidatesHeard(candidates)
  BY <1>1, <1>2 DEF CandidatesHeard
<1>4. ObjectsHeard(objects)' <=> ObjectsHeard(objects)
  BY <1>1, <1>2 DEF ObjectsHeard, FirstWithVerdict
<1>5. AnswerRight' <=> AnswerRight
  BY <1>1, <1>2 DEF AnswerRight
<1> QED
  BY <1>1, <1>3, <1>4, <1>5 DEF AgentInv, AgentTypes, PromptMarked

\* It says what the property says.
LEMMA AgentInvSays == AgentInv => AnswerIsSaid
<1>1. SUFFICES ASSUME AgentInv PROVE AnswerIsSaid
  OBVIOUS
<1>2. PICK spoken, alone, last : spoken = OutputLines /\ alone = Alone /\ last = LastAlone
  OBVIOUS
<1>3. \A x : Stands(x) <=> x \in Spoken
  BY DEF Stands, Spoken
<1>4. /\ spoken = SplitBy(said, "nl")
      /\ alone = {k \in 1..Len(spoken) : Len(spoken[k]) = 1 /\ spoken[k][1] \in Keyed}
      /\ last = spoken[Max(alone)][1]
  BY <1>2 DEF OutputLines, Alone, LastAlone
<1>5. parsing = "parsed" => AnswerRight
  BY <1>1 DEF AgentInv
<1>6. PromptMarked
  BY <1>1 DEF AgentInv
<1> QED
  BY <1>2, <1>3, <1>4, <1>5, <1>6 DEF AnswerIsSaid, AnswerRight, PromptMarked

\* Whatever an agent says, its check passes only if an object of the output says so, the last
\* object that stands alone on a line decides, and a prompt that leaves part of the recipe
\* out says so (parse_agent_output, load_json and build_agent_prompt of agent.rs).
THEOREM AnswersAlwaysSaid == AgentSpec => []AnswerIsSaid
<1>1. AgentInit(Seq(Pieces)) => AgentInv
  BY AgentBegins
<1>2. AgentInv /\ [AgentStep]_agentVars => AgentInv'
  BY AgentCalls, AgentReads, AgentStays DEF AgentStep
<1>3. AgentInv => AnswerIsSaid
  BY AgentInvSays
<1> QED
  BY <1>1, <1>2, <1>3, PTL DEF AgentSpec

-----------------------------------------------------------------------------
(* Selection: which suites are selected for the files that changed.        *)

\* Places are spelled with names of one or more characters, and the patterns of a recipe
\* are places of which the last name may be a star, or that do not compile.
FileName == FileNames \ {"/", "\\", ".", "*", "["}
PatternName == FileName \cup {"*", "["}
PatternPlace ==
  {w \in Seq(PatternName) : /\ w # <<>> /\ \A i \in 1..Len(w) - 1 : w[i] # "*"
                            /\ \A i \in 2..Len(w) : w[i] # RepoMarker[2]}
Suite == Seq([name : RecipeNames, patterns : SUBSET {Joined(w) : w \in PatternPlace}])
Change == {c \in [place : Seq(FileName), spelling : Spellings] :
             c.place = <<>> => c.spelling = "plain"}

SelectionSpec == SelectionInit(Suite, Seq(Change)) /\ [][SelectionStep]_selectionVars

\* A path has the names of its place at the odd positions, and a separator between them.
LEMMA JoinedFacts ==
  ASSUME NEW S, NEW p \in Seq(S), p # <<>>
  PROVE  /\ Joined(p) \in Seq(S \cup {"/"}) /\ Len(p) \in Nat /\ Len(p) >= 1
         /\ Len(Joined(p)) = 2 * Len(p) - 1
         /\ \A i \in 1..Len(p) : Joined(p)[2 * i - 1] = p[i]
         /\ \A i \in 1..Len(p) - 1 : Joined(p)[2 * i] = "/"
<1>1. PICK n : n = 2 * Len(p) - 1
  OBVIOUS
<1>2. Len(p) \in Nat /\ Len(p) >= 1 /\ n \in Nat
  <2>1. Len(p) \in Nat /\ Len(p) # 0
    BY EmptySeq
  <2> QED
    BY <1>1, <2>1
<1>3. Joined(p) = [k \in 1..n |-> IF k % 2 = 1 THEN p[(k + 1) \div 2] ELSE "/"]
  BY <1>1 DEF Joined
<1>4. \A k \in 1..n : k % 2 = 1 => (k + 1) \div 2 \in 1..Len(p)
  BY <1>1, <1>2
<1>5. \A i \in 1..Len(p) : p[i] \in S
  BY ElementOfSeq
<1>6. \A k \in 1..n : (IF k % 2 = 1 THEN p[(k + 1) \div 2] ELSE "/") \in S \cup {"/"}
  BY <1>4, <1>5
<1>7. Joined(p) \in Seq(S \cup {"/"}) /\ Len(Joined(p)) = n
  BY <1>2, <1>3, <1>6
<1>8. ASSUME NEW i \in 1..Len(p) PROVE Joined(p)[2 * i - 1] = p[i]
  <2>1. /\ 2 * i - 1 \in 1..n /\ (2 * i - 1) % 2 = 1 /\ ((2 * i - 1) + 1) \div 2 = i
    BY <1>1, <1>2
  <2> QED
    BY <1>3, <2>1
<1>9. ASSUME NEW i \in 1..Len(p) - 1 PROVE Joined(p)[2 * i] = "/"
  <2>1. 2 * i \in 1..n /\ (2 * i) % 2 # 1
    BY <1>1, <1>2
  <2> QED
    BY <1>3, <2>1
<1> QED
  BY <1>1, <1>2, <1>7, <1>8, <1>9

\* The path of no place is empty.
LEMMA JoinedNothing == Joined(<<>>) = <<>>
<1>1. PICK n : n = 2 * Len(<<>>) - 1
  OBVIOUS
<1>2. 1..n = 1..0
  BY <1>1
<1>3. Joined(<<>>) = [k \in 1..n |-> IF k % 2 = 1 THEN <<>>[(k + 1) \div 2] ELSE "/"]
  BY <1>1 DEF Joined
<1>4. Joined(<<>>) = [k \in 1..0 |-> Joined(<<>>)[k]]
  BY <1>2, <1>3
<1>5. Joined(<<>>) \in Seq({"/"}) /\ Len(Joined(<<>>)) = 0
  <2>1. \A k \in 1..0 : Joined(<<>>)[k] \in {"/"}
    OBVIOUS
  <2>2. PICK f : f = Joined(<<>>)
    OBVIOUS
  <2>3. f = [k \in 1..0 |-> f[k]] /\ \A k \in 1..0 : f[k] \in {"/"}
    BY <1>4, <2>1, <2>2
  <2>4. f \in [1..0 -> {"/"}]
    BY <2>3
  <2> QED
    BY <2>2, <2>4
<1> QED
  BY <1>5, EmptySeq

\* Every position is odd or even.
LEMMA OddOrEven ==
  ASSUME NEW n \in Nat, NEW k \in 1..2 * n
  PROVE  \E i \in 1..n : k = 2 * i - 1 \/ k = 2 * i
<1>1. CASE k % 2 = 1
  <2>1. (k + 1) \div 2 \in 1..n /\ k = 2 * ((k + 1) \div 2) - 1
    BY <1>1
  <2> QED
    BY <2>1
<1>2. CASE k % 2 # 1
  <2>1. k \div 2 \in 1..n /\ k = 2 * (k \div 2)
    BY <1>2
  <2> QED
    BY <2>1
<1> QED
  BY <1>1, <1>2

\* What is written as one path is one place.
LEMMA JoinedOnce ==
  ASSUME NEW S, NEW p \in Seq(S), NEW q \in Seq(S), p # <<>>, q # <<>>, Joined(p) = Joined(q)
  PROVE  p = q
<1>0. /\ Len(p) \in Nat /\ Len(q) \in Nat
      /\ Len(Joined(p)) = 2 * Len(p) - 1 /\ Len(Joined(q)) = 2 * Len(q) - 1
      /\ \A i \in 1..Len(p) : Joined(p)[2 * i - 1] = p[i]
      /\ \A i \in 1..Len(q) : Joined(q)[2 * i - 1] = q[i]
  BY JoinedFacts
<1>1. Len(p) = Len(q) /\ Len(p) \in Nat
  BY <1>0
<1>2. ASSUME NEW i \in 1..Len(p) PROVE p[i] = q[i]
  BY <1>0, <1>1
<1>3. p = [i \in 1..Len(p) |-> p[i]] /\ q = [i \in 1..Len(q) |-> q[i]]
  OBVIOUS
<1> QED
  BY <1>1, <1>2, <1>3

\* Two sequences have the same first elements.
SameUpto(s, t, n) == n <= Len(s) /\ \A k \in 1..n : s[k] = t[k]

\* A path is below a directory as far as its place is.
LEMMA JoinedStarts ==
  ASSUME NEW S, NEW p \in Seq(S), NEW d \in Seq(S), p # <<>>, "/" \notin S,
         NEW n \in 0..Len(d)
  PROVE  SameUpto(Joined(p), Joined(Append(d, "*")), 2 * n) <=> n < Len(p) /\ SameUpto(p, d, n)
<1>1. PICK w, path, pattern : w = Append(d, "*") /\ path = Joined(p) /\ pattern = Joined(w)
  OBVIOUS
<1>2. /\ w \in Seq(S \cup {"*"}) /\ Len(w) = Len(d) + 1 /\ Len(d) \in Nat /\ w # <<>>
      /\ \A i \in 1..Len(d) : w[i] = d[i]
  <2>1. d \in Seq(S \cup {"*"})
    BY SeqMonotonic
  <2>2. \A x \in Seq(S \cup {"*"}) : Append(x, "*") \in Seq(S \cup {"*"}) /\ Append(x, "*") # <<>>
          /\ Len(Append(x, "*")) = Len(x) + 1 /\ \A i \in 1..Len(x) : Append(x, "*")[i] = x[i]
    BY AppendProperties
  <2> QED
    BY <1>1, <2>1, <2>2
<1>3. /\ Len(p) \in Nat /\ Len(p) >= 1 /\ Len(path) = 2 * Len(p) - 1
      /\ \A i \in 1..Len(p) : path[2 * i - 1] = p[i]
      /\ \A i \in 1..Len(p) - 1 : path[2 * i] = "/"
  BY <1>1, JoinedFacts
<1>4. /\ Len(pattern) = 2 * Len(w) - 1
      /\ \A i \in 1..Len(w) : pattern[2 * i - 1] = w[i]
      /\ \A i \in 1..Len(w) - 1 : pattern[2 * i] = "/"
  BY <1>1, <1>2, JoinedFacts
<1>5. ASSUME 2 * n <= Len(path), \A k \in 1..2 * n : path[k] = pattern[k]
      PROVE  n < Len(p) /\ \A i \in 1..n : p[i] = d[i]
  <2>1. n < Len(p)
    BY <1>3, <1>5
  <2>2. ASSUME NEW i \in 1..n PROVE p[i] = d[i]
    <3>1. 2 * i - 1 \in 1..2 * n /\ i \in 1..Len(p) /\ i \in 1..Len(w) /\ i \in 1..Len(d)
      BY <1>2, <1>3, <2>1
    <3>2. path[2 * i - 1] = pattern[2 * i - 1]
      BY <1>5, <3>1
    <3> QED
      BY <1>2, <1>3, <1>4, <3>1, <3>2
  <2> QED
    BY <2>1, <2>2
<1>6. ASSUME n < Len(p), \A i \in 1..n : p[i] = d[i]
      PROVE  2 * n <= Len(path) /\ \A k \in 1..2 * n : path[k] = pattern[k]
  <2>1. 2 * n <= Len(path)
    BY <1>3, <1>6
  <2>2. ASSUME NEW k \in 1..2 * n PROVE path[k] = pattern[k]
    <3>1. PICK i \in 1..n : k = 2 * i - 1 \/ k = 2 * i
      <4>1. n \in Nat
        BY <1>2
      <4> QED
        BY <4>1, OddOrEven
    <3>2. /\ i \in 1..Len(p) /\ i \in 1..Len(p) - 1 /\ i \in 1..Len(w) /\ i \in 1..Len(w) - 1
          /\ i \in 1..Len(d)
      BY <1>2, <1>3, <1>6
    <3>3. p[i] = d[i] /\ w[i] = d[i]
      BY <1>2, <1>6, <3>2
    <3>4. CASE k = 2 * i - 1
      <4>1. path[2 * i - 1] = p[i] /\ pattern[2 * i - 1] = w[i]
        BY <1>3, <1>4, <3>2
      <4> QED
        BY <3>3, <3>4, <4>1
    <3>5. CASE k = 2 * i
      <4>1. path[2 * i] = "/" /\ pattern[2 * i] = "/"
        BY <1>3, <1>4, <3>2
      <4> QED
        BY <3>5, <4>1
    <3> QED
      BY <3>1, <3>4, <3>5
  <2> QED
    BY <2>1, <2>2
<1>7. (2 * n <= Len(path) /\ \A k \in 1..2 * n : path[k] = pattern[k])
        <=> (n < Len(p) /\ \A i \in 1..n : p[i] = d[i])
  BY <1>5, <1>6
<1>8. n < Len(p) => n <= Len(p)
  BY <1>2, <1>3
<1> QED
  BY <1>1, <1>7, <1>8 DEF SameUpto

-----------------------------------------------------------------------------
\* The ends of what the first i elements of a pattern match of a path.
EndsOf(E, pattern, path) ==
  /\ E = [i \in 0..Len(pattern) |-> E[i]] /\ E[0] = {0}
  /\ \A i \in 1..Len(pattern) :
       E[i] = {j \in 0..Len(path) :
                 \E k \in E[i - 1] :
                   IF pattern[i] = "*" THEN k <= j ELSE j = k + 1 /\ path[j] = pattern[i]}

\* What the parts of a pattern match can be found part by part,
LEMMA EndsExist ==
  ASSUME NEW pattern, NEW path, Len(pattern) \in Nat
  PROVE  \E E : EndsOf(E, pattern, path)
<1> DEFINE After(i, set) ==
             {j \in 0..Len(path) :
                \E k \in set :
                  IF pattern[i] = "*" THEN k <= j ELSE j = k + 1 /\ path[j] = pattern[i]}
           Ends(E, n) == /\ E = [i \in 0..n |-> E[i]] /\ E[0] = {0}
                         /\ \A i \in 1..n : E[i] = After(i, E[i - 1])
           Good == {n \in Nat : \E E : Ends(E, n)}
<1>1. 0 \in Good
  <2>1. Ends([i \in 0..0 |-> {0}], 0)
    OBVIOUS
  <2> HIDE DEF Ends
  <2> QED
    BY <2>1
<1>2. ASSUME NEW n \in Nat, n \in Good PROVE n + 1 \in Good
  <2>1. PICK E : Ends(E, n)
    BY <1>2
  <2>2. PICK new : new = After(n + 1, E[n])
    OBVIOUS
  <2>3. PICK h : h = [i \in 0..n + 1 |-> IF i = n + 1 THEN new ELSE E[i]]
    OBVIOUS
  <2>4. h[n + 1] = new /\ \A i \in 0..n : h[i] = E[i]
    BY <2>3
  <2>5. h = [i \in 0..n + 1 |-> h[i]] /\ h[0] = {0}
    BY <2>1, <2>3, <2>4
  <2>6. ASSUME NEW i \in 1..n + 1 PROVE h[i] = After(i, h[i - 1])
    <3>1. CASE i = n + 1
      <4>1. h[i] = new /\ h[i - 1] = E[n]
        BY <2>4, <3>1
      <4> HIDE DEF After
      <4> QED
        BY <2>2, <3>1, <4>1
    <3>2. CASE i \in 1..n
      <4>1. h[i] = E[i] /\ h[i - 1] = E[i - 1] /\ E[i] = After(i, E[i - 1])
        <5> HIDE DEF After
        <5> QED
          BY <2>1, <2>4, <3>2
      <4> HIDE DEF After
      <4> QED
        BY <4>1
    <3> QED
      BY <3>1, <3>2
  <2>7. Ends(h, n + 1)
    <3> HIDE DEF After
    <3> QED
      BY <2>5, <2>6
  <2> QED
    BY <2>7
<1>3. Nat \subseteq Good
  <2> HIDE DEF Good
  <2> QED
    BY <1>1, <1>2, SetInduction
<1>4. PICK E : Ends(E, Len(pattern))
  BY <1>3
<1> QED
  BY <1>4 DEF EndsOf

\* and is what GlobMatches finds.
LEMMA GlobIs ==
  ASSUME NEW pattern, NEW path, Len(pattern) \in Nat
  PROVE  \E E : EndsOf(E, pattern, path)
                 /\ (GlobMatches(pattern, path) <=> Len(path) \in E[Len(pattern)])
<1> DEFINE Fix(E) ==
  E = [i \in 0..Len(pattern) |->
        IF i = 0 THEN {0}
        ELSE {j \in 0..Len(path) :
                \E k \in E[i - 1] :
                  IF pattern[i] = "*" THEN k <= j ELSE j = k + 1 /\ path[j] = pattern[i]}]
<1>1. PICK g : EndsOf(g, pattern, path)
  BY EndsExist
<1>2. Fix(g)
  <2>1. ASSUME NEW i \in 0..Len(pattern)
        PROVE  g[i] = IF i = 0 THEN {0}
                      ELSE {j \in 0..Len(path) :
                              \E k \in g[i - 1] :
                                IF pattern[i] = "*" THEN k <= j ELSE j = k + 1 /\ path[j] = pattern[i]}
    <3>1. CASE i = 0
      BY <1>1, <3>1 DEF EndsOf
    <3>2. CASE i # 0
      <4>1. i \in 1..Len(pattern)
        BY <3>2
      <4> QED
        BY <1>1, <3>2, <4>1 DEF EndsOf
    <3> QED
      BY <3>1, <3>2
  <2>2. g = [i \in 0..Len(pattern) |-> g[i]]
    BY <1>1 DEF EndsOf
  <2> QED
    BY <2>1, <2>2
<1>3. PICK E : E = CHOOSE e : Fix(e)
  OBVIOUS
<1>4. Fix(E)
  <2> HIDE DEF Fix
  <2> QED
    BY <1>2, <1>3
<1>5. EndsOf(E, pattern, path)
  <2>1. \A i \in 0..Len(pattern) :
          E[i] = IF i = 0 THEN {0}
                 ELSE {j \in 0..Len(path) :
                         \E k \in E[i - 1] :
                           IF pattern[i] = "*" THEN k <= j ELSE j = k + 1 /\ path[j] = pattern[i]}
    BY <1>4
  <2>2. E[0] = {0}
    <3>1. 0 \in 0..Len(pattern)
      OBVIOUS
    <3> QED
      BY <2>1, <3>1
  <2>3. ASSUME NEW i \in 1..Len(pattern)
        PROVE  E[i] = {j \in 0..Len(path) :
                         \E k \in E[i - 1] :
                           IF pattern[i] = "*" THEN k <= j ELSE j = k + 1 /\ path[j] = pattern[i]}
    <3>1. i \in 0..Len(pattern) /\ i # 0
      OBVIOUS
    <3> QED
      BY <2>1, <3>1
  <2>4. E = [i \in 0..Len(pattern) |-> E[i]]
    BY <1>4
  <2> QED
    BY <2>2, <2>3, <2>4 DEF EndsOf
<1>6. GlobMatches(pattern, path) <=> Len(path) \in E[Len(pattern)]
  BY <1>3 DEF GlobMatches
<1> QED
  BY <1>5, <1>6

\* As long as a pattern has no star, it matches itself and nothing else.
LEMMA EndsPlain ==
  ASSUME NEW pattern, NEW path, NEW E, EndsOf(E, pattern, path), Len(pattern) \in Nat,
         Len(path) \in Nat, NEW n \in 0..Len(pattern), \A k \in 1..n : pattern[k] # "*"
  PROVE  /\ E[n] \subseteq {n}
         /\ n \in E[n] <=> n <= Len(path) /\ \A k \in 1..n : path[k] = pattern[k]
<1> DEFINE Same(m) == m <= Len(path) /\ \A k \in 1..m : path[k] = pattern[k]
           Good == {m \in Nat : m <= n => E[m] \subseteq {m} /\ (m \in E[m] <=> Same(m))}
<1>1. 0 \in Good
  BY DEF EndsOf
<1>2. ASSUME NEW m \in Nat, m \in Good PROVE m + 1 \in Good
  <2>1. SUFFICES ASSUME m + 1 <= n
                 PROVE  E[m + 1] \subseteq {m + 1} /\ (m + 1 \in E[m + 1] <=> Same(m + 1))
    OBVIOUS
  <2>2. E[m] \subseteq {m} /\ (m \in E[m] <=> Same(m))
    BY <1>2, <2>1
  <2>3. m + 1 \in 1..Len(pattern) /\ pattern[m + 1] # "*" /\ (m + 1) - 1 = m
    BY <2>1
  <2>4. E[m + 1] = {j \in 0..Len(path) : \E k \in E[m] : j = k + 1 /\ path[j] = pattern[m + 1]}
    BY <2>3 DEF EndsOf
  <2>5. E[m + 1] \subseteq {m + 1}
    BY <2>2, <2>4
  <2>6. m + 1 \in E[m + 1] <=> m + 1 \in 0..Len(path) /\ m \in E[m] /\ path[m + 1] = pattern[m + 1]
    <3>1. \A k \in E[m] : k = m
      BY <2>2
    <3> QED
      BY <2>4, <3>1
  <2>7. Same(m + 1) <=> m + 1 <= Len(path) /\ Same(m) /\ path[m + 1] = pattern[m + 1]
    OBVIOUS
  <2> QED
    BY <2>2, <2>5, <2>6, <2>7
<1>3. Nat \subseteq Good
  <2> HIDE DEF Good
  <2> QED
    BY <1>1, <1>2, SetInduction
<1> QED
  BY <1>3

\* A pattern with no star matches one path, and one that ends with its only star matches all
\* paths that start with what comes before.
LEMMA GlobFacts ==
  ASSUME NEW S, NEW pattern \in Seq(S), NEW path \in Seq(S), pattern # <<>>,
         \A k \in 1..Len(pattern) - 1 : pattern[k] # "*"
  PROVE  /\ pattern[Len(pattern)] # "*" => (GlobMatches(pattern, path) <=> path = pattern)
         /\ pattern[Len(pattern)] = "*" =>
              (GlobMatches(pattern, path) <=>
                 /\ Len(pattern) - 1 <= Len(path)
                 /\ \A k \in 1..Len(pattern) - 1 : path[k] = pattern[k])
<1>1. Len(path) \in Nat /\ Len(pattern) \in Nat /\ Len(pattern) >= 1
  BY EmptySeq
<1>2. PICK E : /\ EndsOf(E, pattern, path)
               /\ GlobMatches(pattern, path) <=> Len(path) \in E[Len(pattern)]
  BY <1>1, GlobIs
<1>3. PICK n : n = Len(pattern)
  OBVIOUS
<1>4. CASE pattern[n] # "*"
  <2>1. \A k \in 1..n : pattern[k] # "*"
    BY <1>1, <1>3, <1>4
  <2>2. E[n] \subseteq {n} /\ (n \in E[n] <=> n <= Len(path) /\ \A k \in 1..n : path[k] = pattern[k])
    BY <1>1, <1>2, <1>3, <2>1, EndsPlain
  <2>3. Len(path) \in E[n] <=> Len(path) = n /\ \A k \in 1..n : path[k] = pattern[k]
    BY <1>1, <1>3, <2>2
  <2>4. path = [k \in 1..Len(path) |-> path[k]] /\ pattern = [k \in 1..n |-> pattern[k]]
    BY <1>3
  <2>5. Len(path) \in E[n] <=> path = pattern
    BY <1>1, <1>3, <2>3, <2>4
  <2> QED
    BY <1>2, <1>3, <1>4, <2>5
<1>5. CASE pattern[n] = "*"
  <2>1. n - 1 \in 0..Len(pattern) /\ \A k \in 1..n - 1 : pattern[k] # "*"
    BY <1>1, <1>3
  <2>2. /\ E[n - 1] \subseteq {n - 1}
        /\ n - 1 \in E[n - 1] <=> n - 1 <= Len(path) /\ \A k \in 1..n - 1 : path[k] = pattern[k]
    BY <1>1, <1>2, <2>1, EndsPlain
  <2>3. E[n] = {j \in 0..Len(path) : \E k \in E[n - 1] : k <= j}
    <3>1. n \in 1..Len(pattern)
      BY <1>1, <1>3
    <3> QED
      BY <1>2, <1>5, <3>1 DEF EndsOf
  <2>4. Len(path) \in E[n] <=> n - 1 \in E[n - 1] /\ n - 1 <= Len(path)
    BY <1>1, <2>2, <2>3
  <2> QED
    BY <1>2, <1>3, <1>5, <2>2, <2>4
<1> QED
  BY <1>3, <1>4, <1>5

-----------------------------------------------------------------------------
\* The pattern of a place matches the paths of the places it is one of the patterns of.
LEMMA MatchesPlace ==
  ASSUME NEW w \in PatternPlace, NEW p \in Seq(FileName), p # <<>>
  PROVE  Compiled(Joined(w)) /\ GlobMatches(Joined(w), Joined(p)) <=> Joined(w) \in PatternsOf(p)
<1>1. PICK S : S = PatternName
  OBVIOUS
<1>2. /\ w \in Seq(S) /\ w # <<>> /\ p \in Seq(S) /\ "/" \notin S
      /\ \A i \in 1..Len(w) - 1 : w[i] # "*"
      /\ \A i \in 1..Len(p) : p[i] \notin {"*", "["}
  <2>1. FileName \subseteq S /\ "/" \notin S /\ "*" \notin FileName /\ "[" \notin FileName
    BY <1>1 DEF PatternName, FileName
  <2>2. p \in Seq(S)
    BY <2>1, SeqMonotonic
  <2>3. \A i \in 1..Len(p) : p[i] \in FileName
    BY ElementOfSeq
  <2> QED
    BY <1>1, <2>1, <2>2, <2>3 DEF PatternPlace
<1>3. PICK path, pattern, n : path = Joined(p) /\ pattern = Joined(w) /\ n = Len(w) - 1
  OBVIOUS
<1>4. /\ Len(p) \in Nat /\ Len(p) >= 1 /\ Len(path) = 2 * Len(p) - 1
      /\ \A i \in 1..Len(p) : path[2 * i - 1] = p[i]
      /\ \A i \in 1..Len(p) - 1 : path[2 * i] = "/"
      /\ path \in Seq(S \cup {"/"})
  BY <1>2, <1>3, JoinedFacts
<1>5. /\ Len(w) \in Nat /\ n \in Nat /\ Len(w) = n + 1 /\ Len(pattern) = 2 * n + 1
      /\ \A i \in 1..Len(w) : pattern[2 * i - 1] = w[i]
      /\ \A i \in 1..Len(w) - 1 : pattern[2 * i] = "/"
      /\ pattern \in Seq(S \cup {"/"}) /\ pattern # <<>>
  <2>1. /\ Len(w) \in Nat /\ Len(w) >= 1 /\ Len(pattern) = 2 * Len(w) - 1
        /\ \A i \in 1..Len(w) : pattern[2 * i - 1] = w[i]
        /\ \A i \in 1..Len(w) - 1 : pattern[2 * i] = "/"
        /\ pattern \in Seq(S \cup {"/"})
    BY <1>2, <1>3, JoinedFacts
  <2>2. pattern # <<>>
    BY <2>1
  <2> QED
    BY <1>3, <2>1, <2>2
<1>6. \A k \in 1..Len(pattern) - 1 : pattern[k] # "*"
  <2>1. SUFFICES ASSUME NEW k \in 1..2 * n PROVE pattern[k] # "*"
    BY <1>5
  <2>2. PICK i \in 1..n : k = 2 * i - 1 \/ k = 2 * i
    BY <1>5, OddOrEven
  <2>3. i \in 1..Len(w) /\ i \in 1..Len(w) - 1
    BY <1>5
  <2>4. pattern[2 * i - 1] = w[i] /\ w[i] # "*" /\ pattern[2 * i] = "/"
    BY <1>2, <1>5, <2>3
  <2> QED
    BY <2>2, <2>4
<1>7. pattern[Len(pattern)] = w[n + 1]
  <2>1. n + 1 \in 1..Len(w) /\ Len(pattern) = 2 * (n + 1) - 1
    BY <1>5
  <2> QED
    BY <1>5, <2>1
<1>8. /\ w[n + 1] # "*" => (GlobMatches(pattern, path) <=> path = pattern)
      /\ w[n + 1] = "*" =>
           (GlobMatches(pattern, path) <=>
              2 * n <= Len(path) /\ \A k \in 1..2 * n : path[k] = pattern[k])
  <2>1. Len(pattern) - 1 = 2 * n
    BY <1>5
  <2> QED
    <3>1. PICK T : T = S \cup {"/"}
      OBVIOUS
    <3>2. pattern \in Seq(T) /\ path \in Seq(T) /\ pattern # <<>>
      BY <1>4, <1>5, <3>1
    <3>3. /\ pattern[Len(pattern)] # "*" => (GlobMatches(pattern, path) <=> path = pattern)
          /\ pattern[Len(pattern)] = "*" =>
               (GlobMatches(pattern, path) <=>
                  /\ Len(pattern) - 1 <= Len(path)
                  /\ \A k \in 1..Len(pattern) - 1 : path[k] = pattern[k])
      BY <1>6, <3>2, GlobFacts
    <3> QED
      BY <1>7, <2>1, <3>3
<1>9. pattern \in PatternsOf(p) <=>
        w = p \/ \E m \in 0..Len(p) - 1 : w = Append(SubSeq(p, 1, m), "*")
  <2>1. ASSUME NEW m \in 0..Len(p) - 1
        PROVE  Append(SubSeq(p, 1, m), "*") \in Seq(S) /\ Append(SubSeq(p, 1, m), "*") # <<>>
    <3>1. SubSeq(p, 1, m) \in Seq(S)
      <4>1. m \in 0..Len(p)
        BY <1>4
      <4> QED
        BY <1>2, <4>1, SubSeqProperties
    <3>2. "*" \in S
      BY <1>1 DEF PatternName
    <3> QED
      BY <3>1, <3>2, AppendProperties
  <2>2. pattern \in PatternsOf(p) <=>
          \/ pattern = Joined(p)
          \/ \E m \in 0..Len(p) - 1 : pattern = Joined(Append(SubSeq(p, 1, m), "*"))
    BY DEF PatternsOf
  <2>3. \A v \in Seq(S) : v # <<>> => (pattern = Joined(v) <=> w = v)
    BY <1>2, <1>3, JoinedOnce
  <2> QED
    BY <1>2, <2>1, <2>2, <2>3
<1>10. Compiled(pattern) <=> \A i \in 1..Len(w) : w[i] # "["
  <2>1. Compiled(pattern) <=> \A k \in 1..Len(pattern) : pattern[k] # "["
    <3>1. Compiled(pattern) <=> ~ \E k \in 1..Len(pattern) : pattern[k] = "["
      BY DEF Compiled, Contains
    <3> QED
      BY <3>1
  <2>2. ASSUME \A i \in 1..Len(w) : w[i] # "[", NEW k \in 1..Len(pattern) PROVE pattern[k] # "["
    <3>1. k \in 1..2 * (n + 1)
      BY <1>5
    <3>2. PICK i \in 1..n + 1 : k = 2 * i - 1 \/ k = 2 * i
      BY <1>5, <3>1, OddOrEven
    <3>3. k = 2 * i => i \in 1..Len(w) - 1
      BY <1>5
    <3> QED
      BY <1>5, <2>2, <3>2, <3>3
  <2>3. ASSUME \A k \in 1..Len(pattern) : pattern[k] # "[", NEW i \in 1..Len(w) PROVE w[i] # "["
    <3>1. 2 * i - 1 \in 1..Len(pattern)
      BY <1>5
    <3> QED
      BY <1>5, <2>3, <3>1
  <2> QED
    BY <2>1, <2>2, <2>3
<1>11. CASE w[n + 1] # "*"
  <2>1. ASSUME NEW m \in 0..Len(p) - 1, w = Append(SubSeq(p, 1, m), "*") PROVE FALSE
    <3>1. m \in 0..Len(p)
      BY <1>4
    <3>2. Len(SubSeq(p, 1, m)) = m /\ SubSeq(p, 1, m) \in Seq(S)
      BY <1>2, <3>1, SubSeqProperties
    <3>3. Len(w) = m + 1 /\ w[m + 1] = "*"
      BY <2>1, <3>2, AppendProperties
    <3> QED
      BY <1>5, <1>11, <3>3
  <2>2. path = pattern <=> w = p
    BY <1>2, <1>3, JoinedOnce
  <2>3. w = p => Compiled(pattern)
    BY <1>2, <1>10
  <2> QED
    BY <1>3, <1>8, <1>9, <1>11, <2>1, <2>2, <2>3
<1>12. CASE w[n + 1] = "*"
  <2>1. w # p
    <3>1. n + 1 \in 1..Len(w)
      BY <1>5
    <3> QED
      BY <1>2, <1>12, <3>1
  <2>2. PICK d : d = SubSeq(w, 1, n)
    OBVIOUS
  <2>3. d \in Seq(S) /\ Len(d) = n /\ (\A i \in 1..n : d[i] = w[i]) /\ w = Append(d, "*")
    <3>1. n \in 0..Len(w)
      BY <1>5
    <3>2. d \in Seq(S) /\ Len(d) = n /\ \A i \in 1..n : d[i] = w[i]
      BY <1>2, <2>2, <3>1, <1>5, SubSeqProperties
    <3>3. "*" \in S
      BY <1>1 DEF PatternName
    <3>4. PICK longer : longer = Append(d, "*")
      OBVIOUS
    <3>5. /\ longer \in Seq(S) /\ Len(longer) = n + 1 /\ longer[n + 1] = "*"
          /\ \A i \in 1..n : longer[i] = d[i]
      BY <3>2, <3>3, <3>4, AppendProperties
    <3>6. \A i \in 1..n + 1 : w[i] = longer[i]
      BY <1>5, <1>12, <3>2, <3>5
    <3>7. w = [i \in 1..n + 1 |-> w[i]] /\ longer = [i \in 1..n + 1 |-> longer[i]]
      BY <1>2, <1>5, <3>5
    <3> QED
      BY <3>2, <3>4, <3>6, <3>7
  <2>4. GlobMatches(pattern, path) <=> n < Len(p) /\ \A i \in 1..n : p[i] = d[i]
    <3>1. n \in 0..Len(d)
      BY <1>5, <2>3
    <3>2. (2 * n <= Len(path) /\ \A k \in 1..2 * n : path[k] = pattern[k])
            <=> (n < Len(p) /\ \A i \in 1..n : p[i] = d[i])
      <4>1. pattern = Joined(Append(d, "*")) /\ path = Joined(p)
        BY <1>3, <2>3
      <4>2. SameUpto(Joined(p), Joined(Append(d, "*")), 2 * n) <=> n < Len(p) /\ SameUpto(p, d, n)
        <5>1. p \in Seq(S) /\ d \in Seq(S) /\ p # <<>> /\ "/" \notin S
          BY <1>2, <2>3
        <5> QED
          BY <3>1, <5>1, JoinedStarts, Zenon
      <4>3. n < Len(p) => n <= Len(p)
        BY <1>4, <1>5
      <4> QED
        BY <4>1, <4>2, <4>3 DEF SameUpto
    <3> QED
      BY <1>8, <1>12, <3>2
  <2>5. (n < Len(p) /\ \A i \in 1..n : p[i] = d[i]) <=>
          \E m \in 0..Len(p) - 1 : w = Append(SubSeq(p, 1, m), "*")
    <3>1. ASSUME NEW m \in 0..Len(p) - 1, w = Append(SubSeq(p, 1, m), "*")
          PROVE  n < Len(p) /\ \A i \in 1..n : p[i] = d[i]
      <4>1. m \in 0..Len(p)
        BY <1>4
      <4>2. /\ Len(SubSeq(p, 1, m)) = m /\ SubSeq(p, 1, m) \in Seq(S)
            /\ \A i \in 1..m : SubSeq(p, 1, m)[i] = p[i]
        BY <1>2, <4>1, SubSeqProperties
      <4>3. Len(w) = m + 1 /\ \A i \in 1..m : w[i] = SubSeq(p, 1, m)[i]
        BY <3>1, <4>2, AppendProperties
      <4>4. m = n
        BY <1>5, <4>3
      <4> QED
        BY <1>4, <2>3, <4>2, <4>3, <4>4
    <3>2. ASSUME n < Len(p), \A i \in 1..n : p[i] = d[i]
          PROVE  n \in 0..Len(p) - 1 /\ w = Append(SubSeq(p, 1, n), "*")
      <4>1. n \in 0..Len(p) - 1 /\ n \in 0..Len(p)
        BY <1>4, <1>5, <3>2
      <4>2. /\ Len(SubSeq(p, 1, n)) = n /\ SubSeq(p, 1, n) \in Seq(S)
            /\ \A i \in 1..n : SubSeq(p, 1, n)[i] = p[i]
        BY <1>2, <4>1, SubSeqProperties
      <4>3. SubSeq(p, 1, n) = d
        BY <2>3, <3>2, <4>2
      <4> QED
        BY <2>3, <4>1, <4>3
    <3> QED
      BY <3>1, <3>2
  <2>6. GlobMatches(pattern, path) => Compiled(pattern)
    <3>1. ASSUME GlobMatches(pattern, path), NEW i \in 1..Len(w) PROVE w[i] # "["
      <4>1. CASE i = n + 1
        BY <1>12, <4>1
      <4>2. CASE i \in 1..n
        <5>1. w[i] = p[i] /\ i \in 1..Len(p)
          BY <1>4, <1>5, <2>3, <2>4, <3>1, <4>2
        <5> QED
          BY <1>2, <5>1
      <4> QED
        BY <1>5, <4>1, <4>2
    <3> QED
      BY <1>10, <3>1
  <2> QED
    BY <1>3, <1>9, <2>1, <2>4, <2>5, <2>6
<1> QED
  BY <1>11, <1>12

-----------------------------------------------------------------------------
\* What a prefix and the rest of a path have.
LEMMA PrefixFacts ==
  ASSUME NEW S, NEW pre \in Seq(S), NEW t \in Seq(S)
  PROVE  /\ pre \o t \in Seq(S) /\ Len(pre \o t) = Len(pre) + Len(t)
         /\ Len(pre) \in Nat /\ Len(t) \in Nat
         /\ \A i \in 1..Len(pre) : (pre \o t)[i] = pre[i]
         /\ \A i \in 1..Len(t) : (pre \o t)[Len(pre) + i] = t[i]
         /\ Beyond(pre \o t, Len(pre)) = t
<1>1. /\ pre \o t \in Seq(S) /\ Len(pre \o t) = Len(pre) + Len(t)
      /\ \A i \in 1..Len(pre) + Len(t) :
           (pre \o t)[i] = IF i <= Len(pre) THEN pre[i] ELSE t[i - Len(pre)]
  BY ConcatProperties
<1>2. Len(pre) \in Nat /\ Len(t) \in Nat
  OBVIOUS
<1>3. \A i \in 1..Len(pre) : (pre \o t)[i] = pre[i]
  BY <1>1, <1>2
<1>4. \A i \in 1..Len(t) : (pre \o t)[Len(pre) + i] = t[i]
  BY <1>1, <1>2
<1>5. Beyond(pre \o t, Len(pre)) = t
  <2>1. PICK s, m, n : s = pre \o t /\ m = Len(pre) + 1 /\ n = Len(pre) + Len(t)
    OBVIOUS
  <2>2. \A i \in m..n : s[i] \in S
    <3>1. \A i \in m..n : i \in 1..Len(s)
      BY <1>1, <1>2, <2>1
    <3> QED
      BY <1>1, <2>1, <3>1, ElementOfSeq
  <2>3. PICK u : u = SubSeq(s, m, n)
    OBVIOUS
  <2>4. /\ u \in Seq(S) /\ Len(u) = IF m <= n THEN n - m + 1 ELSE 0
        /\ \A i \in 1..n - m + 1 : u[i] = s[m + i - 1]
    <3>1. m \in Int /\ n \in Int
      BY <1>2, <2>1
    <3> QED
      BY <2>2, <2>3, <3>1, SubSeqProperties
  <2>5. Len(u) = Len(t) /\ \A i \in 1..Len(t) : u[i] = s[Len(pre) + i]
    <3>1. n - m + 1 = Len(t) /\ \A i \in 1..Len(t) : m + i - 1 = Len(pre) + i
      BY <1>2, <2>1
    <3>2. Len(u) = Len(t)
      BY <1>2, <2>1, <2>4
    <3> QED
      BY <2>4, <3>1, <3>2
  <2>6. u = t
    <3>1. u = [i \in 1..Len(u) |-> u[i]] /\ t = [i \in 1..Len(t) |-> t[i]]
      BY <2>4
    <3>2. \A i \in 1..Len(t) : u[i] = t[i]
      BY <1>4, <2>1, <2>5
    <3> QED
      BY <2>5, <3>1, <3>2
  <2> QED
    BY <1>1, <2>1, <2>3, <2>6 DEF Beyond
<1> QED
  BY <1>1, <1>2, <1>3, <1>4, <1>5

\* The dots and the marker that are found first are those that are dropped.
LEMMA DotsDropped ==
  ASSUME NEW t, Len(t) \in Nat, NEW n \in Nat, 2 * n <= Len(t),
         \A m \in 0..n - 1 : Follows(t, 2 * m, <<".", "/">>), ~Follows(t, 2 * n, <<".", "/">>)
  PROVE  WithoutDots(t) = Beyond(t, 2 * n)
<1>1. PICK T : T = {m \in 0..Len(t) : ~Follows(t, 2 * m, <<".", "/">>)}
  OBVIOUS
<1>2. n \in T /\ T \subseteq Nat
  BY <1>1
<1>3. Min(T) \in T /\ Min(T) <= n
  BY <1>2, MinIs
<1>4. Min(T) = n
  <2>1. PICK least : least = Min(T)
    OBVIOUS
  <2>2. least \notin 0..n - 1
    BY <1>1, <1>3, <2>1
  <2>3. least \in Nat /\ least <= n
    BY <1>2, <1>3, <2>1
  <2> QED
    BY <2>1, <2>2, <2>3
<1> QED
  BY <1>1, <1>4 DEF WithoutDots

\* The first marker of a path is the one that is dropped,
LEMMA MarkerDropped ==
  ASSUME NEW t, Len(t) \in Nat, NEW i \in 0..Len(t), Follows(t, i, RepoMarker),
         \A j \in 0..i - 1 : ~Follows(t, j, RepoMarker)
  PROVE  BelowMarker(t) = Beyond(t, i + 3)
<1>1. PICK T : T = {j \in 0..Len(t) : Follows(t, j, RepoMarker)}
  OBVIOUS
<1>2. i \in T /\ T \subseteq Nat
  BY <1>1
<1>3. Min(T) \in T /\ Min(T) <= i
  BY <1>2, MinIs
<1>4. Min(T) = i
  <2>1. PICK least : least = Min(T)
    OBVIOUS
  <2>2. least \notin 0..i - 1
    BY <1>1, <1>3, <2>1
  <2>3. least \in Nat /\ least <= i
    BY <1>2, <1>3, <2>1
  <2> QED
    BY <2>1, <2>2, <2>3
<1>5. Len(RepoMarker) = 3
  <2>1. \A x : Len(<<"/", x, "/">>) = 3
    OBVIOUS
  <2> QED
    BY <2>1, SelectionAssumption
<1> QED
  BY <1>1, <1>2, <1>4, <1>5 DEF BelowMarker

\* if there is one.
LEMMA NoMarkerDropped ==
  ASSUME NEW t, \A j \in 0..Len(t) : ~Follows(t, j, RepoMarker)
  PROVE  BelowMarker(t) = t
BY DEF BelowMarker

\* So is a slash at its end.
LEMMA SlashesDropped ==
  ASSUME NEW S, NEW y \in Seq(S), y # <<>>, y[Len(y)] # "/",
         NEW t \in Seq(S), t = y \/ t = Append(y, "/")
  PROVE  WithoutSlashes(t) = y
<1>1. Len(y) \in Nat /\ Len(y) >= 1
  BY EmptySeq
<1>2. /\ Len(t) = Len(y) \/ (Len(t) = Len(y) + 1 /\ t[Len(y) + 1] = "/")
      /\ \A i \in 1..Len(y) : t[i] = y[i]
  <2>1. CASE t = y
    BY <2>1
  <2>2. CASE t = Append(y, "/")
    <3>1. PICK T : T = S \cup {"/"}
      OBVIOUS
    <3>2. y \in Seq(T)
      BY <3>1, SeqMonotonic
    <3> QED
      BY <2>2, <3>1, <3>2, AppendProperties
  <2> QED
    BY <2>1, <2>2
<1>3. PICK T : T = {0} \cup {i \in 1..Len(t) : t[i] # "/"}
  OBVIOUS
<1>4. /\ Len(y) \in T /\ T \subseteq 0..Len(t) /\ Len(t) \in Nat
      /\ \A k \in T : k <= Len(y)
  <2>1. Len(y) \in 1..Len(t) /\ t[Len(y)] # "/"
    BY <1>1, <1>2
  <2>2. ASSUME NEW k \in T PROVE k <= Len(y)
    BY <1>1, <1>2, <1>3
  <2> QED
    BY <1>1, <1>2, <1>3, <2>1, <2>2
<1>5. Max(T) = Len(y)
  <2>1. Max(T) \in T /\ \A k \in T : k <= Max(T)
    <3>1. PICK b : b = Len(t)
      OBVIOUS
    <3>2. b \in Nat /\ T \subseteq 0..b /\ T # {}
      BY <1>4, <3>1
    <3> QED
      BY <3>2, MaxIs
  <2>2. PICK greatest : greatest = Max(T)
    OBVIOUS
  <2>3. greatest \in T /\ greatest <= Len(y) /\ Len(y) <= greatest /\ greatest \in Nat
    <3>1. greatest \in T /\ \A k \in T : k <= greatest
      BY <2>1, <2>2, Zenon
    <3>2. greatest \in 0..Len(t)
      BY <1>4, <3>1
    <3>3. greatest <= Len(y) /\ Len(y) <= greatest
      BY <1>4, <3>1
    <3> QED
      BY <1>4, <3>1, <3>2, <3>3
  <2> QED
    BY <1>1, <2>2, <2>3
<1>6. SubSeq(t, 1, Len(y)) = y
  <2>1. PICK u : u = SubSeq(t, 1, Len(y))
    OBVIOUS
  <2>2. \A i \in 1..Len(y) : t[i] \in S
    BY <1>2, ElementOfSeq
  <2>3. /\ u \in Seq(S) /\ Len(u) = Len(y)
        /\ \A i \in 1..Len(y) - 1 + 1 : u[i] = t[1 + i - 1]
    BY <1>1, <2>1, <2>2, SubSeqProperties
  <2>4. \A i \in 1..Len(y) : u[i] = y[i]
    BY <1>1, <1>2, <2>3
  <2>5. u = [i \in 1..Len(u) |-> u[i]] /\ y = [i \in 1..Len(y) |-> y[i]]
    BY <2>3
  <2> QED
    BY <2>1, <2>3, <2>4, <2>5
<1> QED
  BY <1>3, <1>5, <1>6 DEF WithoutSlashes

\* The path of a place that is not marked, and perhaps a slash: nothing of it is dropped
\* but the slash.
IsBare(t, p) ==
  /\ t = Joined(p) \/ (t = Append(Joined(p), "/") /\ (Len(p) = 1 \/ p[Len(p)] # RepoMarker[2]))
  /\ \A i \in 2..Len(p) - 1 : p[i] # RepoMarker[2]

\* In the path of a place that is not marked nothing stands that is dropped.
LEMMA BareFacts ==
  ASSUME NEW p \in Seq(PatternName), p # <<>>, NEW t, IsBare(t, p)
  PROVE  /\ t \in Seq(PatternName \cup {"/"}) /\ Len(t) >= 1 /\ t[1] # "." /\ t[1] # "/"
         /\ \A i \in 0..Len(t) : ~Follows(t, i, RepoMarker)
         /\ WithoutSlashes(t) = Joined(p)
<1>1. PICK y, S, n, M : y = Joined(p) /\ S = PatternName \cup {"/"} /\ n = Len(p) /\ M = RepoMarker[2]
  OBVIOUS
<1>2. /\ y \in Seq(S) /\ n \in Nat /\ n >= 1 /\ Len(y) = 2 * n - 1 /\ y # <<>>
      /\ \A i \in 1..n : y[2 * i - 1] = p[i]
      /\ \A i \in 1..n - 1 : y[2 * i] = "/"
  <2>1. /\ y \in Seq(S) /\ n \in Nat /\ n >= 1 /\ Len(y) = 2 * n - 1
        /\ \A i \in 1..n : y[2 * i - 1] = p[i]
        /\ \A i \in 1..n - 1 : y[2 * i] = "/"
    BY <1>1, JoinedFacts
  <2>2. y # <<>>
    BY <2>1
  <2> QED
    BY <2>1, <2>2
<1>3. \A i \in 1..n : p[i] \notin {".", "/"}
  <2>1. "." \notin PatternName /\ "/" \notin PatternName
    BY DEF PatternName, FileName
  <2> QED
    BY <1>1, <2>1, ElementOfSeq
<1>4. /\ t \in Seq(S) /\ \A i \in 1..Len(y) : t[i] = y[i]
      /\ Len(t) = 2 * n - 1 \/ (Len(t) = 2 * n /\ t = Append(y, "/") /\ t[2 * n] = "/")
  <2>1. CASE t = y
    BY <1>2, <2>1
  <2>2. CASE t = Append(y, "/")
    <3>1. "/" \in S
      BY <1>1
    <3>2. /\ t \in Seq(S) /\ Len(t) = Len(y) + 1 /\ t[Len(y) + 1] = "/"
          /\ \A i \in 1..Len(y) : t[i] = y[i]
      BY <1>2, <2>2, <3>1, AppendProperties
    <3> QED
      BY <1>2, <2>2, <3>2
  <2> QED
    BY <1>1, <2>1, <2>2 DEF IsBare
<1>5. t[1] = p[1] /\ 1 \in 1..n
  <2>1. 1 \in 1..n /\ 1 \in 1..Len(y) /\ 2 * 1 - 1 = 1
    BY <1>2
  <2> QED
    BY <1>2, <1>4, <2>1
<1>6. ASSUME NEW i \in 0..Len(t), Follows(t, i, RepoMarker) PROVE FALSE
  <2>1. i + 3 <= Len(t) /\ t[i + 1] = "/" /\ t[i + 2] = M /\ t[i + 3] = "/"
    <3>1. PICK marker : marker = <<"/", M, "/">>
      OBVIOUS
    <3>2. RepoMarker = marker
      BY <1>1, <3>1, SelectionAssumption
    <3>3. Len(marker) = 3 /\ marker[1] = "/" /\ marker[2] = M /\ marker[3] = "/"
      BY <3>1
    <3>4. i + 3 <= Len(t) /\ \A k \in 1..3 : t[i + k] = marker[k]
      BY <1>6, <3>2, <3>3 DEF Follows
    <3> QED
      BY <3>3, <3>4
  <2>2. i \in Nat /\ Len(t) <= 2 * n /\ Len(t) \in Nat
    BY <1>2, <1>4
  <2>3. i + 1 \in 1..2 * n
    BY <1>2, <2>1, <2>2
  <2>4. PICK j \in 1..n : i + 1 = 2 * j - 1 \/ i + 1 = 2 * j
    BY <1>2, <2>3, OddOrEven
  <2>5. CASE i + 1 = 2 * j - 1
    <3>1. t[i + 1] = p[j]
      BY <1>2, <1>4, <2>2, <2>4, <2>5
    <3> QED
      BY <1>3, <2>1, <3>1
  <2>6. CASE i + 1 = 2 * j
    <3>1. /\ j + 1 \in 1..n /\ i + 2 = 2 * (j + 1) - 1 /\ i + 3 = 2 * (j + 1)
          /\ i + 2 \in 1..Len(y)
      BY <1>2, <2>1, <2>2, <2>4, <2>6
    <3>2. p[j + 1] = M
      BY <1>2, <1>4, <2>1, <3>1
    <3>3. CASE j + 1 = n
      <4>1. Len(t) = 2 * n /\ t = Append(y, "/") /\ n # 1
        BY <1>2, <1>4, <2>1, <2>4, <3>1, <3>3
      <4>2. t # y
        BY <1>2, <4>1
      <4> QED
        BY <1>1, <3>2, <3>3, <4>1, <4>2 DEF IsBare
    <3>4. CASE j + 1 # n
      <4>1. j + 1 \in 2..n - 1 /\ n # 1
        BY <1>2, <2>4, <3>1, <3>4
      <4> QED
        BY <1>1, <3>2, <4>1 DEF IsBare
    <3> QED
      BY <3>3, <3>4
  <2> QED
    BY <2>4, <2>5, <2>6
<1>7. WithoutSlashes(t) = y
  <2>1. y[Len(y)] # "/"
    <3>1. n \in 1..n /\ Len(y) = 2 * n - 1
      BY <1>2
    <3> QED
      BY <1>2, <1>3, <3>1
  <2>2. t = y \/ t = Append(y, "/")
    BY <1>1 DEF IsBare
  <2> QED
    BY <1>2, <1>4, <2>1, <2>2, SlashesDropped
<1> QED
  BY <1>1, <1>2, <1>3, <1>4, <1>5, <1>6, <1>7

\* However a place is spelled, its path is what is left.
Roots ==
  {<<>>, <<".", "/">>, <<".", "/", ".", "/">>, <<"/", "home", "/", RepoMarker[2], "/">>,
   <<"home", "/", RepoMarker[2], "/">>}

\* What is left of a path below any of the roots.
LEMMA BareIsLeft ==
  ASSUME NEW p \in Seq(PatternName), p # <<>>, NEW t, IsBare(t, p), NEW pre \in Roots
  PROVE  WithoutSlashes(BelowMarker(WithoutDots(pre \o t))) = Joined(p)
<1>1. PICK S, M, s, dots : /\ S = PatternName \cup {"/", ".", "home", RepoMarker[2]}
                     /\ M = RepoMarker[2] /\ s = pre \o t /\ dots = <<".", "/">>
  OBVIOUS
<1>2. /\ t \in Seq(S) /\ Len(t) \in Nat /\ Len(t) >= 1 /\ t[1] # "."
      /\ WithoutSlashes(BelowMarker(t)) = Joined(p)
  <2>1. /\ t \in Seq(PatternName \cup {"/"}) /\ Len(t) >= 1 /\ t[1] # "."
        /\ \A i \in 0..Len(t) : ~Follows(t, i, RepoMarker)
        /\ WithoutSlashes(t) = Joined(p)
    BY BareFacts
  <2>2. t \in Seq(S)
    BY <1>1, <2>1, SeqMonotonic
  <2>3. BelowMarker(t) = t
    BY <2>1, NoMarkerDropped
  <2> QED
    BY <2>1, <2>2, <2>3
<1>3. RepoMarker = <<"/", M, "/">> /\ M \notin {"/", ".", "home"}
  BY <1>1, SelectionAssumption
<1>4. /\ Len(dots) = 2 /\ dots[1] = "." /\ dots[2] = "/"
      /\ Len(RepoMarker) = 3 /\ RepoMarker[1] = "/" /\ RepoMarker[2] = M /\ RepoMarker[3] = "/"
  BY <1>1, <1>3
<1>5. \A u, i : /\ Follows(u, i, dots) <=> i + 2 <= Len(u) /\ u[i + 1] = "." /\ u[i + 2] = "/"
                /\ Follows(u, i, RepoMarker) <=>
                     i + 3 <= Len(u) /\ u[i + 1] = "/" /\ u[i + 2] = M /\ u[i + 3] = "/"
  BY <1>4 DEF Follows
<1>6. ASSUME pre \in Seq(S)
      PROVE  /\ s \in Seq(S) /\ Len(s) = Len(pre) + Len(t) /\ Len(pre) \in Nat
             /\ \A i \in 1..Len(pre) : s[i] = pre[i]
             /\ s[Len(pre) + 1] = t[1] /\ Beyond(s, Len(pre)) = t
  <2>1. 1 \in 1..Len(t)
    BY <1>2
  <2> QED
    BY <1>1, <1>2, <1>6, <2>1, PrefixFacts
<1>7. ASSUME NEW n \in {0, 1, 2},
             pre = IF n = 0 THEN <<>> ELSE IF n = 1 THEN <<".", "/">> ELSE <<".", "/", ".", "/">>
      PROVE  WithoutDots(s) = t
  <2>1. /\ pre \in Seq(S) /\ Len(pre) = 2 * n
        /\ n # 0 => pre[1] = "." /\ pre[2] = "/"
        /\ n = 2 => pre[3] = "." /\ pre[4] = "/"
    <3>1. "." \in S /\ "/" \in S
      BY <1>1
    <3> QED
      BY <1>7, <3>1
  <2>2. /\ s \in Seq(S) /\ Len(s) = 2 * n + Len(t) /\ Len(s) \in Nat
        /\ \A i \in 1..2 * n : s[i] = pre[i]
        /\ s[2 * n + 1] = t[1] /\ Beyond(s, 2 * n) = t
    BY <1>2, <1>6, <2>1
  <2>3. ~Follows(s, 2 * n, dots)
    BY <1>2, <1>5, <2>2
  <2>4. ASSUME NEW m \in 0..n - 1 PROVE Follows(s, 2 * m, dots)
    <3>1. 2 * m + 2 <= Len(s) /\ 2 * m + 1 \in 1..2 * n /\ 2 * m + 2 \in 1..2 * n
      BY <1>2, <2>2
    <3>2. s[2 * m + 1] = pre[2 * m + 1] /\ s[2 * m + 2] = pre[2 * m + 2]
      BY <2>2, <3>1
    <3>3. pre[2 * m + 1] = "." /\ pre[2 * m + 2] = "/"
      <4>1. m = 0 \/ (m = 1 /\ n = 2)
        OBVIOUS
      <4> QED
        BY <2>1, <4>1
    <3> QED
      BY <1>5, <3>1, <3>2, <3>3
  <2>5. 2 * n <= Len(s) /\ n \in Nat
    BY <1>2, <2>2
  <2> QED
    BY <1>1, <2>2, <2>3, <2>4, <2>5, DotsDropped
<1>8. ASSUME NEW i \in {1, 2},
             pre = IF i = 1 THEN <<"home", "/", M, "/">> ELSE <<"/", "home", "/", M, "/">>
      PROVE  BelowMarker(WithoutDots(s)) = t
  <2>1. /\ pre \in Seq(S) /\ Len(pre) = i + 3 /\ pre[i] = "home" /\ (i = 2 => pre[1] = "/")
        /\ pre[i + 1] = "/" /\ pre[i + 2] = M /\ pre[i + 3] = "/"
    <3>1. "." \in S /\ "/" \in S /\ M \in S /\ "home" \in S
      BY <1>1
    <3>2. CASE i = 1
      <4>1. pre = <<"home", "/", M, "/">>
        BY <1>8, <3>2
      <4> QED
        BY <3>1, <3>2, <4>1
    <3>3. CASE i = 2
      <4>1. pre = <<"/", "home", "/", M, "/">>
        BY <1>8, <3>3
      <4> QED
        BY <3>1, <3>3, <4>1
    <3> QED
      BY <3>2, <3>3
  <2>2. /\ s \in Seq(S) /\ Len(s) = i + 3 + Len(t) /\ Len(s) \in Nat
        /\ \A j \in 1..i + 3 : s[j] = pre[j]
        /\ Beyond(s, i + 3) = t
    <3>1. PICK n : n = i + 3
      OBVIOUS
    <3>2. n \in Nat /\ Len(pre) = n /\ pre \in Seq(S)
      BY <2>1, <3>1
    <3>3. /\ s \in Seq(S) /\ Len(s) = n + Len(t)
          /\ (\A j \in 1..n : s[j] = pre[j]) /\ Beyond(s, n) = t
      BY <1>6, <3>2
    <3>4. Len(s) \in Nat
      BY <3>3
    <3> QED
      BY <3>1, <3>3, <3>4
  <2>3. s[1] # "."
    <3>1. 1 \in 1..i + 3
      OBVIOUS
    <3>2. s[1] = pre[1]
      BY <2>2, <3>1
    <3>3. pre[1] = "home" \/ pre[1] = "/"
      BY <2>1
    <3> QED
      BY <3>2, <3>3
  <2>4. WithoutDots(s) = s
    <3>1. ~Follows(s, 2 * 0, dots)
      BY <1>5, <2>3
    <3>2. WithoutDots(s) = Beyond(s, 0)
      <4>1. 2 * 0 <= Len(s) /\ Len(s) \in Nat /\ 0 \in Nat /\ 2 * 0 = 0
        BY <2>2
      <4>2. \A m \in 0..0 - 1 : Follows(s, 2 * m, <<".", "/">>)
        OBVIOUS
      <4>3. WithoutDots(s) = Beyond(s, 2 * 0)
        BY <1>1, <3>1, <4>1, <4>2, DotsDropped
      <4> QED
        BY <4>1, <4>3
    <3>3. Beyond(s, 0) = s
      <4>1. \A x \in Seq(S) : <<>> \o x = x
        BY ConcatEmptySeq
      <4>2. <<>> \in Seq(S) /\ Len(<<>>) = 0
        OBVIOUS
      <4>3. Beyond(<<>> \o s, Len(<<>>)) = s
        BY <2>2, <4>2, PrefixFacts
      <4> QED
        BY <2>2, <4>1, <4>2, <4>3
    <3> QED
      BY <3>2, <3>3
  <2>5. Follows(s, i, RepoMarker)
    <3>1. s[i + 1] = "/" /\ s[i + 2] = M /\ s[i + 3] = "/" /\ i + 3 <= Len(s)
      BY <1>2, <2>1, <2>2
    <3> QED
      BY <1>5, <3>1
  <2>6. ASSUME NEW j \in 0..i - 1 PROVE ~Follows(s, j, RepoMarker)
    <3>1. CASE j = i - 1
      <4>1. s[j + 1] = "home"
        <5>1. j + 1 = i /\ i \in 1..i + 3
          BY <3>1
        <5> QED
          BY <2>1, <2>2, <5>1
      <4> QED
        BY <1>5, <4>1
    <3>2. CASE j # i - 1
      <4>1. s[j + 2] = "home"
        <5>1. j + 2 = i /\ i \in 1..i + 3
          BY <3>2
        <5> QED
          BY <2>1, <2>2, <5>1
      <4> QED
        BY <1>3, <1>5, <4>1
    <3> QED
      BY <3>1, <3>2
  <2>7. i \in 0..Len(s)
    BY <1>2, <2>2
  <2> QED
    BY <2>2, <2>4, <2>5, <2>6, <2>7, MarkerDropped
<1>9. BelowMarker(WithoutDots(s)) = BelowMarker(t) \/ BelowMarker(WithoutDots(s)) = t
  <2>1. CASE pre = <<>>
    BY <1>7, <2>1
  <2>2. CASE pre = <<".", "/">>
    BY <1>7, <2>2
  <2>3. CASE pre = <<".", "/", ".", "/">>
    BY <1>7, <2>3
  <2>4. CASE pre = <<"/", "home", "/", M, "/">>
    BY <1>8, <2>4
  <2>5. CASE pre = <<"home", "/", M, "/">>
    BY <1>8, <2>5
  <2> QED
    BY <1>1, <2>1, <2>2, <2>3, <2>4, <2>5 DEF Roots
<1>10. WithoutSlashes(t) = Joined(p)
  BY BareFacts
<1> QED
  BY <1>1, <1>2, <1>9, <1>10

\* Backslashes are written back.
LEMMA ForwardFacts ==
  ASSUME NEW S, NEW t \in Seq(S), "\\" \notin S
  PROVE  Forward(t) = t /\ Forward(Backslashed(t)) = t /\ Len(Backslashed(t)) = Len(t)
<1>1. \A i \in 1..Len(t) : t[i] # "\\"
  BY ElementOfSeq
<1>2. t = [i \in 1..Len(t) |-> t[i]] /\ Len(t) \in Nat
  OBVIOUS
<1>3. Forward(t) = t
  BY <1>1, <1>2 DEF Forward
<1>4. PICK b : b = Backslashed(t)
  OBVIOUS
<1>5. b = [i \in 1..Len(t) |-> IF t[i] = "/" THEN "\\" ELSE t[i]]
  BY <1>4 DEF Backslashed
<1>6. Len(b) = Len(t)
  BY <1>2, <1>5
<1>7. \A i \in 1..Len(t) : (IF b[i] = "\\" THEN "/" ELSE b[i]) = t[i]
  BY <1>1, <1>5
<1>8. Forward(b) = t
  <2>1. Forward(b) = [i \in 1..Len(t) |-> IF b[i] = "\\" THEN "/" ELSE b[i]]
    BY <1>6 DEF Forward
  <2> QED
    BY <1>2, <1>7, <2>1
<1> QED
  BY <1>3, <1>4, <1>6, <1>8

\* The pattern of a place is its own normal form.
LEMMA PatternsAreNormal ==
  ASSUME NEW w \in PatternPlace
  PROVE  NormalizePath(Joined(w)) = Joined(w)
<1>1. /\ w \in Seq(PatternName) /\ w # <<>> /\ \A i \in 2..Len(w) : w[i] # RepoMarker[2]
  BY DEF PatternPlace
<1>2. PICK t : t = Joined(w)
  OBVIOUS
<1>3. IsBare(t, w)
  BY <1>1, <1>2 DEF IsBare
<1>4. t \in Seq(PatternName \cup {"/"})
  BY <1>1, <1>3, BareFacts
<1>5. <<>> \o t = t
  BY <1>4, ConcatEmptySeq
<1>6. "\\" \notin PatternName \cup {"/"}
  BY DEF PatternName, FileName
<1>7. Forward(t) = t
  BY <1>4, <1>6, ForwardFacts
<1>8. WithoutSlashes(BelowMarker(WithoutDots(<<>> \o t))) = Joined(w)
  <2>1. <<>> \in Roots
    BY DEF Roots
  <2> QED
    BY <1>1, <1>3, <2>1, BareIsLeft
<1> QED
  BY <1>2, <1>5, <1>7, <1>8 DEF NormalizePath

\* The roots, written out.
LEMMA RootsWritten ==
  ASSUME NEW M
  PROVE  /\ <<"/", "home">> \o <<"/", M, "/">> = <<"/", "home", "/", M, "/">>
         /\ <<"home">> \o <<"/", M, "/">> = <<"home", "/", M, "/">>
<1>0. PICK S, a, b, c, d, e :
        /\ S = {"/", "home", M} /\ a = "/" /\ b = "home" /\ c = "/" /\ d = M /\ e = "/"
  OBVIOUS
<1>1. PICK one, two, three : one = <<b>> /\ two = <<a, b>> /\ three = <<c, d, e>>
  OBVIOUS
<1>2. /\ one \in Seq(S) /\ Len(one) = 1 /\ one[1] = b
      /\ two \in Seq(S) /\ Len(two) = 2 /\ two[1] = a /\ two[2] = b
      /\ three \in Seq(S) /\ Len(three) = 3 /\ three[1] = c /\ three[2] = d /\ three[3] = e
  BY <1>0, <1>1
<1>3. PICK four, five : four = one \o three /\ five = two \o three
  OBVIOUS
<1>4. /\ four \in Seq(S) /\ Len(four) = 4
      /\ four[1] = b /\ four[2] = c /\ four[3] = d /\ four[4] = e
  <2>1. /\ one \o three \in Seq(S) /\ Len(one \o three) = Len(one) + Len(three)
        /\ \A i \in 1..Len(one) + Len(three) :
             (one \o three)[i] = IF i <= Len(one) THEN one[i] ELSE three[i - Len(one)]
    BY <1>2, ConcatProperties
  <2>2. /\ four \in Seq(S) /\ Len(four) = 4
        /\ \A i \in 1..4 : four[i] = IF i <= 1 THEN one[i] ELSE three[i - 1]
    BY <1>2, <1>3, <2>1
  <2> QED
    BY <1>2, <2>2
<1>5. /\ five \in Seq(S) /\ Len(five) = 5
      /\ five[1] = a /\ five[2] = b /\ five[3] = c /\ five[4] = d /\ five[5] = e
  <2>1. /\ two \o three \in Seq(S) /\ Len(two \o three) = Len(two) + Len(three)
        /\ \A i \in 1..Len(two) + Len(three) :
             (two \o three)[i] = IF i <= Len(two) THEN two[i] ELSE three[i - Len(two)]
    BY <1>2, ConcatProperties
  <2>2. /\ five \in Seq(S) /\ Len(five) = 5
        /\ \A i \in 1..5 : five[i] = IF i <= 2 THEN two[i] ELSE three[i - 2]
    BY <1>2, <1>3, <2>1
  <2> QED
    BY <1>2, <2>2
<1>6. four = <<b, c, d, e>>
  BY <1>4
<1>7. five = <<a, b, c, d, e>>
  BY <1>5
<1> QED
  BY <1>0, <1>1, <1>3, <1>6, <1>7

\* Written with forward slashes, a place is its path below some root, and perhaps a slash.
LEMMA SpelledFacts ==
  ASSUME NEW c \in Change, c.place # <<>>
  PROVE  /\ Spelled(c.place, c.spelling) # <<>>
         /\ \E pre \in Roots : \E t :
              /\ Forward(Spelled(c.place, c.spelling)) = pre \o t
              /\ Unmarked(c) => IsBare(t, c.place)
<1>1. PICK p, y, M, S :
        /\ p = c.place /\ y = Joined(p) /\ M = RepoMarker[2]
        /\ S = FileName \cup {"/", ".", "home", RepoMarker[2]}
  OBVIOUS
<1>2. p \in Seq(FileName) /\ c.spelling \in Spellings /\ p # <<>>
  BY <1>1 DEF Change
<1>3. RepoMarker = <<"/", M, "/">> /\ M \notin {"/", "\\", ".", "home"}
  BY <1>1, SelectionAssumption
<1>4. "\\" \notin S
  BY <1>1, <1>3 DEF FileName
<1>5. y \in Seq(S) /\ Len(y) \in Nat /\ Len(y) >= 1 /\ y # <<>> /\ Len(p) \in Nat
  <2>1. /\ y \in Seq(FileName \cup {"/"}) /\ Len(p) \in Nat /\ Len(p) >= 1
        /\ Len(y) = 2 * Len(p) - 1
    BY <1>1, <1>2, JoinedFacts
  <2>2. y \in Seq(S)
    BY <1>1, <2>1, SeqMonotonic
  <2> QED
    BY <2>1, <2>2
<1>6. ASSUME Unmarked(c)
      PROVE  IsBare(y, p) /\ (c.spelling = "slash" => IsBare(Append(y, "/"), p))
  <2>1. \A i \in 2..Len(p) : p[i] = M => i = Len(p) /\ c.spelling # "slash"
    BY <1>1, <1>6 DEF Unmarked
  <2>2. \A i \in 2..Len(p) - 1 : p[i] # M
    BY <1>5, <2>1
  <2>3. c.spelling = "slash" => Len(p) = 1 \/ p[Len(p)] # M
    <3>1. Len(p) # 1 => Len(p) \in 2..Len(p)
      <4>1. PICK n : n = Len(p)
        OBVIOUS
      <4>2. n \in Nat \ {0}
        BY <1>2, <4>1, EmptySeq
      <4>3. n # 1 => n \in 2..n
        BY <4>2
      <4> QED
        BY <4>1, <4>3
    <3> QED
      BY <2>1, <3>1
  <2> QED
    BY <1>1, <2>2, <2>3 DEF IsBare
<1>7. PICK s : s = Spelled(p, c.spelling)
  OBVIOUS
<1>8. ASSUME NEW pre \in Seq(S), s = pre \o y
      PROVE  Forward(s) = pre \o y /\ s # <<>>
  <2>1. s \in Seq(S) /\ Len(s) = Len(pre) + Len(y) /\ Len(pre) \in Nat
    BY <1>5, <1>8, PrefixFacts
  <2>2. s # <<>>
    BY <1>5, <2>1
  <2> QED
    BY <1>4, <1>8, <2>1, <2>2, ForwardFacts
<1>9. "." \in S /\ "/" \in S /\ "home" \in S /\ M \in S
  BY <1>1
<1>10. CASE c.spelling = "plain"
  <2>1. s = <<>> \o y
    <3>1. s = y
      BY <1>1, <1>7, <1>10 DEF Spelled
    <3> QED
      BY <1>5, <3>1, ConcatEmptySeq
  <2>2. Forward(s) = <<>> \o y /\ s # <<>>
    <3>1. <<>> \in Seq(S)
      OBVIOUS
    <3> QED
      BY <1>8, <2>1, <3>1
  <2>3. <<>> \in Roots
    BY DEF Roots
  <2> QED
    BY <1>1, <1>6, <1>7, <2>2, <2>3
<1>11. CASE c.spelling = "dot"
  <2>1. PICK pre : pre = <<".", "/">>
    OBVIOUS
  <2>2. s = pre \o y
    BY <1>1, <1>7, <1>11, <2>1 DEF Spelled
  <2>3. pre \in Seq(S) /\ pre \in Roots
    BY <1>9, <2>1 DEF Roots
  <2>4. Forward(s) = pre \o y /\ s # <<>>
    BY <1>8, <2>2, <2>3
  <2> QED
    BY <1>1, <1>6, <1>7, <2>3, <2>4
<1>12. CASE c.spelling = "dots"
  <2>1. PICK pre : pre = <<".", "/", ".", "/">>
    OBVIOUS
  <2>2. s = pre \o y
    BY <1>1, <1>7, <1>12, <2>1 DEF Spelled
  <2>3. pre \in Seq(S) /\ pre \in Roots
    BY <1>9, <2>1 DEF Roots
  <2>4. Forward(s) = pre \o y /\ s # <<>>
    BY <1>8, <2>2, <2>3
  <2> QED
    BY <1>1, <1>6, <1>7, <2>3, <2>4
<1>13. CASE c.spelling = "absolute"
  <2>1. PICK pre : pre = <<"/", "home">> \o RepoMarker
    OBVIOUS
  <2>2. s = pre \o y
    BY <1>1, <1>7, <1>13, <2>1 DEF Spelled
  <2>3. pre = <<"/", "home", "/", M, "/">>
    <3>1. <<"/", "home">> \o <<"/", M, "/">> = <<"/", "home", "/", M, "/">>
      BY RootsWritten
    <3> QED
      BY <1>3, <2>1, <3>1
  <2>4. pre \in Seq(S) /\ pre \in Roots
    BY <1>1, <1>9, <2>3 DEF Roots
  <2>5. Forward(s) = pre \o y /\ s # <<>>
    BY <1>8, <2>2, <2>4
  <2> QED
    BY <1>1, <1>6, <1>7, <2>4, <2>5
<1>14. CASE c.spelling = "slash"
  <2>1. s = y \o <<"/">>
    BY <1>1, <1>7, <1>14 DEF Spelled
  <2>2. s = Append(y, "/") /\ s \in Seq(S) /\ s # <<>>
    BY <1>5, <1>9, <2>1, AppendIsConcat, AppendProperties
  <2>3. Forward(s) = s /\ s = <<>> \o s
    BY <1>4, <2>2, ForwardFacts, ConcatEmptySeq
  <2>4. <<>> \in Roots
    BY DEF Roots
  <2> QED
    BY <1>1, <1>6, <1>7, <1>14, <2>2, <2>3, <2>4
<1>15. CASE c.spelling = "windows"
  <2>1. PICK pre, u : pre = <<"home">> \o RepoMarker /\ u = pre \o y
    OBVIOUS
  <2>2. s = Backslashed(u)
    BY <1>1, <1>7, <1>15, <2>1 DEF Spelled
  <2>3. pre = <<"home", "/", M, "/">>
    <3>1. <<"home">> \o <<"/", M, "/">> = <<"home", "/", M, "/">>
      BY RootsWritten
    <3> QED
      BY <1>3, <2>1, <3>1
  <2>4. pre \in Seq(S) /\ pre \in Roots
    BY <1>1, <1>9, <2>3 DEF Roots
  <2>5. u \in Seq(S) /\ Len(u) = Len(pre) + Len(y) /\ Len(pre) \in Nat
    BY <1>5, <2>1, <2>4, PrefixFacts
  <2>6. Forward(s) = u /\ Len(s) = Len(u)
    BY <1>4, <2>2, <2>5, ForwardFacts
  <2>7. s # <<>>
    BY <1>5, <2>5, <2>6
  <2> QED
    BY <1>1, <1>6, <1>7, <2>1, <2>4, <2>6, <2>7
<1> QED
  BY <1>2, <1>10, <1>11, <1>12, <1>13, <1>14, <1>15 DEF Spellings

\* However a place is spelled, its normal form is its path.
LEMMA SpelledIsNormal ==
  ASSUME NEW c \in Change, c.place # <<>>, Unmarked(c)
  PROVE  NormalizePath(Spelled(c.place, c.spelling)) = Joined(c.place)
<1>1. PICK pre \in Roots : \E t :
        /\ Forward(Spelled(c.place, c.spelling)) = pre \o t
        /\ IsBare(t, c.place)
  BY SpelledFacts
<1>2. PICK t : /\ Forward(Spelled(c.place, c.spelling)) = pre \o t
               /\ IsBare(t, c.place)
  BY <1>1
<1>3. c.place \in Seq(PatternName)
  <2>1. c.place \in Seq(FileName) /\ FileName \subseteq PatternName
    BY DEF Change, PatternName
  <2> QED
    BY <2>1, SeqMonotonic
<1>4. WithoutSlashes(BelowMarker(WithoutDots(pre \o t))) = Joined(c.place)
  BY <1>2, <1>3, BareIsLeft
<1> QED
  BY <1>2, <1>4 DEF NormalizePath

-----------------------------------------------------------------------------
LineOf(c) == Spelled(c.place, c.spelling)
Named == {c \in 1..Len(changed) : changed[c].place # <<>>}

\* The property, of a suite and the files that changed.
Wanted(suite_, changed_) ==
  LET filed == {changed_[c].place : c \in 1..Len(changed_)}
      Wants(recipe) == \E p \in filed : recipe.patterns \cap PatternsOf(p) # {}
  IN  {i \in 1..Len(suite_) :
         \/ suite_[i].name \in Smoke
         \/ /\ ~ \E p \in filed : Under(p, HarnessDirectory)
            /\ \E j \in 1..Len(suite_) : suite_[j].name = suite_[i].name /\ Wants(suite_[j])}
AllUnmarked(changed_) == \A c \in 1..Len(changed_) : Unmarked(changed_[c])
InOrder(list, set) ==
  /\ {list[k] : k \in 1..Len(list)} = set
  /\ \A k, l \in 1..Len(list) : k < l => list[k] < list[l]

\* The property in terms of the recipes that are wanted, now
LEMMA WantedIsSelected ==
  SelectionIsOfPlaces <=>
    (choosing = "chosen" /\ AllUnmarked(changed) => InOrder(selected, Wanted(suite, changed)))
BY DEF SelectionIsOfPlaces, Wanted, AllUnmarked, InOrder

\* and after a step.
LEMMA WantedIsSelectedNext ==
  SelectionIsOfPlaces' <=>
    (choosing' = "chosen" /\ AllUnmarked(changed') => InOrder(selected', Wanted(suite', changed')))
BY DEF SelectionIsOfPlaces, Wanted, AllUnmarked, InOrder

\* The inductive invariant: the lines that are read are those that name a place.
SelectionInv ==
  /\ suite \in Suite /\ changed \in Seq(Change)
  /\ choosing \in {"unread", "read", "chosen"}
  /\ choosing = "read" => {lines[i] : i \in 1..Len(lines)} = {LineOf(changed[c]) : c \in Named}
  /\ SelectionIsOfPlaces

\* The invariant holds at first.
LEMMA SelectionBegins == SelectionInit(Suite, Seq(Change)) => SelectionInv
BY DEF SelectionInit, SelectionInv, SelectionIsOfPlaces

\* It speaks of nothing but the variables.
LEMMA SelectionStays ==
  ASSUME SelectionInv, UNCHANGED selectionVars
  PROVE  SelectionInv'
<1>1. UNCHANGED <<suite, changed, lines, selected, choosing>>
  BY DEF selectionVars
<1>2. SelectionIsOfPlaces'
  BY <1>1, WantedIsSelected, WantedIsSelectedNext DEF SelectionInv
<1>3. Named' = Named
  BY <1>1 DEF Named
<1> QED
  BY <1>1, <1>2, <1>3 DEF SelectionInv

\* ChangedFilesFromFile drops the lines that are blank, and no other.
LEMMA SelectionReads ==
  ASSUME SelectionInv, ChangedFilesFromFile
  PROVE  SelectionInv'
<1>1. PICK S, pieces, list :
        /\ S = {LineOf(changed[i]) : i \in 1..Len(changed)}
        /\ pieces = [i \in 1..Len(changed) |->
                       IF LineOf(changed[i]) = <<>> THEN <<>> ELSE <<LineOf(changed[i])>>]
        /\ list = FlattenSeq(pieces)
  OBVIOUS
<1>2. /\ suite \in Suite /\ changed \in Seq(Change) /\ Len(changed) \in Nat
      /\ UNCHANGED <<suite, changed, selected>> /\ choosing' = "read"
  BY DEF SelectionInv, ChangedFilesFromFile
<1>3. lines' = list
  BY <1>1 DEF ChangedFilesFromFile, LineOf
<1>4. ASSUME NEW i \in 1..Len(changed)
      PROVE  LineOf(changed[i]) = <<>> <=> changed[i].place = <<>>
  <2>1. changed[i] \in Change
    BY <1>2, ElementOfSeq
  <2>2. CASE changed[i].place = <<>>
    <3>1. changed[i].spelling = "plain"
      BY <2>1, <2>2 DEF Change
    <3>2. Spelled(<<>>, "plain") = Joined(<<>>)
      BY DEF Spelled
    <3>3. Joined(<<>>) = <<>>
      BY JoinedNothing
    <3> QED
      BY <2>2, <3>1, <3>2, <3>3 DEF LineOf
  <2>3. CASE changed[i].place # <<>>
    BY <2>1, <2>3, SpelledFacts DEF LineOf
  <2> QED
    BY <2>2, <2>3
<1>5. /\ pieces \in Seq(Seq(S)) /\ Len(pieces) = Len(changed) /\ Thin(pieces)
      /\ \A i \in 1..Len(changed) :
           pieces[i] = IF LineOf(changed[i]) = <<>> THEN <<>> ELSE <<LineOf(changed[i])>>
  <2>1. \A i \in 1..Len(changed) :
          (IF LineOf(changed[i]) = <<>> THEN <<>> ELSE <<LineOf(changed[i])>>) \in Seq(S)
    <3>1. \A i \in 1..Len(changed) : LineOf(changed[i]) \in S
      BY <1>1
    <3>2. <<>> \in Seq(S) /\ \A x \in S : <<x>> \in Seq(S)
      OBVIOUS
    <3> QED
      BY <3>1, <3>2
  <2>2. /\ Len(pieces) = Len(changed)
        /\ \A i \in 1..Len(changed) :
             pieces[i] = IF LineOf(changed[i]) = <<>> THEN <<>> ELSE <<LineOf(changed[i])>>
    BY <1>1, <1>2
  <2>3. pieces \in Seq(Seq(S))
    BY <1>1, <1>2, <2>1
  <2>4. Thin(pieces)
    <3>1. Len(<<>>) = 0 /\ \A x : Len(<<x>>) = 1
      OBVIOUS
    <3>2. ASSUME NEW i \in 1..Len(changed) PROVE Len(pieces[i]) <= 1
      <4>1. CASE LineOf(changed[i]) = <<>>
        <5>1. pieces[i] = <<>>
          BY <2>2, <4>1
        <5>2. Len(pieces[i]) = 0
          BY <3>1, <5>1
        <5> QED
          BY <5>2
      <4>2. CASE LineOf(changed[i]) # <<>>
        <5>1. pieces[i] = <<LineOf(changed[i])>>
          BY <2>2, <4>2
        <5>2. Len(pieces[i]) = 1
          BY <3>1, <5>1
        <5> QED
          BY <5>2
      <4> QED
        BY <4>1, <4>2
    <3> QED
      BY <2>2, <3>2 DEF Thin
  <2> QED
    BY <2>2, <2>3, <2>4
<1>6. PICK g : PickedAt(g, list, pieces)
  BY <1>1, <1>5, FlattenPicks
<1>7. list \in Seq(S)
  BY <1>1, <1>5, FlattenType
<1>8. ASSUME NEW k \in 1..Len(list)
      PROVE  \E c \in Named : list[k] = LineOf(changed[c])
  <2>1. g[k] \in 1..Len(changed) /\ pieces[g[k]] = <<list[k]>>
    BY <1>5, <1>6 DEF PickedAt
  <2>2. LineOf(changed[g[k]]) # <<>> /\ list[k] = LineOf(changed[g[k]])
    <3>1. <<list[k]>> # <<>> /\ \A x, y : <<x>> = <<y>> => x = y
      OBVIOUS
    <3> QED
      BY <1>5, <2>1, <3>1
  <2> QED
    BY <1>4, <2>1, <2>2 DEF Named
<1>9. ASSUME NEW c \in Named
      PROVE  \E k \in 1..Len(list) : list[k] = LineOf(changed[c])
  <2>1. c \in 1..Len(changed) /\ pieces[c] = <<LineOf(changed[c])>>
    BY <1>4, <1>5 DEF Named
  <2>2. PICK k \in 1..Len(list) : g[k] = c
    <3>1. pieces[c] # <<>>
      BY <2>1
    <3> QED
      BY <1>5, <1>6, <2>1, <3>1 DEF PickedAt
  <2>3. <<list[k]>> = <<LineOf(changed[c])>>
    BY <1>6, <2>1, <2>2 DEF PickedAt
  <2> QED
    BY <2>3
<1>10. {lines[i] : i \in 1..Len(lines)}' = {LineOf(changed[c]) : c \in Named}'
  <2>1. Named' = Named /\ changed' = changed
    BY <1>2 DEF Named
  <2>2. {list[i] : i \in 1..Len(list)} = {LineOf(changed[c]) : c \in Named}
    BY <1>8, <1>9
  <2> QED
    BY <1>3, <2>1, <2>2
<1> QED
  BY <1>2, <1>10 DEF SelectionInv, SelectionIsOfPlaces

\* A path starts with the harness root if its place is below the harness.
LEMMA HarnessIsDirectory ==
  ASSUME NEW p \in Seq(FileName), p # <<>>
  PROVE  Follows(Joined(p), 0, HarnessRoot) <=> Under(p, HarnessDirectory)
<1>1. PICK d, S, n, y, r, w :
        /\ d = HarnessDirectory /\ n = Len(d) /\ y = Joined(d) /\ r = Append(y, "/")
        /\ S = FileName \cup ({d[i] : i \in 1..Len(d)} \ {"/"}) /\ w = Joined(Append(d, "*"))
  OBVIOUS
<1>2. d \in Seq(S) /\ d # <<>> /\ p \in Seq(S) /\ "/" \notin S
  <2>1. d \in Seq({d[i] : i \in 1..Len(d)} \ {"/"}) /\ d # <<>>
    BY <1>1, SelectionAssumption
  <2>2. {d[i] : i \in 1..Len(d)} \ {"/"} \subseteq S /\ FileName \subseteq S
    BY <1>1
  <2>3. "/" \notin S
    BY <1>1 DEF FileName
  <2> QED
    BY <2>1, <2>2, <2>3, SeqMonotonic
<1>3. /\ y \in Seq(S \cup {"/"}) /\ n \in Nat /\ n >= 1 /\ Len(y) = 2 * n - 1
      /\ \A i \in 1..n : y[2 * i - 1] = d[i]
      /\ \A i \in 1..n - 1 : y[2 * i] = "/"
  BY <1>1, <1>2, JoinedFacts
<1>4. /\ Len(r) = 2 * n /\ r[2 * n] = "/" /\ \A i \in 1..2 * n - 1 : r[i] = y[i]
  <2>1. "/" \in S \cup {"/"}
    OBVIOUS
  <2>2. Len(r) = Len(y) + 1 /\ r[Len(y) + 1] = "/" /\ \A i \in 1..Len(y) : r[i] = y[i]
    BY <1>1, <1>3, <2>1, AppendProperties
  <2> QED
    BY <1>3, <2>2
<1>5. \A k \in 1..2 * n : w[k] = r[k]
  <2>1. PICK e, T : e = Append(d, "*") /\ T = S \cup {"*"}
    OBVIOUS
  <2>2. /\ e \in Seq(T) /\ e # <<>> /\ Len(e) = n + 1 /\ \A i \in 1..n : e[i] = d[i]
    <3>1. d \in Seq(T) /\ "*" \in T
      BY <1>2, <2>1, SeqMonotonic
    <3> QED
      BY <1>1, <2>1, <3>1, AppendProperties
  <2>3. /\ \A i \in 1..n + 1 : w[2 * i - 1] = e[i]
        /\ \A i \in 1..(n + 1) - 1 : w[2 * i] = "/"
    <3>1. /\ \A i \in 1..Len(e) : Joined(e)[2 * i - 1] = e[i]
          /\ \A i \in 1..Len(e) - 1 : Joined(e)[2 * i] = "/"
      BY <2>2, JoinedFacts
    <3>2. Joined(e) = w
      BY <1>1, <2>1
    <3> QED
      BY <2>2, <3>1, <3>2
  <2>4. ASSUME NEW k \in 1..2 * n PROVE w[k] = r[k]
    <3>1. PICK i \in 1..n : k = 2 * i - 1 \/ k = 2 * i
      BY <1>3, OddOrEven
    <3>2. CASE k = 2 * i - 1
      <4>1. w[k] = d[i] /\ k \in 1..2 * n - 1 /\ y[k] = d[i]
        BY <1>3, <2>2, <2>3, <3>2
      <4> QED
        BY <1>4, <4>1
    <3>3. CASE k = 2 * i
      <4>1. w[k] = "/"
        BY <1>3, <2>3, <3>3
      <4>2. CASE i = n
        BY <1>4, <3>3, <4>1, <4>2
      <4>3. CASE i # n
        <5>1. i \in 1..n - 1 /\ k \in 1..2 * n - 1
          BY <1>3, <3>3, <4>3
        <5> QED
          BY <1>3, <1>4, <3>3, <4>1, <5>1
      <4> QED
        BY <4>2, <4>3
    <3> QED
      BY <3>1, <3>2, <3>3
  <2> QED
    BY <2>4
<1>6. SameUpto(Joined(p), w, 2 * n) <=> n < Len(p) /\ SameUpto(p, d, n)
  <2>1. n \in 0..Len(d)
    BY <1>1, <1>3
  <2> QED
    BY <1>1, <1>2, <2>1, JoinedStarts
<1>7. Follows(Joined(p), 0, r) <=> SameUpto(Joined(p), w, 2 * n)
  <2>1. \A k \in 1..2 * n : 0 + k = k
    OBVIOUS
  <2> QED
    BY <1>3, <1>4, <1>5, <2>1 DEF Follows, SameUpto
<1>8. Under(p, d) <=> n < Len(p) /\ SameUpto(p, d, n)
  <2>1. \A k \in 1..n : 0 + k = k
    OBVIOUS
  <2>2. 0 + n = n /\ Len(p) \in Nat
    BY <1>3
  <2> QED
    BY <1>1, <1>3, <2>1, <2>2 DEF Under, Follows, SameUpto
<1> QED
  BY <1>1, <1>6, <1>7, <1>8 DEF HarnessRoot

\* A recipe has a pattern that matches a changed path if one of its patterns is of a place
\* that changed.
LEMMA WantsIsMatch ==
  ASSUME NEW patterns \in SUBSET {Joined(w) : w \in PatternPlace},
         NEW P \in SUBSET Seq(FileName)
  PROVE  MatchesAnyPath(patterns, {Joined(p) : p \in P \ {<<>>}}) <=>
           \E p \in P : patterns \cap PatternsOf(p) # {}
<1>1. ASSUME NEW p \in P, p = <<>>, NEW w \in PatternPlace, Joined(w) \in PatternsOf(p)
      PROVE  FALSE
  <2>1. w \in Seq(PatternName) /\ w # <<>>
    BY DEF PatternPlace
  <2>2. Len(w) \in Nat /\ Len(w) >= 1 /\ Len(Joined(w)) = 2 * Len(w) - 1
    BY <2>1, JoinedFacts
  <2>3. Joined(w) = Joined(<<>>)
    <3>1. 0..Len(p) - 1 = {}
      BY <1>1
    <3> QED
      BY <1>1, <3>1 DEF PatternsOf
  <2>4. Len(Joined(<<>>)) = 0
    BY JoinedNothing
  <2> QED
    BY <2>2, <2>3, <2>4
<1>2. ASSUME NEW w \in PatternPlace, NEW p \in P \ {<<>>}
      PROVE  Compiled(NormalizePath(Joined(w))) /\ GlobMatches(NormalizePath(Joined(w)), Joined(p))
               <=> Joined(w) \in PatternsOf(p)
  BY PatternsAreNormal, MatchesPlace
<1>3. ASSUME MatchesAnyPath(patterns, {Joined(p) : p \in P \ {<<>>}})
      PROVE  \E p \in P : patterns \cap PatternsOf(p) # {}
  <2>1. PICK q \in patterns : \E path \in {Joined(p) : p \in P \ {<<>>}} :
          Compiled(NormalizePath(q)) /\ GlobMatches(NormalizePath(q), path)
    BY <1>3 DEF MatchesAnyPath
  <2>2. PICK p \in P \ {<<>>} : Compiled(NormalizePath(q)) /\ GlobMatches(NormalizePath(q), Joined(p))
    BY <2>1
  <2>3. PICK w \in PatternPlace : q = Joined(w)
    OBVIOUS
  <2>4. q \in PatternsOf(p)
    BY <1>2, <2>2, <2>3
  <2> QED
    BY <2>4
<1>4. ASSUME NEW p \in P, NEW q \in patterns, q \in PatternsOf(p)
      PROVE  MatchesAnyPath(patterns, {Joined(x) : x \in P \ {<<>>}})
  <2>1. PICK w \in PatternPlace : q = Joined(w)
    OBVIOUS
  <2>2. p # <<>>
    BY <1>1, <1>4, <2>1
  <2>3. Compiled(NormalizePath(q)) /\ GlobMatches(NormalizePath(q), Joined(p))
    BY <1>2, <1>4, <2>1, <2>2
  <2> QED
    BY <2>2, <2>3 DEF MatchesAnyPath
<1> QED
  BY <1>3, <1>4

\* Select takes the recipes that are wanted, in the order of the suite.
LEMMA SelectionSelects ==
  ASSUME SelectionInv, Select
  PROVE  SelectionInv'
<1>1. PICK P, n, paths, smoke, matching, chosen, pieces, list :
        /\ P = {changed[c].place : c \in 1..Len(changed)} /\ n = Len(suite)
        /\ paths = {NormalizePath(lines[i]) : i \in 1..Len(lines)}
        /\ smoke = Smoke \cap {suite[i].name : i \in 1..Len(suite)}
        /\ matching = {suite[i].name : i \in {i \in 1..Len(suite) :
                                               MatchesAnyPath(suite[i].patterns, paths)}}
        /\ chosen = (IF TouchesHarness THEN smoke ELSE smoke \cup matching)
        /\ pieces = [i \in 1..Len(suite) |-> IF suite[i].name \in chosen THEN <<i>> ELSE <<>>]
        /\ list = FlattenSeq(pieces)
  OBVIOUS
<1>2. /\ suite \in Suite /\ changed \in Seq(Change) /\ n \in Nat /\ Len(changed) \in Nat
      /\ UNCHANGED <<suite, changed, lines>> /\ choosing = "read" /\ choosing' = "chosen"
      /\ {lines[i] : i \in 1..Len(lines)} = {LineOf(changed[c]) : c \in Named}
  <2>1. /\ suite \in Suite /\ changed \in Seq(Change)
        /\ choosing = "read" =>
             {lines[i] : i \in 1..Len(lines)} = {LineOf(changed[c]) : c \in Named}
    BY DEF SelectionInv
  <2>2. n \in Nat /\ Len(changed) \in Nat
    BY <1>1, <2>1 DEF Suite
  <2>3. UNCHANGED <<suite, changed, lines>> /\ choosing = "read" /\ choosing' = "chosen"
    BY DEF Select
  <2> QED
    BY <2>1, <2>2, <2>3
<1>3. selected' = list
  BY <1>1 DEF Select
<1>4. ASSUME NEW i \in 1..n
      PROVE  suite[i].patterns \in SUBSET {Joined(w) : w \in PatternPlace}
  <2>1. suite[i] \in [name : RecipeNames, patterns : SUBSET {Joined(w) : w \in PatternPlace}]
    BY <1>1, <1>2, ElementOfSeq DEF Suite
  <2> QED
    BY <2>1
<1>5. \A c \in 1..Len(changed) : changed[c] \in Change
  BY <1>2, ElementOfSeq
<1>6. P \subseteq Seq(FileName)
  BY <1>1, <1>5 DEF Change
<1>7. ASSUME AllUnmarked(changed) PROVE paths = {Joined(p) : p \in P \ {<<>>}}
  <2>1. \A c \in Named : NormalizePath(LineOf(changed[c])) = Joined(changed[c].place)
    BY <1>5, <1>7, SpelledIsNormal DEF AllUnmarked, LineOf, Named
  <2>2. paths = {NormalizePath(LineOf(changed[c])) : c \in Named}
    <3>1. paths = {NormalizePath(l) : l \in {lines[i] : i \in 1..Len(lines)}}
      BY <1>1
    <3>2. paths = {NormalizePath(l) : l \in {LineOf(changed[c]) : c \in Named}}
      BY <1>2, <3>1
    <3> QED
      BY <3>2
  <2>3. paths = {Joined(changed[c].place) : c \in Named}
    BY <2>1, <2>2
  <2>4. P \ {<<>>} = {changed[c].place : c \in Named}
    BY <1>1 DEF Named
  <2> QED
    BY <2>3, <2>4
<1>8. ASSUME AllUnmarked(changed)
      PROVE  TouchesHarness <=> \E p \in P : Under(p, HarnessDirectory)
  <2>1. TouchesHarness <=> \E path \in paths : Follows(path, 0, HarnessRoot)
    BY <1>1 DEF TouchesHarness
  <2>2. TouchesHarness <=> \E p \in P \ {<<>>} : Follows(Joined(p), 0, HarnessRoot)
    BY <1>7, <1>8, <2>1
  <2>3. \A p \in P \ {<<>>} : Follows(Joined(p), 0, HarnessRoot) <=> Under(p, HarnessDirectory)
    BY <1>6, HarnessIsDirectory
  <2>4. ~Under(<<>>, HarnessDirectory)
    <3>1. Len(HarnessDirectory) \in Nat
      BY SelectionAssumption
    <3>2. Len(<<>>) = 0
      OBVIOUS
    <3> QED
      BY <3>1, <3>2 DEF Under
  <2> QED
    BY <2>2, <2>3, <2>4
<1>9. ASSUME AllUnmarked(changed), NEW i \in 1..n
      PROVE  MatchesAnyPath(suite[i].patterns, paths) <=>
               \E p \in P : suite[i].patterns \cap PatternsOf(p) # {}
  BY <1>4, <1>6, <1>7, <1>9, WantsIsMatch
<1>10. ASSUME AllUnmarked(changed), NEW i \in 1..n
       PROVE  suite[i].name \in chosen <=> i \in Wanted(suite, changed)
  <2>1. i \in Wanted(suite, changed) <=>
          \/ suite[i].name \in Smoke
          \/ /\ ~ \E p \in P : Under(p, HarnessDirectory)
             /\ \E j \in 1..n : /\ suite[j].name = suite[i].name
                               /\ \E p \in P : suite[j].patterns \cap PatternsOf(p) # {}
    BY <1>1 DEF Wanted
  <2>2. suite[i].name \in smoke <=> suite[i].name \in Smoke
    BY <1>1
  <2>3. suite[i].name \in matching <=>
          \E j \in 1..n : suite[j].name = suite[i].name /\ MatchesAnyPath(suite[j].patterns, paths)
    BY <1>1
  <2>4. suite[i].name \in matching <=>
          \E j \in 1..n : /\ suite[j].name = suite[i].name
                         /\ \E p \in P : suite[j].patterns \cap PatternsOf(p) # {}
    BY <1>9, <1>10, <2>3
  <2>5. suite[i].name \in chosen <=>
          suite[i].name \in smoke \/ (~TouchesHarness /\ suite[i].name \in matching)
    BY <1>1
  <2> QED
    BY <1>8, <1>10, <2>1, <2>2, <2>4, <2>5
<1>11. /\ pieces \in Seq(Seq(Nat)) /\ Len(pieces) = n /\ Thin(pieces)
       /\ \A i \in 1..n : pieces[i] = IF suite[i].name \in chosen THEN <<i>> ELSE <<>>
  <2>1. <<>> \in Seq(Nat) /\ \A i \in 1..n : <<i>> \in Seq(Nat)
    OBVIOUS
  <2>2. /\ pieces \in Seq(Seq(Nat)) /\ Len(pieces) = n
        /\ \A i \in 1..n : pieces[i] = IF suite[i].name \in chosen THEN <<i>> ELSE <<>>
    BY <1>1, <1>2, <2>1
  <2>3. \A i \in 1..n : Len(pieces[i]) <= 1
    <3>1. Len(<<>>) = 0 /\ \A x : Len(<<x>>) = 1
      OBVIOUS
    <3>2. ASSUME NEW i \in 1..n PROVE Len(pieces[i]) \in {0, 1}
      <4>1. CASE pieces[i] = <<>>
        BY <3>1, <4>1
      <4>2. CASE pieces[i] = <<i>>
        BY <3>1, <4>2
      <4> QED
        BY <2>2, <4>1, <4>2
    <3>3. \A x \in {0, 1} : x <= 1
      OBVIOUS
    <3> QED
      BY <3>2, <3>3
  <2>4. Thin(pieces)
    BY <2>2, <2>3 DEF Thin
  <2> QED
    BY <2>2, <2>4
<1>12. PICK g : PickedAt(g, list, pieces)
  BY <1>1, <1>11, FlattenPicks
<1>13. list \in Seq(Nat) /\ Len(list) \in Nat
  <2>1. list \in Seq(Nat)
    BY <1>1, <1>11, FlattenType
  <2> QED
    BY <2>1
<1>14. ASSUME NEW k \in 1..Len(list)
       PROVE  list[k] = g[k] /\ list[k] \in 1..n /\ suite[list[k]].name \in chosen
  <2>1. g[k] \in 1..n /\ pieces[g[k]] = <<list[k]>>
    BY <1>11, <1>12 DEF PickedAt
  <2>2. <<list[k]>> # <<>> /\ \A x, y : <<x>> = <<y>> => x = y
    OBVIOUS
  <2>3. suite[g[k]].name \in chosen /\ list[k] = g[k]
    BY <1>11, <2>1, <2>2
  <2> QED
    BY <2>1, <2>3
<1>15. ASSUME NEW i \in 1..n, suite[i].name \in chosen
       PROVE  \E k \in 1..Len(list) : list[k] = i
  <2>1. pieces[i] # <<>>
    <3>1. pieces[i] = <<i>>
      BY <1>11, <1>15
    <3>2. <<i>> # <<>>
      OBVIOUS
    <3> QED
      BY <3>1, <3>2
  <2>2. PICK k \in 1..Len(list) : g[k] = i
    BY <1>11, <1>12, <2>1 DEF PickedAt
  <2> QED
    BY <1>14, <2>2
<1>16. ASSUME AllUnmarked(changed) PROVE InOrder(list, Wanted(suite, changed))
  <2>1. Wanted(suite, changed) \subseteq 1..n
    BY <1>1 DEF Wanted
  <2>2. {list[k] : k \in 1..Len(list)} = Wanted(suite, changed)
    BY <1>10, <1>14, <1>15, <1>16, <2>1
  <2>3. \A k, l \in 1..Len(list) : k < l => list[k] < list[l]
    BY <1>12, <1>14 DEF PickedAt
  <2> QED
    BY <2>2, <2>3 DEF InOrder
<1>17. SelectionIsOfPlaces'
  BY <1>2, <1>3, <1>16, WantedIsSelectedNext
<1> QED
  BY <1>2, <1>17 DEF SelectionInv

\* Which recipes run is a matter of the places that changed, however they are spelled and
\* whatever patterns of places the recipes of a suite of any length have: select and
\* normalize_path of selection.rs.
THEOREM SelectionAlwaysOfPlaces == SelectionSpec => []SelectionIsOfPlaces
<1>1. SelectionInit(Suite, Seq(Change)) => SelectionInv
  BY SelectionBegins
<1>2. SelectionInv /\ [SelectionStep]_selectionVars => SelectionInv'
  BY SelectionReads, SelectionSelects, SelectionStays DEF SelectionStep
<1>3. SelectionInv => SelectionIsOfPlaces
  BY DEF SelectionInv
<1> QED
  BY <1>1, <1>2, <1>3, PTL DEF SelectionSpec

=================================================================================

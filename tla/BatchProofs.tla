---------------------------- MODULE BatchProofs ----------------------------
(***************************************************************************)
(* What holds of `termproof run` for every number of recipes, renderers    *)
(* and workers: the plan is the selected items in order; the chunks of     *)
(* run_parallel share it out among no more threads than there are workers  *)
(* and give back all answers in the order of the plan, that is, they       *)
(* implement OrderedMap; and what the command leaves on the disk bears out *)
(* what it says, as long as no two runs drew the same directory.           *)
(***************************************************************************)
EXTENDS Batch, FunctionTheorems, FiniteSetTheorems, TLAPS

\* What a whole division leaves is less than what is divided by.
LEMMA Division ==
  ASSUME NEW a \in Nat, NEW b \in Nat \ {0}
  PROVE  a \div b \in Nat /\ (a \div b) * b <= a /\ a < (a \div b) * b + b
OBVIOUS

\* div_ceil rounds up, and by less than one.
LEMMA RoundedUp ==
  ASSUME NEW a \in Nat, NEW b \in Nat \ {0}
  PROVE  CeilDiv(a, b) \in Nat /\ a <= CeilDiv(a, b) * b /\ CeilDiv(a, b) * b < a + b
BY Division DEF CeilDiv

\* Between two multiples there is room for one more.
LEMMA Multiples ==
  ASSUME NEW v \in Nat, NEW w \in Nat, NEW c \in Nat, v < w
  PROVE  v * c + c <= w * c
OBVIOUS

Items == [file : Files, name : Names, renderer : Renderers]
\* What the threads start from.
Planned == plan \in Seq(Items) /\ workers \in 1..MaxWorkers

\* The chunk size of run_parallel: its chunks take the plan up and, though both divisions
\* round, are no more than there are workers.
LEMMA ChunkSizes ==
  ASSUME Planned, plan # <<>>
  PROVE  /\ Len(plan) \in Nat \ {0} /\ ChunkSize \in 1..Len(plan)
         /\ CeilDiv(Len(plan), ChunkSize) \in 1..workers
         /\ (CeilDiv(Len(plan), ChunkSize) - 1) * ChunkSize < Len(plan)
         /\ Len(plan) <= CeilDiv(Len(plan), ChunkSize) * ChunkSize
<1> DEFINE n == Len(plan)
<1>1. n \in Nat \ {0} /\ workers \in Nat \ {0}
  BY PlannerAssumption DEF Planned
<1>2. ChunkSize \in 1..n /\ (ChunkSize = n \/ n <= workers * ChunkSize)
  <2>1. CASE workers <= 1 \/ n <= 1
    BY <1>1, <2>1 DEF ChunkSize
  <2>2. CASE ~(workers <= 1 \/ n <= 1)
    <3>1. ChunkSize = CeilDiv(n, workers)
      BY <2>2 DEF ChunkSize
    <3>2. CeilDiv(n, workers) \in Nat /\ n <= CeilDiv(n, workers) * workers
          /\ CeilDiv(n, workers) * workers < n + workers
      BY <1>1, RoundedUp
    <3>3. CeilDiv(n, workers) # 0
      BY <1>1, <3>2
    <3>4. CeilDiv(n, workers) <= n
      <4>1. SUFFICES ASSUME n < CeilDiv(n, workers) PROVE FALSE
        BY <1>1, <3>2
      <4>2. n * workers + workers <= CeilDiv(n, workers) * workers
        BY <1>1, <3>2, <4>1, Multiples
      <4>3. n * 1 <= n * workers
        BY <1>1
      <4> QED
        BY <1>1, <3>2, <4>2, <4>3
    <3> QED
      BY <1>1, <3>1, <3>2, <3>3, <3>4
  <2> QED
    BY <2>1, <2>2
<1> DEFINE c == ChunkSize
           t == CeilDiv(n, c)
<1>3. t \in Nat /\ n <= t * c /\ t * c < n + c
  <2>1. n \in Nat /\ c \in Nat \ {0}
    BY <1>1, <1>2
  <2> QED
    BY <2>1, RoundedUp
<1>4. t # 0
  BY <1>1, <1>2, <1>3
<1>5. (t - 1) * c < n
  BY <1>1, <1>2, <1>3, <1>4
<1>6. t <= workers
  <2>1. CASE c = n
    <3>1. SUFFICES ASSUME 1 < t PROVE FALSE
      BY <1>1, <1>3, <1>4
    <3>2. 1 * c + c <= t * c
      BY <1>1, <1>2, <1>3, <3>1, Multiples
    <3> QED
      BY <1>1, <1>3, <2>1, <3>2
  <2>2. CASE n <= workers * c
    <3>1. SUFFICES ASSUME workers < t PROVE FALSE
      BY <1>1, <1>3
    <3>2. workers * c + c <= t * c
      BY <1>1, <1>2, <1>3, <3>1, Multiples
    <3> QED
      BY <1>1, <1>2, <1>3, <2>2, <3>2
  <2> QED
    BY <1>2, <2>1, <2>2
<1> QED
  BY <1>1, <1>2, <1>3, <1>4, <1>5, <1>6

\* The last chunk ends where the plan does.
LEMMA ThreadNumbers ==
  ASSUME Planned, plan # <<>>
  PROVE  /\ Threads = 1..CeilDiv(Len(plan), ChunkSize)
         /\ CeilDiv(Len(plan), ChunkSize) \in Threads
         /\ ChunkEnd(CeilDiv(Len(plan), ChunkSize)) = Len(plan)
         /\ ChunkEnd(0) = 0
BY ChunkSizes DEF Threads, ChunkEnd

\* Each chunk has an item, and begins where the one before it ends.
LEMMA ChunkBounds ==
  ASSUME Planned, NEW w \in Threads
  PROVE  /\ plan # <<>> /\ w \in Nat \ {0}
         /\ ChunkStart(w) \in Nat /\ ChunkEnd(w) \in Nat /\ ChunkEnd(w - 1) \in Nat
         /\ ChunkStart(w) = ChunkEnd(w - 1) + 1
         /\ ChunkStart(w) <= ChunkEnd(w) /\ ChunkEnd(w) <= Len(plan)
         /\ (w - 1) * ChunkSize < Len(plan)
<1> DEFINE n == Len(plan)
           c == ChunkSize
           t == CeilDiv(n, c)
<1>1. plan # <<>>
  BY DEF Threads
<1>2. n \in Nat \ {0} /\ c \in 1..n /\ t \in Nat /\ (t - 1) * c < n /\ t # 0
  BY <1>1, ChunkSizes DEF Planned
<1>3. w \in 1..t
  BY <1>1, ThreadNumbers
<1>4. (w - 1) * c <= (t - 1) * c
  BY <1>2, <1>3
<1>5. (w - 1) * c \in Nat /\ w * c \in Nat /\ w * c = (w - 1) * c + c
  BY <1>2, <1>3
<1> QED
  BY <1>1, <1>2, <1>3, <1>4, <1>5 DEF ChunkStart, ChunkEnd

\* Every item is in the chunk of one thread.
LEMMA ChunksCover ==
  ASSUME Planned, NEW i \in 1..Len(plan)
  PROVE  \E w \in Threads : i \in Chunk(w)
<1> DEFINE n == Len(plan)
           c == ChunkSize
           t == CeilDiv(n, c)
           w == CeilDiv(i, c)
<1>1. plan # <<>>
  BY DEF Planned
<1>2. n \in Nat \ {0} /\ c \in 1..n /\ t \in Nat /\ n <= t * c /\ Threads = 1..t
  BY <1>1, ChunkSizes, ThreadNumbers DEF Planned
<1>3. w \in Nat /\ i <= w * c /\ w * c < i + c
  <2>1. i \in Nat /\ c \in Nat \ {0}
    BY <1>2
  <2> QED
    BY <2>1, RoundedUp
<1>4. w # 0
  BY <1>2, <1>3
<1>5. w <= t
  <2>1. SUFFICES ASSUME t < w PROVE FALSE
    BY <1>2, <1>3
  <2>2. t * c + c <= w * c
    BY <1>2, <1>3, <2>1, Multiples
  <2> QED
    BY <1>2, <1>3, <2>2
<1>6. (w - 1) * c + c = w * c /\ (w - 1) * c \in Nat
  BY <1>2, <1>3, <1>4
<1>7. i \in Chunk(w)
  BY <1>2, <1>3, <1>6 DEF Chunk, ChunkStart, ChunkEnd
<1> QED
  BY <1>2, <1>3, <1>4, <1>5, <1>7

\* No item is in two chunks.
LEMMA ChunksDisjoint ==
  ASSUME Planned, NEW v \in Threads, NEW w \in Threads, v # w
  PROVE  Chunk(v) \cap Chunk(w) = {}
<1>1. ASSUME NEW a \in Threads, NEW b \in Threads, a < b
      PROVE  Chunk(a) \cap Chunk(b) = {}
  <2>1. a \in Nat /\ b \in Nat \ {0} /\ plan # <<>>
    BY ChunkBounds
  <2>2. ChunkSize \in Nat /\ Len(plan) \in Nat
    BY <2>1, ChunkSizes DEF Planned
  <2>3. a * ChunkSize <= (b - 1) * ChunkSize
    BY <1>1, <2>1, <2>2
  <2>4. a * ChunkSize \in Nat /\ (b - 1) * ChunkSize \in Nat
    BY <2>1, <2>2
  <2> QED
    BY <2>2, <2>3, <2>4 DEF Chunk, ChunkStart, ChunkEnd
<1>2. v \in Nat /\ w \in Nat
  BY ChunkBounds
<1> QED
  BY <1>1, <1>2

-----------------------------------------------------------------------------
\* The order of the plan is strict and total: no two items are equal in it.
LEMMA BeforeIsAnOrder ==
  /\ \A x \in Items : ~Before(x, x)
  /\ \A x, y, z \in Items : Before(x, y) /\ Before(y, z) => Before(x, z)
  /\ \A x, y \in Items : x = y \/ Before(x, y) \/ Before(y, x)
<1>1. \A x \in Items : x.name \in Nat /\ x.renderer \in Nat /\ x.file \in Nat
  BY BatchAssumption DEF Items
<1>2. ASSUME NEW x \in Items, NEW y \in Items,
             x.name = y.name, x.renderer = y.renderer, x.file = y.file
      PROVE  x = y
  BY <1>2 DEF Items
<1>3. \A x \in Items : ~Before(x, x)
  BY <1>1 DEF Before
<1>4. \A x, y, z \in Items : Before(x, y) /\ Before(y, z) => Before(x, z)
  BY <1>1 DEF Before
<1>5. \A x, y \in Items : x = y \/ Before(x, y) \/ Before(y, x)
  BY <1>1, <1>2 DEF Before
<1> QED
  BY <1>3, <1>4, <1>5

\* The items that come before x, and how many they are.
Lower(S, x) == {y \in S : Before(y, x)}
Rank(S, x) == Cardinality(Lower(S, x))

\* plan_items returns all the items, in order: those that come before an item are as many
\* as places precede it, which no two items have in common, so that no place is left over.
LEMMA PlanIsAnOrdering ==
  ASSUME NEW S \in SUBSET Items, IsFiniteSet(S)
  PROVE  /\ Cardinality(S) \in Nat
         /\ PlanItems(S) \in [1..Cardinality(S) -> S]
         /\ \A x \in S : \E i \in 1..Cardinality(S) : PlanItems(S)[i] = x
         /\ \A i, j \in 1..Cardinality(S) : i < j => Before(PlanItems(S)[i], PlanItems(S)[j])
<1> DEFINE n == Cardinality(S)
           p == PlanItems(S)
<1>1. n \in Nat
  BY FS_CardinalityType
<1>2. ASSUME NEW x \in S
      PROVE  IsFiniteSet(Lower(S, x)) /\ Rank(S, x) \in 0..n - 1
  <2>1. IsFiniteSet(Lower(S, x)) /\ Rank(S, x) <= n /\ (n = Rank(S, x) => S = Lower(S, x))
    <3>1. Lower(S, x) \in SUBSET S
      BY DEF Lower
    <3> QED
      BY <3>1, FS_Subset DEF Rank
  <2>2. x \notin Lower(S, x)
    BY BeforeIsAnOrder DEF Lower
  <2>3. Rank(S, x) \in Nat
    BY <2>1, FS_CardinalityType DEF Rank
  <2> QED
    BY <1>1, <2>1, <2>2, <2>3
<1>3. ASSUME NEW x \in S, NEW y \in S, Before(x, y)
      PROVE  Rank(S, x) < Rank(S, y)
  <2>1. Lower(S, x) \in SUBSET Lower(S, y)
    BY <1>3, BeforeIsAnOrder DEF Lower
  <2>2. x \in Lower(S, y) /\ x \notin Lower(S, x)
    BY <1>3, BeforeIsAnOrder DEF Lower
  <2>3. IsFiniteSet(Lower(S, y)) /\ Rank(S, x) \in Nat /\ Rank(S, y) \in Nat
    BY <1>1, <1>2
  <2>4. Rank(S, x) <= Rank(S, y) /\ (Rank(S, y) = Rank(S, x) => Lower(S, y) = Lower(S, x))
    BY <2>1, <2>3, FS_Subset DEF Rank
  <2> QED
    BY <2>2, <2>3, <2>4
<1>4. ASSUME NEW x \in S, NEW y \in S, Rank(S, x) = Rank(S, y)
      PROVE  x = y
  <2>1. x = y \/ Before(x, y) \/ Before(y, x)
    BY BeforeIsAnOrder
  <2>2. Rank(S, x) \in Nat /\ Rank(S, y) \in Nat
    BY <1>1, <1>2
  <2> QED
    BY <1>3, <1>4, <2>1, <2>2
<1>5. \A k \in 0..n - 1 : \E x \in S : Rank(S, x) = k
  <2> DEFINE r == [x \in S |-> Rank(S, x)]
  <2>1. r \in Injection(S, 0..n - 1)
    BY <1>2, <1>4 DEF Injection, IsInjective
  <2>2. IsFiniteSet(0..n - 1) /\ Cardinality(0..n - 1) = n
    BY <1>1, FS_Interval
  <2>3. r \in Surjection(S, 0..n - 1)
    BY <2>1, <2>2, FS_Injection
  <2> QED
    BY <2>3 DEF Surjection
<1>6. ASSUME NEW i \in 1..n
      PROVE  p[i] \in S /\ Rank(S, p[i]) = i - 1
  <2>1. p[i] = CHOOSE x \in S : Rank(S, x) = i - 1
    BY DEF PlanItems, Rank, Lower
  <2>2. \E x \in S : Rank(S, x) = i - 1
    BY <1>1, <1>5
  <2> QED
    BY <2>1, <2>2
<1>7. p \in [1..n -> S]
  BY <1>6 DEF PlanItems
<1>8. ASSUME NEW x \in S
      PROVE  \E i \in 1..n : p[i] = x
  <2>1. Rank(S, x) + 1 \in 1..n /\ Rank(S, x) = (Rank(S, x) + 1) - 1
    BY <1>1, <1>2
  <2> QED
    BY <1>4, <1>6, <2>1
<1>9. ASSUME NEW i \in 1..n, NEW j \in 1..n, i < j
      PROVE  Before(p[i], p[j])
  <2>1. p[i] \in S /\ p[j] \in S /\ Rank(S, p[i]) < Rank(S, p[j])
    BY <1>1, <1>6, <1>9
  <2>2. ~Before(p[j], p[i]) /\ p[i] # p[j]
    BY <1>1, <1>2, <1>3, <2>1
  <2> QED
    BY <2>1, <2>2, BeforeIsAnOrder
<1> QED
  BY <1>1, <1>7, <1>8, <1>9

\* What the filters leave are items of the recipes, finitely many.
LEMMA SelectionIsFinite ==
  ASSUME NEW recipes \in [Files -> Recipe], NEW asked \in SUBSET Renderers
  PROVE  Selected(recipes, asked) \subseteq Items /\ IsFiniteSet(Selected(recipes, asked))
<1> DEFINE S == Selected(recipes, asked)
           f == [item \in S |-> <<item.file, item.renderer>>]
<1>1. S \subseteq Items
  BY DEF Selected, Items
<1>2. \A x \in S : x.name = recipes[x.file].name
  BY DEF Selected
<1>3. \A x, y \in S : <<x.file, x.renderer>> = <<y.file, y.renderer>> => x = y
  BY <1>1, <1>2 DEF Items
<1>4. f \in Injection(S, Files \X Renderers)
  BY <1>1, <1>3 DEF Injection, IsInjective, Items
<1>5. IsFiniteSet(Files \X Renderers)
  BY BatchAssumption, FS_Product
<1> QED
  BY <1>1, <1>4, <1>5, FS_Injection

-----------------------------------------------------------------------------
Answered(i) == outcomes[i] # Pending

\* What has been joined is what the joined threads have answered.
PlannerInv ==
  /\ Planned
  /\ outcomes \in [Positions -> Outcomes \cup {Pending}]
  /\ lost \subseteq Threads /\ joined \in Threads \cup {0}
  /\ results = [i \in 1..ChunkEnd(joined) |-> outcomes[i]]
  /\ \A i \in 1..ChunkEnd(joined) : Answered(i)

\* A thread comes to an item when it has answered those before it in the chunk.
AtTheirTurn ==
  \A w \in Threads : \A i, j \in Chunk(w) :
     i < j /\ ~Answered(i) => dir[j] = Unnamed /\ ~Answered(j)

\* What is yet to come: no answer of the command, and no file that is not a run's.
Begun ==
  /\ phase = "load" => plan = <<>> /\ DOMAIN disk = {}
  /\ phase = "run" => plan # <<>>
  /\ phase \in {"load", "run"} => cursor = 1 /\ kept = <<>> /\ ~refused /\ exit = NoExit
  /\ cursor = 1 /\ phase \notin {"result", "report"} =>
       \A path \in DOMAIN disk : path.file \in Artifacts

\* Once the threads have been joined, the results are the answers.
Collected ==
  phase \in {"result", "report", "junit", "finish"} \/ cursor > 1 =>
     plan # <<>> /\ results = outcomes

\* Each result looked at is kept or refused; to succeed is to have kept all.
Counted ==
  /\ cursor \in 1..Len(plan) + 1
  /\ \A i \in Positions : i < cursor =>
       IF outcomes[i].ok THEN \E k \in 1..Len(kept) : kept[k] = i ELSE refused
  /\ phase \in {"junit", "finish"} => cursor > Len(plan)
  /\ exit = SUCCESS =>
       /\ phase = "done" /\ cursor > Len(plan) /\ plan # <<>> /\ ~refused
       /\ \A k \in 1..Len(kept) : outcomes[kept[k]].passed

\* The file is there, and it is this run's.
Holds(path, i) == Exists(path) /\ disk[path] = <<i>>

\* The artifacts a result names are on the disk as soon as it is given.
ArtifactsThere ==
  \A i \in Positions : Answered(i) =>
     \A a \in outcomes[i].artifacts : Holds(Path(dir[i], a), i)

\* Of a run whose result is past, the result and the report are there or known not to be.
FilesThere ==
  \A i \in Positions : i < cursor /\ outcomes[i].ok =>
     refused \/ (Holds(ResultPath(i), i) /\ Holds(ReportPath(i), i))

\* A report comes after its result.
ReportsAfter == \A i \in Positions : Exists(ReportPath(i)) => i < cursor /\ Exists(ResultPath(i))

\* What the command has written, in every state.
DiskInv ==
  /\ \A i \in Positions : Answered(i) => dir[i] # Unnamed
  /\ phase = "report" =>
       cursor <= Len(plan) /\ outcomes[cursor].ok /\ Holds(ResultPath(cursor), cursor)
  /\ Exists(LatestPath) => cursor > Len(plan)
  /\ DirsDiffer => ArtifactsThere /\ FilesThere /\ ReportsAfter

\* The ranges of the variables that the planner has no part in.
BatchTypes ==
  /\ dir \in [Positions -> Dirs \cup {Unnamed}]
  /\ \A path \in DOMAIN disk : disk[path] \in Seq(Positions)
  /\ phase \in {"load", "run", "result", "report", "junit", "finish", "done"}
  /\ kept \in Seq(Positions)
  /\ refused \in BOOLEAN
  /\ exit \in {SUCCESS, FAILURE, Panicked, NoExit}

\* The invariant: each part is kept with the help of the others.
Inv == PlannerInv /\ AtTheirTurn /\ BatchTypes /\ Begun /\ Collected /\ Counted /\ DiskInv

-----------------------------------------------------------------------------
USE DEF Positions

\* The plan is submitted to a planner that has nothing to do.
LEMMA Submitted ==
  ASSUME Inv, Select
  PROVE  /\ plan = <<>> /\ outcomes = <<>> /\ results = <<>> /\ joined = 0 /\ lost = {}
         /\ phase = "load" /\ DOMAIN disk = {} /\ phase' = "run"
         /\ plan' \in Seq(Items) /\ plan' # <<>> /\ Len(plan') \in Nat \ {0}
         /\ \A i, j \in 1..Len(plan') : i < j => Before(plan'[i], plan'[j])
         /\ workers' \in 1..MaxWorkers
         /\ outcomes' = [i \in 1..Len(plan') |-> Pending]
         /\ dir' = [i \in 1..Len(plan') |-> Unnamed]
         /\ UNCHANGED <<lost, joined, results, disk, cursor, kept, refused, exit>>
<1>1. phase = "load" /\ plan = <<>> /\ DOMAIN disk = {}
  BY DEF Inv, Begun, Select
<1>2. joined = 0 /\ lost = {}
  BY <1>1 DEF Inv, PlannerInv, Threads
<1>3. ChunkEnd(0) = 0
  BY <1>1 DEF ChunkEnd, ChunkSize
<1>4. outcomes = <<>> /\ results = <<>>
  BY <1>1, <1>2, <1>3 DEF Inv, PlannerInv
<1>5. PICK recipes \in [Files -> Recipe], asked \in SUBSET Renderers, n \in 1..MaxWorkers :
        /\ Selected(recipes, asked) # {}
        /\ RunParallel(PlanItems(Selected(recipes, asked)), n)
        /\ dir' = [i \in 1..Len(PlanItems(Selected(recipes, asked))) |-> Unnamed]
  BY DEF Select
<1> DEFINE S == Selected(recipes, asked)
           k == Cardinality(S)
<1>6. S \subseteq Items /\ IsFiniteSet(S)
  BY SelectionIsFinite
<1>7. /\ k \in Nat /\ PlanItems(S) \in [1..k -> S]
      /\ \A x \in S : \E i \in 1..k : PlanItems(S)[i] = x
      /\ \A i, j \in 1..k : i < j => Before(PlanItems(S)[i], PlanItems(S)[j])
  BY <1>6, PlanIsAnOrdering
<1>8. k # 0
  BY <1>5, <1>7
<1>9. plan' = PlanItems(S) /\ workers' = n /\ UNCHANGED <<lost, joined, results>>
      /\ outcomes' = [i \in 1..Len(PlanItems(S)) |-> Pending]
  BY <1>5 DEF RunParallel
<1> HIDE DEF S, k
<1>10. PlanItems(S) \in Seq(Items) /\ Len(PlanItems(S)) = k
  BY <1>6, <1>7
<1>11. plan' # <<>>
  BY <1>7, <1>8, <1>9, <1>10
<1>12. phase' = "run" /\ UNCHANGED <<disk, cursor, kept, refused, exit>>
  BY DEF Select, Goto
<1>13. dir' = [i \in 1..Len(plan') |-> Unnamed]
  BY <1>5, <1>9 DEF S
<1> QED
  BY <1>1, <1>2, <1>4, <1>7, <1>8, <1>9, <1>10, <1>11, <1>12, <1>13

\* The chunks depend on the plan and on the number of workers only.
LEMMA SameChunks ==
  ASSUME UNCHANGED <<plan, workers>>
  PROVE  /\ ChunkSize' = ChunkSize /\ Threads' = Threads
         /\ \A w : (ChunkEnd(w))' = ChunkEnd(w) /\ (Chunk(w))' = Chunk(w)
BY DEF ChunkSize, Threads, ChunkEnd, Chunk, ChunkStart

\* An item a thread is at is one that no joined thread has had.
LEMMA Answers ==
  ASSUME Inv, NEW w \in Threads, NEW i, Turn(w, i)
  PROVE  /\ i \in Positions /\ i \notin 1..ChunkEnd(joined) /\ i \in Chunk(w)
         /\ outcomes[i] = Pending /\ plan # <<>> /\ ChunkEnd(joined) \in Nat
         /\ Len(plan) \in Nat
<1>1. i \in Chunk(w) /\ outcomes[i] = Pending /\ plan # <<>>
  BY DEF Turn, Threads
<1>2. i \in Positions
  BY <1>1, ChunkBounds DEF Inv, PlannerInv, Chunk
<1>3. ChunkEnd(joined) \in Nat
  BY <1>1, ChunkBounds, ThreadNumbers DEF Inv, PlannerInv
<1> QED
  BY <1>1, <1>2, <1>3 DEF Inv, PlannerInv, Answered, Planned

\* Joining the next thread extends the results by its chunk, and nothing else moves them.
LEMMA PlannerStep ==
  ASSUME Inv, [Next]_vars
  PROVE  PlannerInv'
<1>1. CASE Select
  <2>1. /\ plan' \in Seq(Items) /\ workers' \in 1..MaxWorkers /\ Len(plan') \in Nat
        /\ joined' = 0 /\ lost' = {} /\ results' = <<>>
        /\ outcomes' = [i \in 1..Len(plan') |-> Pending]
    BY <1>1, Submitted
  <2>2. ChunkSize' \in Nat
    BY <2>1, RoundedUp, PlannerAssumption DEF ChunkSize
  <2>3. (ChunkEnd(0))' = 0
    <3>1. 0 * ChunkSize' = 0
      <4>1. \A c \in Nat : 0 * c = 0
        OBVIOUS
      <4> QED
        BY <2>2, <4>1, Zenon
    <3>2. (ChunkEnd(0))' = IF 0 * ChunkSize' < Len(plan') THEN 0 * ChunkSize' ELSE Len(plan')
      BY DEF ChunkEnd
    <3> QED
      BY <2>1, <3>1, <3>2
  <2> QED
    BY <2>1, <2>3 DEF PlannerInv, Planned
<1>2. ASSUME NEW w \in Threads, NEW i \in DOMAIN plan, NEW outcome \in Outcomes,
             Turn(w, i), Answer(i, outcome)
      PROVE  PlannerInv'
  <2>1. UNCHANGED <<plan, workers, lost, joined, results>>
        /\ outcomes' = [outcomes EXCEPT ![i] = outcome]
    BY <1>2 DEF Answer
  <2>2. i \in Positions /\ i \notin 1..ChunkEnd(joined)
    BY <1>2, Answers
  <2>3. Threads' = Threads /\ (ChunkEnd(joined))' = ChunkEnd(joined)
    BY <2>1, SameChunks
  <2>4. ChunkEnd(joined) \in Nat /\ Len(plan) \in Nat
    BY <1>2, Answers
  <2>5. outcomes' \in [Positions -> Outcomes \cup {Pending}]
    BY <2>1 DEF Inv, PlannerInv
  <2>6. \A j \in 1..ChunkEnd(joined) : outcomes'[j] = outcomes[j]
    <3>1. DOMAIN outcomes = Positions
      BY DEF Inv, PlannerInv
    <3>2. ASSUME NEW j \in 1..ChunkEnd(joined)
          PROVE  outcomes'[j] = outcomes[j]
      BY <2>1, <2>2, <2>4, <3>1 DEF Inv, PlannerInv, ChunkEnd
    <3> QED
      BY <3>2
  <2> QED
    BY <2>1, <2>3, <2>5, <2>6 DEF Inv, PlannerInv, Planned, Answered
<1>3. ASSUME NEW w \in Threads, Panic(w)
      PROVE  PlannerInv'
  <2>1. UNCHANGED <<plan, workers, outcomes, joined, results>> /\ lost' = lost \cup {w}
    BY <1>3 DEF Panic
  <2>2. Threads' = Threads /\ (ChunkEnd(joined))' = ChunkEnd(joined)
    BY <2>1, SameChunks
  <2> QED
    BY <2>1, <2>2 DEF Inv, PlannerInv, Planned, Answered
<1>4. CASE Join
  <2> DEFINE w == joined + 1
  <2>1. /\ w \in Threads \ lost /\ Finished(w) /\ joined' = w
        /\ results' = results \o SubSeq(outcomes, ChunkStart(w), ChunkEnd(w))
        /\ UNCHANGED <<plan, workers, outcomes, lost>>
    BY <1>4 DEF Join
  <2>2. joined \in Nat /\ w - 1 = joined
    BY <2>1, ChunkBounds DEF Inv, PlannerInv
  <2>3. /\ ChunkStart(w) = ChunkEnd(joined) + 1 /\ ChunkEnd(joined) \in Nat
        /\ ChunkEnd(w) \in Nat /\ ChunkEnd(joined) < ChunkEnd(w) /\ ChunkEnd(w) <= Len(plan)
    BY <2>1, <2>2, ChunkBounds DEF Inv, PlannerInv
  <2>4. \A i \in Chunk(w) : Answered(i)
    BY <2>1 DEF Finished, Answered
  <2>5. \A i \in 1..ChunkEnd(w) : Answered(i)
    BY <2>3, <2>4 DEF Inv, PlannerInv, Chunk
  <2>6. Threads' = Threads /\ (ChunkEnd(joined))' = ChunkEnd(w)
    <3>1. (ChunkEnd(joined))' = ChunkEnd(joined')
      BY <2>1 DEF ChunkEnd, ChunkSize
    <3> QED
      BY <2>1, <3>1, SameChunks
  <2> HIDE DEF w
  <2>7. results' = [i \in 1..ChunkEnd(w) |-> outcomes[i]]
    <3>1. \A i \in 1..ChunkEnd(w) : outcomes[i] \in Outcomes
      BY <2>3, <2>5 DEF Inv, PlannerInv, Planned, Answered
    <3>2. results \in Seq(Outcomes) /\ Len(results) = ChunkEnd(joined)
          /\ \A i \in 1..ChunkEnd(joined) : results[i] = outcomes[i]
      BY <2>3, <3>1 DEF Inv, PlannerInv
    <3> DEFINE tail == SubSeq(outcomes, ChunkStart(w), ChunkEnd(w))
    <3>3. outcomes \in Seq(Outcomes \cup {Pending}) /\ Len(outcomes) = Len(plan)
      BY DEF Inv, PlannerInv, Planned
    <3>4. /\ tail \in Seq(Outcomes \cup {Pending}) /\ Len(tail) = ChunkEnd(w) - ChunkEnd(joined)
          /\ \A i \in 1..ChunkEnd(w) - ChunkEnd(joined) :
               tail[i] = outcomes[ChunkEnd(joined) + i]
      BY <2>3, <3>3
    <3> HIDE DEF tail
    <3>5. /\ results' \in Seq(Outcomes \cup {Pending}) /\ Len(results') = ChunkEnd(w)
          /\ \A i \in 1..ChunkEnd(w) :
               results'[i] = IF i <= ChunkEnd(joined) THEN results[i]
                             ELSE tail[i - ChunkEnd(joined)]
      BY <2>1, <2>3, <3>2, <3>4 DEF tail
    <3>6. \A i \in 1..ChunkEnd(w) : results'[i] = outcomes[i]
      <4>1. ASSUME NEW i \in 1..ChunkEnd(w), ChunkEnd(joined) < i
            PROVE  results'[i] = outcomes[i]
        <5>1. i - ChunkEnd(joined) \in 1..ChunkEnd(w) - ChunkEnd(joined)
              /\ ChunkEnd(joined) + (i - ChunkEnd(joined)) = i
          BY <2>3, <4>1
        <5> QED
          BY <2>3, <3>4, <3>5, <4>1, <5>1
      <4> QED
        BY <2>3, <3>2, <3>5, <4>1
    <3> QED
      BY <2>3, <3>5, <3>6
  <2> QED
    BY <2>1, <2>5, <2>6, <2>7 DEF Inv, PlannerInv, Planned, Answered
<1>5. CASE UNCHANGED plannerVars
  <2>1. Threads' = Threads /\ (ChunkEnd(joined))' = ChunkEnd(joined)
    BY <1>5, SameChunks DEF plannerVars
  <2> QED
    BY <1>5, <2>1 DEF Inv, PlannerInv, Planned, Answered, plannerVars
<1>6. CASE CallerStep
  BY <1>1, <1>4, <1>5, <1>6 DEF CallerStep, NothingToRun, JoinThread, PanicSpreads, Collect,
     CountRefused, WriteResult, WriteReport, WriteLatest, WriteJUnit, Finish
<1>7. CASE WorkerStep
  <2>1. PICK w \in Threads, i \in DOMAIN plan : ThreadStep(w, i)
    BY <1>7 DEF WorkerStep
  <2>2. Refusal \in Outcomes /\ \A p \in BOOLEAN, a \in SUBSET Artifacts : Result(p, a) \in Outcomes
    BY DEF Outcomes
  <2> QED
    BY <1>2, <1>3, <1>5, <2>1, <2>2 DEF ThreadStep, NameRun, RunRefused, RunReturns, RunPanics
<1> QED
  BY <1>5, <1>6, <1>7 DEF Next, vars, plannerVars

\* No thread goes to an item out of turn.
LEMMA TurnsStep ==
  ASSUME Inv, [Next]_vars
  PROVE  AtTheirTurn'
<1>1. CASE Select
  <2>1. /\ workers' \in 1..MaxWorkers /\ Len(plan') \in Nat
        /\ outcomes' = [i \in 1..Len(plan') |-> Pending]
        /\ dir' = [i \in 1..Len(plan') |-> Unnamed]
    BY <1>1, Submitted
  <2>2. ChunkSize' \in Nat
    BY <2>1, RoundedUp, PlannerAssumption DEF ChunkSize
  <2>3. ASSUME NEW w \in Threads', NEW i \in (Chunk(w))'
        PROVE  i \in 1..Len(plan')
    <3>1. w \in Nat \ {0}
      BY DEF Threads
    <3>2. \A v, c \in Nat : v * c \in Nat
      OBVIOUS
    <3>3. w * ChunkSize' \in Nat /\ (w - 1) * ChunkSize' \in Nat
      <4>1. w \in Nat /\ w - 1 \in Nat
        BY <3>1
      <4> QED
        BY <2>2, <3>2, <4>1, Zenon
    <3> QED
      BY <2>1, <3>3 DEF Chunk, ChunkStart, ChunkEnd
  <2>4. ASSUME NEW w \in Threads', NEW j \in (Chunk(w))'
        PROVE  dir'[j] = Unnamed /\ outcomes'[j] = Pending
    BY <2>1, <2>3
  <2> QED
    BY <2>4 DEF AtTheirTurn, Answered
<1>2. ASSUME UNCHANGED <<plan, workers, outcomes, dir>>
      PROVE  AtTheirTurn'
  BY <1>2, SameChunks DEF Inv, AtTheirTurn, Answered
<1>3. ASSUME NEW w \in Threads, NEW i \in DOMAIN plan, Turn(w, i),
             \/ \E d : dir' = [dir EXCEPT ![i] = d] /\ UNCHANGED outcomes
             \/ dir[i] # Unnamed /\ UNCHANGED dir
                  /\ \E outcome \in Outcomes : outcomes' = [outcomes EXCEPT ![i] = outcome],
             UNCHANGED <<plan, workers>>
      PROVE  AtTheirTurn'
  <2>1. Threads' = Threads /\ \A v : (Chunk(v))' = Chunk(v)
    BY <1>3, SameChunks
  <2>2. i \in Chunk(w) /\ i \in Positions /\ outcomes[i] = Pending
    BY <1>3, Answers
  <2>3. \A j \in Chunk(w) : j < i => Answered(j)
    BY <1>3 DEF Turn, Answered
  <2>4. \A v \in Threads : i \in Chunk(v) => v = w
    BY <2>2, ChunksDisjoint DEF Inv, PlannerInv
  <2>5. \A j \in Positions : j # i => outcomes'[j] = outcomes[j] /\ dir'[j] = dir[j]
    <3>1. /\ dir \in [Positions -> Dirs \cup {Unnamed}]
          /\ outcomes \in [Positions -> Outcomes \cup {Pending}]
      BY DEF Inv, BatchTypes, PlannerInv
    <3> QED
      BY <1>3, <3>1
  <2>6. outcomes'[i] = Pending \/ UNCHANGED dir
    BY <1>3, <2>2
  <2>7. ASSUME NEW v \in Threads, NEW a \in Chunk(v), NEW b \in Chunk(v), a < b,
               outcomes'[a] = Pending
        PROVE  dir'[b] = Unnamed /\ outcomes'[b] = Pending
    <3>1. a \in Positions /\ b \in Positions
      <4>1. /\ ChunkStart(v) \in Nat \ {0} /\ ChunkEnd(v) \in Nat /\ ChunkEnd(v) <= Len(plan)
            /\ Len(plan) \in Nat
        BY ChunkBounds DEF Inv, PlannerInv, Planned
      <4>2. a \in ChunkStart(v)..ChunkEnd(v) /\ b \in ChunkStart(v)..ChunkEnd(v)
        BY DEF Chunk
      <4> QED
        BY <4>1, <4>2
    <3>2. outcomes[a] = Pending
      BY <2>2, <2>5, <2>7, <3>1
    <3>3. dir[b] = Unnamed /\ outcomes[b] = Pending
      BY <2>7, <3>2 DEF Inv, AtTheirTurn, Answered
    <3>4. b # i
      BY <2>3, <2>4, <2>7, <3>2 DEF Answered
    <3> QED
      BY <2>5, <3>1, <3>3, <3>4
  <2> QED
    BY <2>1, <2>7 DEF AtTheirTurn, Answered
<1>4. CASE CallerStep
  BY <1>1, <1>2, <1>4 DEF CallerStep, NothingToRun, JoinThread, Join, PanicSpreads, Collect,
     CountRefused, WriteResult, WriteReport, WriteLatest, WriteJUnit, Finish, plannerVars, storeVars
<1>5. CASE WorkerStep
  <2>1. PICK w \in Threads, i \in DOMAIN plan : ThreadStep(w, i)
    BY <1>5 DEF WorkerStep
  <2>2. Refusal \in Outcomes /\ \A p \in BOOLEAN, a \in SUBSET Artifacts : Result(p, a) \in Outcomes
    BY DEF Outcomes
  <2>3. CASE NameRun(w, i)
    BY <1>3, <2>3 DEF NameRun, NewRunDir, plannerVars
  <2>4. CASE RunRefused(w, i)
    BY <1>3, <2>2, <2>4 DEF RunRefused, Answer, storeVars
  <2>5. CASE RunReturns(w, i)
    BY <1>3, <2>2, <2>5 DEF RunReturns, Answer
  <2>6. CASE RunPanics(w, i)
    BY <1>2, <2>6 DEF RunPanics, Panic, storeVars
  <2> QED
    BY <2>1, <2>3, <2>4, <2>5, <2>6 DEF ThreadStep
<1> QED
  BY <1>2, <1>4, <1>5 DEF Next, vars, plannerVars, storeVars

\* The bound on how many run: at most one item of each chunk has begun and not ended.
LEMMA OneEach ==
  ASSUME Inv
  PROVE  AtMostWorkers
<1> DEFINE busy == {i \in Positions : dir[i] # Unnamed /\ outcomes[i] = Pending}
           f == [i \in busy |-> CHOOSE w \in Threads : i \in Chunk(w)]
<1>1. CASE plan = <<>>
  <2>1. busy = {}
    BY <1>1
  <2>2. Cardinality(busy) = 0
    BY <2>1, FS_EmptySet
  <2>3. workers \in Nat
    BY PlannerAssumption DEF Inv, PlannerInv, Planned
  <2> QED
    BY <2>2, <2>3 DEF AtMostWorkers
<1>2. CASE plan # <<>>
  <2>1. \A i \in busy : f[i] \in Threads /\ i \in Chunk(f[i])
    BY ChunksCover DEF Inv, PlannerInv
  <2>2. ASSUME NEW i \in busy, NEW j \in busy, f[i] = f[j]
        PROVE  i = j
    <3>1. i \in Nat /\ j \in Nat
      BY DEF Inv, PlannerInv, Planned
    <3>2. ~(i < j) /\ ~(j < i)
      BY <2>1, <2>2 DEF Inv, AtTheirTurn, Answered
    <3> QED
      BY <3>1, <3>2
  <2>3. f \in Injection(busy, Threads)
    BY <2>1, <2>2 DEF Injection, IsInjective
  <2> DEFINE t == CeilDiv(Len(plan), ChunkSize)
  <2>4. Threads = 1..t /\ t \in 1..workers /\ workers \in Nat
    BY <1>2, ChunkSizes, ThreadNumbers, PlannerAssumption DEF Inv, PlannerInv, Planned
  <2>5. IsFiniteSet(Threads) /\ Cardinality(Threads) = t
    <3> HIDE DEF t
    <3> QED
      BY <2>4, FS_Interval
  <2>6. IsFiniteSet(busy) /\ Cardinality(busy) <= Cardinality(Threads)
    BY <2>3, <2>5, FS_Injection
  <2>7. Cardinality(busy) \in Nat
    BY <2>6, FS_CardinalityType
  <2> QED
    BY <2>4, <2>5, <2>6, <2>7 DEF AtMostWorkers
<1> QED
  BY <1>1, <1>2

-----------------------------------------------------------------------------
\* Two paths are the same file in the same directory.
LEMMA PathsDiffer ==
  \A d, e, f, g : Path(d, f) = Path(e, g) => d = e /\ f = g
BY DEF Path

\* What atomic_write changes when it succeeds: one file.
LEMMA Written ==
  ASSUME NEW path, NEW content, Write(path, content)
  PROVE  /\ path \in DOMAIN disk' /\ disk'[path] = content
         /\ \A q : q # path => (q \in DOMAIN disk' <=> q \in DOMAIN disk)
         /\ \A q \in DOMAIN disk : q # path => disk'[q] = disk[q]
BY DEF Write

\* And when it fails: at most the file is gone.
LEMMA NotWritten ==
  ASSUME NEW path, WriteFails(path)
  PROVE  /\ \A q : q # path => (q \in DOMAIN disk' <=> q \in DOMAIN disk)
         /\ \A q \in DOMAIN disk' : q \in DOMAIN disk /\ disk'[q] = disk[q]
BY DEF WriteFails

\* What a run writes and removes is in its own directory.
LEMMA AllWritten ==
  ASSUME NEW d, NEW saved, NEW gone, NEW content, WriteAll(d, saved, gone, content)
  PROVE  /\ \A f \in saved : Path(d, f) \in DOMAIN disk' /\ disk'[Path(d, f)] = content
         /\ \A q \in DOMAIN disk' :
              \/ q \in DOMAIN disk /\ disk'[q] = disk[q]
              \/ disk'[q] = content /\ \E f \in saved : q = Path(d, f)
         /\ \A e, f : e # d => (Path(e, f) \in DOMAIN disk' <=> Path(e, f) \in DOMAIN disk)
         /\ \A e, f : e # d /\ Path(e, f) \in DOMAIN disk
                        => disk'[Path(e, f)] = disk[Path(e, f)]
<1> DEFINE written == {Path(d, f) : f \in saved}
           removed == {Path(d, f) : f \in gone}
<1>1. disk' = [p \in (DOMAIN disk \ removed) \cup written |->
                 IF p \in written THEN content ELSE disk[p]]
  BY DEF WriteAll
<1>2. \A e, f : e # d => Path(e, f) \notin written /\ Path(e, f) \notin removed
  BY PathsDiffer
<1>3. \A p \in written : \E f \in saved : p = Path(d, f)
  OBVIOUS
<1>4. \A f \in saved : Path(d, f) \in written
  OBVIOUS
<1> HIDE DEF written, removed
<1> QED
  BY <1>1, <1>2, <1>3, <1>4

\* Once the threads have been joined every item has its answer and its directory.
LEMMA Joined ==
  ASSUME Inv
  PROVE  /\ Len(plan) \in Nat /\ cursor \in 1..Len(plan) + 1
         /\ phase \in {"result", "report", "junit", "finish"} \/ cursor > 1 =>
              /\ plan # <<>> /\ Len(results) = Len(plan) /\ results = outcomes
              /\ \A i \in Positions :
                   Answered(i) /\ outcomes[i] \in Outcomes /\ dir[i] # Unnamed
<1>1. Len(plan) \in Nat /\ cursor \in 1..Len(plan) + 1
  BY DEF Inv, PlannerInv, Planned, Counted
<1>2. ASSUME phase \in {"result", "report", "junit", "finish"} \/ cursor > 1
      PROVE  /\ plan # <<>> /\ Len(results) = Len(plan) /\ results = outcomes
             /\ \A i \in Positions : Answered(i) /\ outcomes[i] \in Outcomes /\ dir[i] # Unnamed
  <2>1. plan # <<>> /\ results = outcomes
    BY <1>2 DEF Inv, Collected
  <2>2. DOMAIN results = 1..ChunkEnd(joined) /\ DOMAIN outcomes = 1..Len(plan)
    BY DEF Inv, PlannerInv
  <2>3. \A i \in Positions : Answered(i)
    BY <2>1, <2>2 DEF Inv, PlannerInv
  <2>4. outcomes \in Seq(Outcomes \cup {Pending}) /\ Len(outcomes) = Len(plan)
    BY <1>1 DEF Inv, PlannerInv
  <2> QED
    BY <2>1, <2>3, <2>4 DEF Inv, PlannerInv, DiskInv, Answered
<1> QED
  BY <1>1, <1>2

\* The caller's own steps once the threads have been joined.
CallerWrites ==
  CountRefused \/ WriteResult \/ WriteReport \/ WriteLatest \/ WriteJUnit \/ Finish

\* The result looked at is one of the plan's.
LEMMA TheCursor ==
  ASSUME Inv, (phase = "result" /\ cursor <= Len(results)) \/ phase = "report"
  PROVE  cursor \in Positions /\ cursor \in Nat
BY Joined DEF Inv, DiskInv

\* No variable leaves its range.
LEMMA TypesStep ==
  ASSUME Inv, [Next]_vars
  PROVE  BatchTypes'
<1> USE DEF Inv
<1>1. CASE Select
  <2>1. /\ Len(plan') \in Nat /\ dir' = [i \in 1..Len(plan') |-> Unnamed]
        /\ DOMAIN disk = {} /\ phase' = "run" /\ UNCHANGED <<disk, kept, refused, exit, cursor>>
        /\ kept = <<>>
    BY <1>1, Submitted DEF Begun
  <2> QED
    BY <2>1 DEF BatchTypes
<1>2. ASSUME UNCHANGED <<plan, dir, kept>>,
             \A path \in DOMAIN disk' : disk'[path] \in Seq(Positions),
             phase' \in {"load", "run", "result", "report", "junit", "finish", "done"},
             refused' \in BOOLEAN, exit' \in {SUCCESS, FAILURE, Panicked, NoExit}
      PROVE  BatchTypes'
  BY <1>2 DEF BatchTypes
<1>3. CASE NothingToRun \/ JoinThread \/ PanicSpreads \/ Collect
  BY <1>2, <1>3 DEF NothingToRun, JoinThread, Join, PanicSpreads, Collect, Goto, End, BatchTypes,
     plannerVars, storeVars, batchVars
<1>4. CASE CountRefused \/ Finish
  BY <1>2, <1>4 DEF CountRefused, Finish, End, BatchTypes, plannerVars, storeVars
<1>5. CASE WriteResult
  <2>1. cursor \in Positions /\ <<cursor>> \in Seq(Positions)
    BY <1>5, TheCursor DEF WriteResult
  <2>2. \A path \in DOMAIN disk' : disk'[path] \in Seq(Positions)
    BY <1>5, <2>1, Written, NotWritten DEF WriteResult, BatchTypes
  <2>3. UNCHANGED <<plan, dir, exit>>
    BY <1>5 DEF WriteResult, plannerVars
  <2>4. /\ phase' \in {"result", "report"}
        /\ \/ UNCHANGED <<kept, refused>>
           \/ kept' = Append(kept, cursor) /\ refused' = TRUE
    BY <1>5 DEF WriteResult, Keep, Goto
  <2>5. kept' \in Seq(Positions) /\ refused' \in BOOLEAN
    <3>1. kept \in Seq(Positions) /\ refused \in BOOLEAN
      BY DEF BatchTypes
    <3>2. Append(kept, cursor) \in Seq(Positions)
      BY <2>1, <3>1
    <3> QED
      BY <2>4, <3>1, <3>2
  <2> QED
    BY <2>2, <2>3, <2>4, <2>5 DEF BatchTypes
<1>6. CASE WriteReport
  <2>1. cursor \in Positions /\ <<cursor>> \in Seq(Positions)
    BY <1>6, TheCursor DEF WriteReport
  <2>2. \A path \in DOMAIN disk' : disk'[path] \in Seq(Positions)
    BY <1>6, <2>1, Written, NotWritten DEF WriteReport, BatchTypes
  <2>3. /\ UNCHANGED <<plan, dir, exit>> /\ refused' \in BOOLEAN /\ phase' = "result"
        /\ kept' = Append(kept, cursor)
    BY <1>6 DEF WriteReport, plannerVars, Keep, Goto, BatchTypes
  <2> QED
    BY <2>1, <2>2, <2>3 DEF BatchTypes
<1>7. CASE WriteLatest \/ WriteJUnit
  <2>1. \A path \in DOMAIN disk' : disk'[path] \in Seq(Positions)
    BY <1>7, Written, NotWritten DEF WriteLatest, WriteJUnit, BatchTypes
  <2>2. UNCHANGED <<plan, dir, exit, refused, kept>> /\ phase' \in {"junit", "finish"}
    BY <1>7 DEF WriteLatest, WriteJUnit, plannerVars, Goto
  <2> QED
    BY <1>2, <2>1, <2>2 DEF BatchTypes
<1>8. ASSUME NEW w \in Threads, NEW i \in DOMAIN plan, ThreadStep(w, i)
      PROVE  BatchTypes'
  <2>1. i \in Positions
    BY DEF PlannerInv, Planned
  <2>2. CASE NameRun(w, i)
    <3>1. plan[i] \in Items
      BY DEF PlannerInv, Planned
    <3>2. \A read \in Readings : RunDir(plan[i], read) \in Dirs
      BY <3>1 DEF RunDir, Dirs, Items
    <3>3. /\ \E read \in Readings : dir' = [dir EXCEPT ![i] = RunDir(plan[i], read)]
          /\ UNCHANGED <<plan, disk, phase, kept, refused, exit>>
      BY <2>2 DEF NameRun, NewRunDir, plannerVars, batchVars
    <3> QED
      BY <3>2, <3>3 DEF BatchTypes
  <2>3. CASE RunReturns(w, i)
    <3>1. UNCHANGED <<plan, dir, phase, kept, refused, exit>>
      BY <2>3 DEF RunReturns, Answer, batchVars
    <3>2. \A path \in DOMAIN disk' : disk'[path] \in Seq(Positions)
      <4>1. PICK saved \in SUBSET Artifacts : \E gone \in SUBSET (Artifacts \ saved) :
              WriteAll(dir[i], saved, gone, <<i>>)
        BY <2>3 DEF RunReturns
      <4>2. <<i>> \in Seq(Positions)
        BY <2>1
      <4>3. \A q \in DOMAIN disk' : (q \in DOMAIN disk /\ disk'[q] = disk[q]) \/ disk'[q] = <<i>>
        BY <4>1, AllWritten
      <4> QED
        BY <4>2, <4>3 DEF BatchTypes
    <3> QED
      BY <3>1, <3>2 DEF BatchTypes
  <2>4. CASE RunRefused(w, i) \/ RunPanics(w, i)
    BY <2>4 DEF RunRefused, RunPanics, Answer, Panic, storeVars, batchVars, BatchTypes
  <2> QED
    BY <1>8, <2>2, <2>3, <2>4 DEF ThreadStep
<1>9. CASE UNCHANGED vars
  BY <1>9 DEF vars, plannerVars, storeVars, batchVars, BatchTypes
<1> QED
  BY <1>1, <1>3, <1>4, <1>5, <1>6, <1>7, <1>8, <1>9 DEF Next, CallerStep, WorkerStep

\* Until the first result is written only artifacts are.
LEMMA BegunStep ==
  ASSUME Inv, [Next]_vars
  PROVE  Begun'
<1> USE DEF Inv
<1>1. CASE Select
  <2>1. /\ plan' # <<>> /\ DOMAIN disk = {} /\ phase = "load" /\ phase' = "run"
        /\ UNCHANGED <<disk, cursor, kept, refused, exit>>
    BY <1>1, Submitted
  <2> QED
    BY <2>1 DEF Begun
<1>2. CASE NothingToRun \/ JoinThread \/ PanicSpreads \/ Collect
  BY <1>2 DEF NothingToRun, JoinThread, Join, PanicSpreads, Collect, Goto, End, Begun,
     plannerVars, storeVars, batchVars
<1>3. CASE CallerWrites
  <2>1. cursor \in Nat \ {0} /\ Len(plan) \in Nat
    BY Joined
  <2>2. phase' \in {"result", "report"} \/ cursor' > 1
    <3>1. phase \in {"result", "report", "junit", "finish"}
      BY <1>3 DEF CallerWrites, CountRefused, WriteResult, WriteReport, WriteLatest,
         WriteJUnit, Finish
    <3>2. Len(results) = Len(plan) /\ Len(plan) # 0
      <4>1. Len(results) = Len(plan) /\ plan # <<>>
        BY <3>1, Joined
      <4>2. plan \in Seq(Items)
        BY DEF PlannerInv, Planned
      <4> QED
        BY <4>1, <4>2
    <3>3. phase \in {"junit", "finish"} => cursor > 1
      BY <2>1, <3>2 DEF Counted
    <3> QED
      BY <1>3, <2>1, <3>2, <3>3 DEF CallerWrites, CountRefused, WriteResult, WriteReport,
         WriteLatest, WriteJUnit, Finish, Keep, Goto
  <2>3. phase' \in {"result", "report", "junit", "finish", "done"}
    BY <1>3 DEF CallerWrites, CountRefused, WriteResult, WriteReport, WriteLatest, WriteJUnit,
       Finish, Keep, Goto, End
  <2>4. cursor' \in Nat
    BY <1>3, <2>1 DEF CallerWrites, CountRefused, WriteResult, WriteReport, WriteLatest,
       WriteJUnit, Finish, Keep
  <2> QED
    BY <2>2, <2>3, <2>4 DEF Begun
<1>4. ASSUME NEW w \in Threads, NEW i \in DOMAIN plan, ThreadStep(w, i)
      PROVE  Begun'
  <2>1. phase = "run" /\ UNCHANGED <<plan, batchVars>>
    BY <1>4 DEF ThreadStep, NameRun, RunRefused, RunReturns, RunPanics, Answer, Panic, plannerVars
  <2>2. \A path \in DOMAIN disk : path.file \in Artifacts
    BY <2>1 DEF Begun
  <2>3. \A path \in DOMAIN disk' : path.file \in Artifacts
    <3>1. CASE RunReturns(w, i)
      <4>1. PICK saved \in SUBSET Artifacts : \E gone \in SUBSET (Artifacts \ saved) :
              WriteAll(dir[i], saved, gone, <<i>>)
        BY <3>1 DEF RunReturns
      <4>2. \A f \in saved : Path(dir[i], f).file \in Artifacts
        BY DEF Path
      <4>3. \A q \in DOMAIN disk' : q \in DOMAIN disk \/ \E f \in saved : q = Path(dir[i], f)
        BY <4>1, AllWritten
      <4> QED
        BY <2>2, <4>2, <4>3
    <3>2. CASE NameRun(w, i) \/ RunRefused(w, i) \/ RunPanics(w, i)
      BY <2>2, <3>2 DEF NameRun, NewRunDir, RunRefused, RunPanics, storeVars
    <3> QED
      BY <1>4, <3>1, <3>2 DEF ThreadStep
  <2> QED
    BY <2>1, <2>3 DEF Begun, batchVars
<1>5. CASE UNCHANGED vars
  BY <1>5 DEF vars, plannerVars, storeVars, batchVars, Begun
<1> QED
  BY <1>1, <1>2, <1>3, <1>4, <1>5 DEF Next, CallerStep, WorkerStep, CallerWrites

\* The results are collected when every thread has been joined.
LEMMA CollectedStep ==
  ASSUME Inv, [Next]_vars
  PROVE  Collected'
<1> USE DEF Inv
<1>1. CASE Collect
  <2>1. plan # <<>> /\ AllJoined /\ UNCHANGED plannerVars
    BY <1>1 DEF Collect, Begun
  <2>2. ChunkEnd(joined) = Len(plan)
    <3> DEFINE t == CeilDiv(Len(plan), ChunkSize)
    <3>1. Threads = 1..t /\ t \in Threads /\ ChunkEnd(t) = Len(plan) /\ t \in Nat
      BY <2>1, ChunkSizes, ThreadNumbers, PlannerAssumption DEF PlannerInv, Planned
    <3>2. t <= joined
      BY <2>1, <3>1 DEF AllJoined
    <3> HIDE DEF t
    <3>3. joined = t
      BY <3>1, <3>2 DEF PlannerInv
    <3> QED
      BY <3>1, <3>3
  <2>3. results = outcomes
    BY <2>2 DEF PlannerInv
  <2> QED
    BY <2>1, <2>3 DEF Collected, plannerVars
<1>2. CASE CallerWrites
  <2>1. phase \in {"result", "report", "junit", "finish"} /\ UNCHANGED plannerVars
    BY <1>2 DEF CallerWrites, CountRefused, WriteResult, WriteReport, WriteLatest, WriteJUnit, Finish
  <2> QED
    BY <2>1 DEF Collected, plannerVars
<1>3. CASE Select \/ NothingToRun \/ JoinThread \/ PanicSpreads \/ WorkerStep
  <2>1. phase \in {"load", "run"} /\ phase' \in {"run", "done"} /\ UNCHANGED cursor
    BY <1>3 DEF Select, NothingToRun, JoinThread, PanicSpreads, WorkerStep, ThreadStep,
       NameRun, RunRefused, RunReturns, RunPanics, Goto, End, batchVars
  <2> QED
    BY <2>1 DEF Begun, Collected
<1>4. CASE UNCHANGED vars
  BY <1>4 DEF vars, plannerVars, batchVars, Collected
<1> QED
  BY <1>1, <1>2, <1>3, <1>4 DEF Next, CallerStep, CallerWrites

\* The cursor passes a result once it is kept or refused.
LEMMA CountedStep ==
  ASSUME Inv, [Next]_vars
  PROVE  Counted'
<1> USE DEF Inv
<1>1. CASE Select \/ NothingToRun \/ JoinThread \/ PanicSpreads \/ Collect \/ WorkerStep
  <2>1. /\ phase \in {"load", "run"} /\ cursor = 1 /\ exit = NoExit
        /\ phase' \in {"run", "result", "done"} /\ UNCHANGED cursor
        /\ UNCHANGED exit \/ exit' = FAILURE \/ exit' = Panicked
    BY <1>1 DEF Select, NothingToRun, JoinThread, PanicSpreads, WorkerStep, ThreadStep, Collect,
       NameRun, RunRefused, RunReturns, RunPanics, Goto, End, batchVars, Begun
  <2>2. exit' # SUCCESS
    BY <2>1 DEF SUCCESS, FAILURE, Panicked, NoExit
  <2>3. Len(plan') \in Nat
    <3>1. CASE Select
      BY <3>1, Submitted
    <3>2. CASE ~Select
      BY <1>1, <3>2, Joined DEF NothingToRun, JoinThread, Join, PanicSpreads, WorkerStep,
         ThreadStep, Collect, NameRun, RunRefused, RunReturns, RunPanics, Answer, Panic, plannerVars
    <3> QED
      BY <3>1, <3>2
  <2> QED
    BY <2>1, <2>2, <2>3 DEF Counted
<1>2. CASE CallerWrites
  <2>1. /\ phase \in {"result", "report", "junit", "finish"} /\ UNCHANGED <<plan, outcomes, results>>
    BY <1>2 DEF CallerWrites, CountRefused, WriteResult, WriteReport, WriteLatest, WriteJUnit,
       Finish, plannerVars
  <2>2. /\ Len(plan) \in Nat /\ cursor \in 1..Len(plan) + 1 /\ plan # <<>>
        /\ Len(results) = Len(plan) /\ results = outcomes
    BY <2>1, Joined
  <2>3. kept \in Seq(Positions)
    BY DEF BatchTypes
  <2>4. exit # SUCCESS
    BY <2>1 DEF Counted
  <2>5. CASE CountRefused
    <3>1. /\ cursor <= Len(plan) /\ ~outcomes[cursor].ok /\ refused' = TRUE
          /\ cursor' = cursor + 1 /\ UNCHANGED <<kept, exit, phase>> /\ phase = "result"
      BY <2>2, <2>5 DEF CountRefused
    <3>2. cursor' \in 1..Len(plan) + 1
      BY <2>2, <3>1
    <3>3. ASSUME NEW i \in Positions, i < cursor'
          PROVE  IF outcomes[i].ok THEN \E k \in 1..Len(kept) : kept[k] = i ELSE refused'
      <4>1. i = cursor \/ i < cursor
        BY <2>2, <3>1, <3>3
      <4> QED
        BY <3>1, <4>1 DEF Counted
    <3> QED
      BY <2>1, <2>4, <3>1, <3>2, <3>3 DEF Counted
  <2>6. ASSUME phase \in {"result", "report"}, cursor <= Len(plan), outcomes[cursor].ok,
               Keep, refused' = TRUE \/ UNCHANGED refused, UNCHANGED exit
        PROVE  Counted'
    <3>1. /\ kept' = Append(kept, cursor) /\ cursor' = cursor + 1 /\ phase' = "result"
      BY <2>6 DEF Keep, Goto
    <3>2. cursor' \in 1..Len(plan) + 1 /\ cursor \in Positions
      BY <2>2, <2>6, <3>1
    <3>3. /\ Len(kept) \in Nat /\ Len(kept') = Len(kept) + 1 /\ kept'[Len(kept) + 1] = cursor
          /\ \A k \in 1..Len(kept) : kept'[k] = kept[k]
      BY <2>3, <3>1, <3>2
    <3>4. ASSUME NEW i \in Positions, i < cursor'
          PROVE  IF outcomes[i].ok THEN \E k \in 1..Len(kept') : kept'[k] = i ELSE refused'
      <4>1. CASE i = cursor
        BY <2>6, <3>3, <4>1
      <4>2. CASE i < cursor
        BY <2>6, <3>3, <4>2 DEF Counted
      <4> QED
        BY <2>2, <3>1, <3>4, <4>1, <4>2
    <3> QED
      BY <2>1, <2>4, <2>6, <3>1, <3>2, <3>4 DEF Counted
  <2>7. CASE WriteResult
    <3>1. cursor <= Len(plan) /\ outcomes[cursor].ok /\ phase = "result" /\ UNCHANGED exit
      BY <2>2, <2>7 DEF WriteResult
    <3>2. CASE Keep
      BY <2>6, <2>7, <3>1, <3>2 DEF WriteResult
    <3>3. CASE phase' = "report" /\ UNCHANGED <<cursor, kept, refused>>
      BY <2>1, <2>4, <3>1, <3>3 DEF Counted
    <3> QED
      BY <2>7, <3>2, <3>3 DEF WriteResult, Goto
  <2>8. CASE WriteReport
    <3>1. cursor <= Len(plan) /\ outcomes[cursor].ok /\ phase = "report" /\ UNCHANGED exit
      BY <2>8 DEF WriteReport, DiskInv
    <3> QED
      BY <2>6, <2>8, <3>1 DEF WriteReport
  <2>9. CASE WriteLatest \/ WriteJUnit
    <3>1. cursor > Len(plan) /\ phase' \in {"junit", "finish"} /\ UNCHANGED <<cursor, kept, refused, exit>>
      BY <2>2, <2>9 DEF WriteLatest, WriteJUnit, Goto, Counted
    <3> QED
      BY <2>1, <2>4, <3>1 DEF Counted
  <2>10. CASE Finish
    <3>1. cursor > Len(plan) /\ phase' = "done" /\ UNCHANGED <<cursor, kept, refused>>
      BY <2>2, <2>10 DEF Finish, End, Counted
    <3>2. exit' = SUCCESS => ~refused /\ \A k \in 1..Len(kept) : outcomes[kept[k]].passed
      BY <2>2, <2>10 DEF Finish, End, SUCCESS, FAILURE
    <3> QED
      BY <2>1, <2>2, <3>1, <3>2 DEF Counted
  <2> QED
    BY <1>2, <2>5, <2>7, <2>8, <2>9, <2>10 DEF CallerWrites
<1>3. CASE UNCHANGED vars
  BY <1>3 DEF vars, plannerVars, batchVars, Counted
<1> QED
  BY <1>1, <1>2, <1>3 DEF Next, CallerStep, CallerWrites

-----------------------------------------------------------------------------
\* No file of the command is one of a run, and no two of its own are one.
LEMMA FileNames ==
  /\ \A a \in Artifacts : a \notin {"result.json", "report.md", "latest-report.md"}
  /\ \A a \in Artifacts : \A d, i : Path(d, a) \notin {ResultPath(i), ReportPath(i), LatestPath, JUnitPath}
  /\ \A i, j : ResultPath(i) # ReportPath(j)
  /\ \A i : LatestPath \notin {ResultPath(i), ReportPath(i), JUnitPath}
  /\ \A i : JUnitPath \notin {ResultPath(i), ReportPath(i)}
  /\ \A i, j : ResultPath(i) = ResultPath(j) => dir[i] = dir[j]
  /\ \A i, j : ReportPath(i) = ReportPath(j) => dir[i] = dir[j]
<1>1. \A a \in Artifacts : a \notin {"result.json", "report.md", "latest-report.md", "junit.xml"}
  BY BatchAssumption
<1> QED
  BY <1>1, PathsDiffer DEF ResultPath, ReportPath, LatestPath, JUnitPath

\* A run writes into its own directory, which is no other run's if the directories differ.
LEMMA WorkersKeepDisk ==
  ASSUME Inv, NEW w \in Threads, NEW i \in DOMAIN plan, ThreadStep(w, i)
  PROVE  DiskInv'
<1> USE DEF Inv
<1>1. /\ phase = "run" /\ Turn(w, i) /\ UNCHANGED <<plan, batchVars>> /\ cursor = 1
  BY DEF ThreadStep, NameRun, RunRefused, RunReturns, RunPanics, Answer, Panic, plannerVars, Begun
<1>2. i \in Positions /\ outcomes[i] = Pending /\ Len(plan) \in Nat
  BY <1>1, Answers
<1>3. /\ dir \in [Positions -> Dirs \cup {Unnamed}]
      /\ outcomes \in [Positions -> Outcomes \cup {Pending}]
  BY DEF PlannerInv, BatchTypes
<1>4. ASSUME (\A j \in Positions : Answered(j) => dir[j] # Unnamed)',
             DirsDiffer' => ArtifactsThere'
      PROVE  DiskInv'
  <2>1. [Next]_vars
    BY DEF Next, WorkerStep
  <2>2. Begun'
    BY <2>1, BegunStep
  <2>3. \A path \in DOMAIN disk' : path.file \in Artifacts
    BY <1>1, <2>2 DEF Begun, batchVars
  <2>4. \A d, f : Path(d, f).file = f
    BY DEF Path
  <2>5. ~Exists(LatestPath)' /\ \A j : ~Exists(ReportPath(j))'
    BY <2>3, <2>4, FileNames DEF Exists, LatestPath, ReportPath
  <2>6. FilesThere' /\ ReportsAfter'
    BY <1>1, <1>2, <2>5 DEF FilesThere, ReportsAfter, batchVars
  <2>7. phase' # "report"
    BY <1>1 DEF batchVars
  <2> QED
    BY <1>4, <2>5, <2>6, <2>7 DEF DiskInv
<1>5. CASE NameRun(w, i)
  <2>1. /\ dir[i] = Unnamed /\ UNCHANGED <<plan, disk, outcomes>>
        /\ \E read \in Readings : dir' = [dir EXCEPT ![i] = RunDir(plan[i], read)]
    BY <1>5 DEF NameRun, NewRunDir, plannerVars
  <2>2. \A j \in Positions : j # i => dir'[j] = dir[j]
    BY <1>3, <2>1
  <2>3. \A j \in Positions : Answered(j)' => Answered(j) /\ j # i
    BY <1>2, <2>1 DEF Answered
  <2>4. DirsDiffer' => DirsDiffer
    BY <2>1, <2>2 DEF DirsDiffer
  <2>5. (\A j \in Positions : Answered(j) => dir[j] # Unnamed)'
    BY <2>1, <2>2, <2>3 DEF DiskInv
  <2>6. DirsDiffer' => ArtifactsThere'
    BY <2>1, <2>2, <2>3, <2>4 DEF DiskInv, ArtifactsThere, Holds, Exists
  <2> QED
    BY <1>4, <2>5, <2>6
<1>6. CASE RunRefused(w, i)
  <2>1. /\ dir[i] # Unnamed /\ UNCHANGED <<plan, disk, dir>>
        /\ outcomes' = [outcomes EXCEPT ![i] = Refusal]
    BY <1>6 DEF RunRefused, Answer, storeVars
  <2>2. \A j \in Positions : j # i => outcomes'[j] = outcomes[j]
    BY <1>3, <2>1
  <2>3. outcomes'[i].artifacts = {}
    BY <1>2, <1>3, <2>1 DEF Refusal
  <2>4. (\A j \in Positions : Answered(j) => dir[j] # Unnamed)'
    BY <2>1, <2>2 DEF DiskInv, Answered
  <2>5. DirsDiffer' => ArtifactsThere'
    BY <2>1, <2>2, <2>3 DEF DiskInv, ArtifactsThere, Holds, Exists, DirsDiffer, Answered
  <2> QED
    BY <1>4, <2>4, <2>5
<1>7. CASE RunReturns(w, i)
  <2>1. PICK passed \in BOOLEAN, saved \in SUBSET Artifacts :
          /\ Answer(i, Result(passed, saved))
          /\ \E gone \in SUBSET (Artifacts \ saved) : WriteAll(dir[i], saved, gone, <<i>>)
    BY <1>7 DEF RunReturns
  <2>2. /\ dir[i] # Unnamed /\ UNCHANGED <<plan, dir>>
        /\ outcomes' = [outcomes EXCEPT ![i] = Result(passed, saved)]
    BY <1>7, <2>1 DEF RunReturns, Answer
  <2>3. \A j \in Positions : j # i => outcomes'[j] = outcomes[j]
    BY <1>3, <2>2
  <2>4. outcomes'[i].artifacts = saved
    BY <1>2, <1>3, <2>2 DEF Result
  <2>5. (\A j \in Positions : Answered(j) => dir[j] # Unnamed)'
    BY <2>2, <2>3 DEF DiskInv, Answered
  <2>6. ASSUME DirsDiffer'
        PROVE  ArtifactsThere'
    <3>1. ASSUME NEW j \in Positions, Answered(j)', NEW a \in outcomes'[j].artifacts
          PROVE  Path(dir[j], a) \in DOMAIN disk' /\ disk'[Path(dir[j], a)] = <<j>>
      <4>1. CASE j = i
        BY <2>1, <2>4, <3>1, <4>1, AllWritten
      <4>2. CASE j # i
        <5>1. Answered(j) /\ a \in outcomes[j].artifacts
          BY <2>3, <3>1, <4>2 DEF Answered
        <5>2. dir[j] # Unnamed /\ DirsDiffer
          BY <2>2, <2>6, <5>1 DEF DiskInv, DirsDiffer
        <5>3. dir[j] # dir[i]
          BY <1>2, <4>2, <5>2 DEF DirsDiffer
        <5>4. Path(dir[j], a) \in DOMAIN disk /\ disk[Path(dir[j], a)] = <<j>>
          BY <5>1, <5>2 DEF DiskInv, ArtifactsThere, Holds, Exists
        <5> QED
          BY <2>1, <5>3, <5>4, AllWritten
      <4> QED
        BY <4>1, <4>2
    <3> QED
      BY <2>2, <3>1 DEF ArtifactsThere, Holds, Exists
  <2> QED
    BY <1>4, <2>5, <2>6
<1>8. CASE RunPanics(w, i)
  <2>1. UNCHANGED <<plan, outcomes, dir, disk>>
    BY <1>8 DEF RunPanics, Panic, storeVars
  <2>2. (\A j \in Positions : Answered(j) => dir[j] # Unnamed)'
    BY <2>1 DEF DiskInv, Answered
  <2>3. DirsDiffer' => ArtifactsThere'
    BY <2>1 DEF DiskInv, ArtifactsThere, Holds, Exists, DirsDiffer, Answered
  <2> QED
    BY <1>4, <2>2, <2>3
<1> QED
  BY <1>5, <1>6, <1>7, <1>8 DEF ThreadStep

\* The command writes the result of a run before its report, and the report of all runs last.
LEMMA CallerKeepsDisk ==
  ASSUME Inv, CallerWrites
  PROVE  DiskInv'
<1> USE DEF Inv
<1>1. /\ phase \in {"result", "report", "junit", "finish"}
      /\ UNCHANGED <<plan, outcomes, results, dir>>
  BY DEF CallerWrites, CountRefused, WriteResult, WriteReport, WriteLatest, WriteJUnit,
     Finish, plannerVars, storeVars
<1>2. /\ Len(plan) \in Nat /\ cursor \in 1..Len(plan) + 1 /\ Len(results) = Len(plan)
      /\ results = outcomes
      /\ \A i \in Positions : Answered(i) /\ outcomes[i] \in Outcomes /\ dir[i] # Unnamed
  BY <1>1, Joined
<1>3. \A i \in Positions : outcomes[i].artifacts \subseteq Artifacts
  BY <1>2 DEF Outcomes, Refusal, Result
<1>4. (\A i \in Positions : Answered(i) => dir[i] # Unnamed)'
  BY <1>1, <1>2 DEF Answered
<1>5. ASSUME DirsDiffer, NEW i \in Positions, NEW j \in Positions, i # j
      PROVE  ResultPath(i) # ResultPath(j) /\ ReportPath(i) # ReportPath(j)
  BY <1>2, <1>5, FileNames DEF DirsDiffer
<1>6. /\ \A i : ResultPath(i)' = ResultPath(i) /\ ReportPath(i)' = ReportPath(i)
      /\ LatestPath' = LatestPath /\ (DirsDiffer' <=> DirsDiffer)
  BY <1>1 DEF ResultPath, ReportPath, LatestPath, DirsDiffer
\* What the command writes besides the artifacts leaves them as they are.
<1>7. ASSUME DirsDiffer, NEW path,
             path \notin {Path(d, a) : d \in {dir[i] : i \in Positions}, a \in Artifacts},
             Write(path, <<cursor>>) \/ Write(path, kept) \/ WriteFails(path)
      PROVE  ArtifactsThere'
  <2>1. \A q \in DOMAIN disk : q # path => q \in DOMAIN disk' /\ disk'[q] = disk[q]
    BY <1>7, Written, NotWritten
  <2>2. \A i \in Positions : \A a \in outcomes[i].artifacts : Path(dir[i], a) # path
    BY <1>3, <1>7
  <2>3. ASSUME NEW i \in Positions, NEW a \in outcomes[i].artifacts
        PROVE  Path(dir[i], a) \in DOMAIN disk' /\ disk'[Path(dir[i], a)] = <<i>>
    <3>1. ArtifactsThere /\ Answered(i)
      BY <1>2, <1>7 DEF DiskInv
    <3>2. Path(dir[i], a) \in DOMAIN disk /\ disk[Path(dir[i], a)] = <<i>>
      BY <3>1 DEF ArtifactsThere, Holds, Exists
    <3> QED
      BY <2>1, <2>2, <3>2
  <2> QED
    BY <1>1, <2>3 DEF ArtifactsThere, Holds, Exists
<1>8. CASE CountRefused
  <2>1. /\ phase' = "result" /\ cursor' = cursor + 1 /\ refused' = TRUE /\ UNCHANGED disk
    BY <1>8 DEF CountRefused, storeVars
  <2>2. DirsDiffer => ArtifactsThere' /\ FilesThere' /\ ReportsAfter'
    <3>1. DirsDiffer => ArtifactsThere'
      BY <1>1, <2>1 DEF DiskInv, ArtifactsThere, Holds, Exists, Answered
    <3>2. FilesThere'
      BY <2>1 DEF FilesThere
    <3>3. DirsDiffer => ReportsAfter'
      BY <1>1, <1>2, <1>6, <2>1 DEF DiskInv, ReportsAfter, Exists
    <3> QED
      BY <3>1, <3>2, <3>3
  <2>3. Exists(LatestPath)' => cursor' > Len(plan')
    BY <1>1, <1>2, <1>6, <2>1 DEF DiskInv, Exists
  <2> QED
    BY <1>4, <1>6, <2>1, <2>2, <2>3 DEF DiskInv
<1>9. CASE Finish
  <2>1. phase' = "done" /\ UNCHANGED <<cursor, refused, disk>>
    BY <1>9 DEF Finish, End, storeVars
  <2>2. DirsDiffer => ArtifactsThere' /\ FilesThere' /\ ReportsAfter'
    BY <1>1, <1>2, <1>6, <2>1
       DEF DiskInv, ArtifactsThere, FilesThere, ReportsAfter, Holds, Exists, Answered
  <2>3. Exists(LatestPath)' => cursor' > Len(plan')
    BY <1>1, <1>2, <1>6, <2>1 DEF DiskInv, Exists
  <2> QED
    BY <1>4, <1>6, <2>1, <2>2, <2>3 DEF DiskInv
<1>10. CASE WriteResult
  <2>1. /\ phase = "result" /\ cursor \in Positions /\ outcomes[cursor].ok
        /\ \/ /\ Write(ResultPath(cursor), <<cursor>>)
              /\ phase' = "report" /\ UNCHANGED <<cursor, refused>>
           \/ /\ WriteFails(ResultPath(cursor))
              /\ phase' = "result" /\ cursor' = cursor + 1 /\ refused' = TRUE
    BY <1>2, <1>10, TheCursor DEF WriteResult, Goto, Keep
  <2>2. \A q \in DOMAIN disk : q # ResultPath(cursor) => q \in DOMAIN disk' /\ disk'[q] = disk[q]
    BY <2>1, Written, NotWritten
  <2>3. \A q : q # ResultPath(cursor) => (q \in DOMAIN disk' <=> q \in DOMAIN disk)
    BY <2>1, Written, NotWritten
  <2>4. DirsDiffer => ArtifactsThere'
    BY <1>7, <2>1, FileNames
  <2>5. ASSUME DirsDiffer PROVE FilesThere'
    <3>1. CASE refused' = TRUE
      BY <1>1, <3>1 DEF FilesThere
    <3>2. CASE UNCHANGED <<cursor, refused>>
      <4>1. ASSUME NEW i \in Positions, i < cursor
            PROVE  ResultPath(i) # ResultPath(cursor) /\ ReportPath(i) # ResultPath(cursor)
        BY <1>2, <1>5, <2>1, <2>5, <4>1, FileNames
      <4> QED
        BY <1>1, <1>6, <2>2, <2>5, <3>2, <4>1 DEF DiskInv, FilesThere, Holds, Exists
    <3> QED
      BY <2>1, <3>1, <3>2
  <2>6. ASSUME DirsDiffer PROVE ReportsAfter'
    <3>1. ASSUME NEW i \in Positions, ReportPath(i) \in DOMAIN disk'
          PROVE  i < cursor' /\ ResultPath(i) \in DOMAIN disk'
      <4>1. ReportPath(i) \in DOMAIN disk
        BY <2>3, <3>1, FileNames
      <4>2. i < cursor /\ ResultPath(i) \in DOMAIN disk
        BY <2>6, <4>1 DEF DiskInv, ReportsAfter, Exists
      <4>3. ResultPath(i) # ResultPath(cursor)
        BY <1>2, <1>5, <2>1, <2>6, <4>2
      <4> QED
        BY <1>2, <2>1, <2>3, <4>2, <4>3
    <3> QED
      BY <1>1, <1>6, <3>1 DEF ReportsAfter, Exists
  <2>7. Exists(LatestPath)' => cursor' > Len(plan')
    BY <1>1, <1>2, <1>6, <2>1, <2>3, FileNames DEF DiskInv, Exists
  <2>8. phase' = "report" =>
          cursor' \in Positions /\ outcomes'[cursor'].ok /\ Holds(ResultPath(cursor), cursor)'
    <3>1. SUFFICES ASSUME phase' = "report"
                   PROVE  cursor' \in Positions /\ outcomes'[cursor'].ok /\ Holds(ResultPath(cursor), cursor)'
      OBVIOUS
    <3>2. Write(ResultPath(cursor), <<cursor>>) /\ UNCHANGED cursor
      BY <2>1, <3>1
    <3>3. ResultPath(cursor)' = ResultPath(cursor)
      BY <1>1, <3>2 DEF ResultPath
    <3> QED
      BY <1>1, <2>1, <3>2, <3>3, Written DEF Holds, Exists
  <2> QED
    BY <1>1, <1>2, <1>4, <1>6, <2>4, <2>5, <2>6, <2>7, <2>8 DEF DiskInv
<1>11. CASE WriteReport
  <2>1. /\ phase = "report" /\ cursor \in Positions /\ outcomes[cursor].ok
        /\ Holds(ResultPath(cursor), cursor)
        /\ phase' = "result" /\ cursor' = cursor + 1
        /\ \/ Write(ReportPath(cursor), <<cursor>>) /\ UNCHANGED refused
           \/ WriteFails(ReportPath(cursor)) /\ refused' = TRUE
    BY <1>11, TheCursor DEF WriteReport, Goto, Keep, DiskInv
  <2>2. \A q \in DOMAIN disk : q # ReportPath(cursor) => q \in DOMAIN disk' /\ disk'[q] = disk[q]
    BY <2>1, Written, NotWritten
  <2>3. \A q : q # ReportPath(cursor) => (q \in DOMAIN disk' <=> q \in DOMAIN disk)
    BY <2>1, Written, NotWritten
  <2>4. DirsDiffer => ArtifactsThere'
    BY <1>7, <2>1, FileNames
  <2>5. ASSUME DirsDiffer PROVE FilesThere'
    <3>1. CASE refused' = TRUE
      BY <1>1, <3>1 DEF FilesThere
    <3>2. CASE Write(ReportPath(cursor), <<cursor>>) /\ UNCHANGED refused
      <4>1. ASSUME NEW i \in Positions, i < cursor', outcomes[i].ok
            PROVE  \/ refused
                   \/ /\ ResultPath(i) \in DOMAIN disk' /\ disk'[ResultPath(i)] = <<i>>
                      /\ ReportPath(i) \in DOMAIN disk' /\ disk'[ReportPath(i)] = <<i>>
        <5>1. CASE i = cursor
          BY <2>1, <2>2, <3>2, <5>1, Written, FileNames DEF Holds, Exists
        <5>2. CASE i < cursor
          <6>1. refused \/ (Holds(ResultPath(i), i) /\ Holds(ReportPath(i), i))
            BY <2>5, <4>1, <5>2 DEF DiskInv, FilesThere
          <6>2. ResultPath(i) # ReportPath(cursor) /\ ReportPath(i) # ReportPath(cursor)
            BY <1>2, <1>5, <2>1, <2>5, <5>2, FileNames
          <6> QED
            BY <2>2, <6>1, <6>2 DEF Holds, Exists
        <5> QED
          BY <1>2, <2>1, <4>1, <5>1, <5>2
      <4> QED
        BY <1>1, <1>6, <3>2, <4>1 DEF FilesThere, Holds, Exists
    <3> QED
      BY <2>1, <3>1, <3>2
  <2>6. ASSUME DirsDiffer PROVE ReportsAfter'
    <3>1. ASSUME NEW i \in Positions, ReportPath(i) \in DOMAIN disk'
          PROVE  i < cursor' /\ ResultPath(i) \in DOMAIN disk'
      <4>1. CASE i = cursor
        BY <1>2, <2>1, <2>3, <4>1, FileNames DEF Holds, Exists
      <4>2. CASE i # cursor
        <5>1. ReportPath(i) \in DOMAIN disk
          BY <1>5, <2>1, <2>3, <2>6, <3>1, <4>2
        <5>2. i < cursor /\ ResultPath(i) \in DOMAIN disk
          BY <2>6, <5>1 DEF DiskInv, ReportsAfter, Exists
        <5> QED
          BY <1>2, <2>1, <2>3, <5>2, FileNames
      <4> QED
        BY <4>1, <4>2
    <3> QED
      BY <1>1, <1>6, <3>1 DEF ReportsAfter, Exists
  <2>7. Exists(LatestPath)' => cursor' > Len(plan')
    BY <1>1, <1>2, <1>6, <2>1, <2>3, FileNames DEF DiskInv, Exists
  <2> QED
    BY <1>4, <1>6, <2>1, <2>4, <2>5, <2>6, <2>7 DEF DiskInv
<1>12. CASE WriteLatest \/ WriteJUnit
  <2>1. PICK path \in {LatestPath, JUnitPath} : Write(path, kept) \/ WriteFails(path)
    BY <1>12 DEF WriteLatest, WriteJUnit
  <2>2. /\ phase' \in {"junit", "finish"} /\ UNCHANGED <<cursor, refused>> /\ cursor > Len(plan)
    BY <1>2, <1>12 DEF WriteLatest, WriteJUnit, Goto, Counted
  <2>3. \A q \in DOMAIN disk : q # path => q \in DOMAIN disk' /\ disk'[q] = disk[q]
    BY <2>1, Written, NotWritten
  <2>4. \A q : q # path => (q \in DOMAIN disk' <=> q \in DOMAIN disk)
    BY <2>1, Written, NotWritten
  <2>5. DirsDiffer => ArtifactsThere'
    BY <1>7, <2>1, FileNames
  <2>6. \A i : ResultPath(i) # path /\ ReportPath(i) # path
    BY FileNames
  <2>7. DirsDiffer => FilesThere' /\ ReportsAfter'
    BY <1>1, <1>6, <2>2, <2>3, <2>4, <2>6
       DEF DiskInv, FilesThere, ReportsAfter, Holds, Exists
  <2> QED
    BY <1>1, <1>4, <1>6, <2>2, <2>5, <2>7 DEF DiskInv
<1> QED
  BY <1>8, <1>9, <1>10, <1>11, <1>12 DEF CallerWrites

\* No step takes from the disk what it has to bear out.
LEMMA DiskStep ==
  ASSUME Inv, [Next]_vars
  PROVE  DiskInv'
<1>1. CASE Select
  <2>1. /\ outcomes' = [i \in 1..Len(plan') |-> Pending] /\ dir' = [i \in 1..Len(plan') |-> Unnamed]
        /\ DOMAIN disk' = {} /\ phase' = "run" /\ cursor' = 1
    BY <1>1, Submitted DEF Inv, Begun
  <2>2. \A i \in Positions' : ~Answered(i)' /\ ~(i < cursor')
    BY <2>1 DEF Answered
  <2> QED
    BY <2>1, <2>2 DEF DiskInv, ArtifactsThere, FilesThere, ReportsAfter, Exists
<1>2. CASE NothingToRun \/ JoinThread \/ PanicSpreads \/ Collect \/ UNCHANGED vars
  <2>1. /\ UNCHANGED <<plan, outcomes, dir, disk, cursor, refused>>
        /\ UNCHANGED phase \/ phase' # "report"
    BY <1>2 DEF NothingToRun, JoinThread, Join, PanicSpreads, Collect, Goto, End, vars,
       plannerVars, storeVars, batchVars
  <2>2. /\ \A i : ResultPath(i)' = ResultPath(i) /\ ReportPath(i)' = ReportPath(i)
        /\ LatestPath' = LatestPath /\ (DirsDiffer' <=> DirsDiffer)
        /\ \A path : (Exists(path))' <=> Exists(path)
    BY <2>1 DEF ResultPath, ReportPath, LatestPath, DirsDiffer, Exists
  <2>3. ArtifactsThere' <=> ArtifactsThere
    BY <2>1 DEF ArtifactsThere, Holds, Exists, Answered
  <2>4. (FilesThere' <=> FilesThere) /\ (ReportsAfter' <=> ReportsAfter)
    BY <2>1, <2>2 DEF FilesThere, ReportsAfter, Holds, Exists
  <2>5. UNCHANGED phase =>
          (Holds(ResultPath(cursor), cursor)' <=> Holds(ResultPath(cursor), cursor))
    BY <2>1 DEF Holds, Exists, ResultPath
  <2>6. (\A i \in Positions : Answered(i) => dir[i] # Unnamed)'
    BY <2>1 DEF Inv, DiskInv, Answered
  <2>7. Exists(LatestPath)' => cursor' > Len(plan')
    BY <2>1, <2>2 DEF Inv, DiskInv, Exists
  <2>8. phase' = "report" =>
          cursor' <= Len(plan') /\ outcomes'[cursor'].ok /\ Holds(ResultPath(cursor), cursor)'
    BY <2>1, <2>5 DEF Inv, DiskInv
  <2> QED
    BY <2>2, <2>3, <2>4, <2>6, <2>7, <2>8 DEF Inv, DiskInv
<1> QED
  BY <1>1, <1>2, WorkersKeepDisk, CallerKeepsDisk DEF Next, CallerStep, WorkerStep, CallerWrites

\* The invariant holds before anything is planned.
LEMMA InvInit ==
  ASSUME Init
  PROVE  Inv
<1>1. /\ plan = <<>> /\ workers = 1 /\ outcomes = <<>> /\ lost = {} /\ joined = 0 /\ results = <<>>
      /\ DOMAIN disk = {} /\ dir = <<>>
      /\ phase = "load" /\ cursor = 1 /\ kept = <<>> /\ refused = FALSE /\ exit = NoExit
  BY DEF Init, PlannerInit, StoreInit
<1>2. Threads = {} /\ ChunkEnd(0) = 0 /\ Len(plan) = 0
  BY <1>1 DEF Threads, ChunkEnd, ChunkSize
<1>3. PlannerInv
  BY <1>1, <1>2, PlannerAssumption DEF PlannerInv, Planned
<1>4. AtTheirTurn /\ Begun /\ Collected
  BY <1>1, <1>2 DEF AtTheirTurn, Begun, Collected
<1>5. BatchTypes
  <2>1. dir \in [Positions -> Dirs \cup {Unnamed}]
    BY <1>1, <1>2
  <2>2. kept \in Seq(Positions)
    BY <1>1
  <2> QED
    BY <1>1, <2>1, <2>2 DEF BatchTypes
<1>6. Counted
  BY <1>1, <1>2 DEF Counted, NoExit, SUCCESS
<1>7. DiskInv
  BY <1>1, <1>2 DEF DiskInv, ArtifactsThere, FilesThere, ReportsAfter, Exists
<1> QED
  BY <1>3, <1>4, <1>5, <1>6, <1>7 DEF Inv

\* The invariant holds in every state of `termproof run`.
THEOREM InvHolds == Spec => []Inv
<1>1. Init => Inv
  BY InvInit
<1>2. Inv /\ [Next]_vars => Inv'
  BY PlannerStep, TurnsStep, TypesStep, BegunStep, CollectedStep, CountedStep, DiskStep DEF Inv
<1> QED
  BY <1>1, <1>2, PTL DEF Spec

\* From the invariant: to succeed is to have looked at every result and refused none.
LEMMA InvBearsOut ==
  ASSUME Inv
  PROVE  DiskBearsOut
<1> USE DEF Inv
<1>1. SuccessIsEvidence
  <2>1. SUFFICES ASSUME phase = "done", exit = SUCCESS
                 PROVE  /\ plan # <<>>
                        /\ \A i \in Positions : outcomes[i].ok /\ outcomes[i].passed
                        /\ DirsDiffer => \A i \in Positions :
                             \A path \in {ResultPath(i), ReportPath(i)}
                                            \cup {Path(dir[i], a) : a \in outcomes[i].artifacts} :
                               Exists(path) /\ disk[path] = <<i>>
    BY DEF SuccessIsEvidence
  <2>2. /\ plan # <<>> /\ cursor > Len(plan) /\ ~refused
        /\ \A k \in 1..Len(kept) : outcomes[kept[k]].passed
    BY <2>1 DEF Counted
  <2>3. Len(plan) \in Nat /\ cursor \in Nat
    BY Joined
  <2>4. \A i \in Positions : i < cursor
    BY <2>2, <2>3
  <2>5. \A i \in Positions : outcomes[i].ok /\ outcomes[i].passed
    BY <2>2, <2>4 DEF Counted
  <2>6. plan \in Seq(Items)
    BY DEF PlannerInv, Planned
  <2>7. cursor > 1
    BY <2>2, <2>3, <2>6
  <2>8. \A i \in Positions : Answered(i)
    BY <2>7, Joined
  <2>9. DirsDiffer => ArtifactsThere /\ FilesThere
    BY DEF DiskInv
  <2> QED
    BY <2>2, <2>4, <2>5, <2>8, <2>9 DEF ArtifactsThere, FilesThere, Holds
<1>2. ReportsHaveResults
  <2>1. SUFFICES ASSUME DirsDiffer
                 PROVE  /\ \A i \in Positions : Exists(ReportPath(i)) => Exists(ResultPath(i))
                        /\ Exists(LatestPath) => \A i \in Positions :
                             outcomes[i].ok => Exists(ResultPath(i)) \/ refused
    BY DEF ReportsHaveResults
  <2>2. FilesThere /\ ReportsAfter /\ (Exists(LatestPath) => cursor > Len(plan))
    BY <2>1 DEF DiskInv
  <2>3. Len(plan) \in Nat /\ cursor \in Nat
    BY Joined
  <2> QED
    BY <2>2, <2>3 DEF FilesThere, ReportsAfter, Holds
<1> QED
  BY <1>1, <1>2 DEF DiskBearsOut

\* What a command leaves on the disk bears out what it says, in every state, for any recipes,
\* renderers and workers: DiskBearsOut, about execute of run.rs and write_result_files.
THEOREM DiskAlwaysBearsOut == Spec => []DiskBearsOut
BY InvHolds, InvBearsOut, PTL

\* run_parallel never runs more items at once than there are workers, although it makes a
\* thread per chunk: AtMostWorkers.
THEOREM NeverTooMany == Spec => []AtMostWorkers
BY InvHolds, OneEach, PTL

\* The ranges, from the invariant.
LEMMA Types ==
  ASSUME Inv
  PROVE  TypeOK
<1> USE DEF Inv
<1>1. Len(plan) \in Nat
  BY Joined
<1>2. ChunkEnd(joined) \in 0..Len(plan)
  <2>1. CASE joined = 0 /\ plan = <<>>
    BY <2>1 DEF ChunkEnd, ChunkSize
  <2>2. CASE joined = 0 /\ plan # <<>>
    BY <1>1, <2>2, ThreadNumbers DEF PlannerInv
  <2>3. CASE joined \in Threads
    BY <1>1, <2>3, ChunkBounds DEF PlannerInv
  <2> QED
    BY <2>1, <2>2, <2>3 DEF PlannerInv
<1>3. results \in Seq(Outcomes) /\ Len(results) <= Len(plan)
  <2>1. \A i \in 1..ChunkEnd(joined) : outcomes[i] \in Outcomes
    BY <1>1, <1>2 DEF PlannerInv, Answered
  <2> QED
    BY <1>1, <1>2, <2>1 DEF PlannerInv
<1> QED
  BY <1>3 DEF TypeOK, PlannerInv, Planned, Items, BatchTypes, Counted

\* Every variable stays in its range, and what was joined is part of the plan: TypeOK.
THEOREM TypeCorrect == Spec => []TypeOK
BY InvHolds, Types, PTL

\* The plan is in the order of the names, then of the renderers.
PlanIsSorted == \A i, j \in Positions : i < j => Before(plan[i], plan[j])

\* The plan is sorted from when plan_items makes it, and no schedule disturbs it.
THEOREM PlanAlwaysSorted == Spec => []PlanIsSorted
<1>1. Init => PlanIsSorted
  BY DEF Init, PlannerInit, PlanIsSorted
<1>2. Inv /\ PlanIsSorted /\ [Next]_vars => PlanIsSorted'
  <2> SUFFICES ASSUME Inv, PlanIsSorted, [Next]_vars
               PROVE  PlanIsSorted'
    OBVIOUS
  <2>1. CASE Select
    <3>1. \A i, j \in 1..Len(plan') : i < j => Before(plan'[i], plan'[j])
      BY <2>1, Submitted
    <3> QED
      BY <3>1 DEF PlanIsSorted, Before
  <2>2. CASE UNCHANGED plan
    BY <2>2 DEF PlanIsSorted, Before
  <2> QED
    BY <2>1, <2>2 DEF Next, vars, CallerStep, NothingToRun, JoinThread, Join, PanicSpreads, Collect,
       CountRefused, WriteResult, WriteReport, WriteLatest, WriteJUnit, Finish, WorkerStep,
       ThreadStep, NameRun, RunRefused, RunReturns, RunPanics, Answer, Panic, plannerVars
<1> QED
  BY <1>1, <1>2, InvHolds, PTL DEF Spec

-----------------------------------------------------------------------------
\* Before the plan there is nothing to answer.
LEMMA MapInit ==
  ASSUME Init
  PROVE  Map!Init
BY DEF Init, PlannerInit, Map!Init

\* Each step submits, answers or returns, or the map does not see it: only the last join returns.
LEMMA MapStep ==
  ASSUME Inv, [Next]_vars
  PROVE  [Map!Next]_Map!vars
<1> USE DEF Inv
<1>1. CASE Select
  <2>1. /\ plan = <<>> /\ plan' # <<>> /\ Len(plan') \in Nat \ {0} /\ workers' \in 1..MaxWorkers
        /\ outcomes = <<>> /\ results = <<>> /\ joined' = 0 /\ results' = <<>>
        /\ outcomes' = [i \in 1..Len(plan') |-> Pending]
    BY <1>1, Submitted
  <2>2. outcomes' \in Seq({Pending}) /\ outcomes' # <<>>
    BY <2>1
  <2> QED
    BY <2>1, <2>2 DEF Map!Next, Map!Submit
<1>2. ASSUME UNCHANGED <<plan, workers, outcomes, joined, results>>
      PROVE  UNCHANGED Map!vars
  BY <1>2, SameChunks DEF Map!vars, AllJoined
<1>3. ASSUME NEW w \in Threads, NEW i \in DOMAIN plan, NEW outcome \in Outcomes,
             Turn(w, i), Answer(i, outcome)
      PROVE  Map!Answer
  <2>1. /\ UNCHANGED <<plan, workers, joined, results>>
        /\ outcomes' = [outcomes EXCEPT ![i] = outcome]
    BY <1>3 DEF Answer
  <2>2. i \in DOMAIN outcomes /\ outcomes[i] = Pending
    BY <1>3, Answers DEF PlannerInv
  <2>3. outcomes'[i] = outcome /\ outcome # Pending
    BY <2>1, <2>2, PendingAssumption
  <2>4. AllJoined' <=> AllJoined
    BY <2>1, SameChunks DEF AllJoined
  <2> QED
    BY <2>1, <2>2, <2>3, <2>4 DEF Map!Answer
<1>4. CASE JoinThread
  <2>1. /\ joined + 1 \in Threads /\ joined' = joined + 1 /\ UNCHANGED <<plan, workers, outcomes>>
    BY <1>4 DEF JoinThread, Join
  <2>2. Threads' = Threads /\ ~AllJoined /\ plan # <<>>
    BY <2>1, SameChunks, ChunkBounds DEF AllJoined, PlannerInv
  <2>3. CASE ~AllJoined'
    BY <2>1, <2>2, <2>3 DEF Map!vars
  <2>4. CASE AllJoined'
    <3>1. PlannerInv'
      BY PlannerStep
    <3> DEFINE t == CeilDiv(Len(plan), ChunkSize)
    <3>2. Threads = 1..t /\ t \in Threads /\ ChunkEnd(t) = Len(plan) /\ t \in Nat
      BY <2>2, ChunkSizes, ThreadNumbers, PlannerAssumption DEF PlannerInv, Planned
    <3> HIDE DEF t
    <3>3. joined' = t
      BY <2>1, <2>2, <2>4, <3>2 DEF AllJoined
    <3>4. (ChunkEnd(joined))' = ChunkEnd(t)
      <4>1. (ChunkEnd(joined))' = ChunkEnd(joined')
        BY <2>1 DEF ChunkEnd, ChunkSize
      <4> QED
        BY <3>3, <4>1
    <3>5. results' = outcomes /\ \A i \in Positions : outcomes[i] # Pending
      BY <2>1, <3>1, <3>2, <3>4 DEF PlannerInv, Answered
    <3>6. DOMAIN outcomes = Positions /\ outcomes # <<>>
      BY <2>2 DEF PlannerInv, Planned
    <3> QED
      BY <2>1, <2>2, <2>4, <3>5, <3>6 DEF Map!Next, Map!Return
  <2> QED
    BY <2>3, <2>4
<1>5. CASE CallerStep /\ ~Select /\ ~JoinThread
  BY <1>2, <1>5 DEF CallerStep, NothingToRun, PanicSpreads, Collect, CountRefused,
     WriteResult, WriteReport, WriteLatest, WriteJUnit, Finish, plannerVars
<1>6. CASE WorkerStep
  <2>1. PICK w \in Threads, i \in DOMAIN plan : ThreadStep(w, i)
    BY <1>6 DEF WorkerStep
  <2>2. Refusal \in Outcomes /\ \A p \in BOOLEAN, a \in SUBSET Artifacts : Result(p, a) \in Outcomes
    BY DEF Outcomes
  <2>3. CASE NameRun(w, i) \/ RunPanics(w, i)
    BY <1>2, <2>3 DEF NameRun, RunPanics, Panic, plannerVars
  <2>4. CASE RunRefused(w, i) \/ RunReturns(w, i)
    BY <1>3, <2>2, <2>4 DEF RunRefused, RunReturns, Map!Next
  <2> QED
    BY <2>1, <2>3, <2>4 DEF ThreadStep
<1>7. CASE UNCHANGED vars
  BY <1>2, <1>7 DEF vars, plannerVars
<1> QED
  BY <1>1, <1>4, <1>5, <1>6, <1>7 DEF Next

\* run_parallel implements the ordered map: each item is answered once, and the answers come
\* back all together in the order of the plan, whatever the schedule and whoever panics.
THEOREM RunsImplementOrderedMap == Spec => ImplementsOrderedMap
<1>1. Init => Map!Init
  BY MapInit
<1>2. Inv /\ [Next]_vars => [Map!Next]_Map!vars
  BY MapStep
<1> QED
  BY <1>1, <1>2, InvHolds, PTL DEF Spec, ImplementsOrderedMap, Map!Spec

=============================================================================

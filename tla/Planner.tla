------------------------------- MODULE Planner -------------------------------
(***************************************************************************)
(* The planner of crates/termproof/src/planner.rs: the plan, and           *)
(* run_parallel, whose threads each take one chunk of it and whose caller  *)
(* joins them in the order of the chunks. What an item is answered with,   *)
(* and in which steps, is up to the module that extends this one.          *)
(***************************************************************************)
EXTENDS Naturals, Sequences, FiniteSets

CONSTANTS
  MaxWorkers,   \* bound on max_workers
  Pending       \* the place of an item that has not been answered

ASSUME PlannerAssumption == MaxWorkers \in Nat \ {0}

VARIABLES
  plan,       \* the items, in plan order
  workers,    \* max_workers
  outcomes,   \* what f returned, by position in the plan
  lost,       \* the threads that panicked
  joined,     \* how many handles have been joined
  results

plannerVars == <<plan, workers, outcomes, lost, joined, results>>

\* plan_items: the sort is stable, so files decide between equal names and renderers.
Before(a, b) ==
  \/ a.name < b.name
  \/ a.name = b.name /\ a.renderer < b.renderer
  \/ a.name = b.name /\ a.renderer = b.renderer /\ a.file < b.file

\* At each place the item that as many others come before as there are places before it.
PlanItems(items) ==
  [i \in 1..Cardinality(items) |->
     CHOOSE x \in items : Cardinality({y \in items : Before(y, x)}) = i - 1]

PlannerInit ==
  /\ plan = <<>> /\ workers = 1
  /\ outcomes = <<>> /\ lost = {} /\ joined = 0 /\ results = <<>>

RunParallel(items, max_workers) ==
  /\ plan' = items /\ workers' = max_workers
  /\ outcomes' = [i \in 1..Len(items) |-> Pending]
  /\ UNCHANGED <<lost, joined, results>>

-----------------------------------------------------------------------------
CeilDiv(a, b) == (a + b - 1) \div b

\* One chunk, on the caller's own thread, when there is nothing to share out.
ChunkSize ==
  IF workers <= 1 \/ Len(plan) <= 1 THEN Len(plan) ELSE CeilDiv(Len(plan), workers)

Threads == IF plan = <<>> THEN {} ELSE 1..CeilDiv(Len(plan), ChunkSize)

ChunkStart(w) == (w - 1) * ChunkSize + 1
ChunkEnd(w) == IF w * ChunkSize < Len(plan) THEN w * ChunkSize ELSE Len(plan)
Chunk(w) == ChunkStart(w)..ChunkEnd(w)

\* The thread is at this item of its chunk.
Turn(w, i) ==
  /\ w \in Threads \ lost
  /\ i \in Chunk(w)
  /\ outcomes[i] = Pending
  /\ \A j \in Chunk(w) : j < i => outcomes[j] # Pending

Finished(w) == w \in lost \/ \A i \in Chunk(w) : outcomes[i] # Pending

Answer(i, outcome) ==
  /\ outcomes' = [outcomes EXCEPT ![i] = outcome]
  /\ UNCHANGED <<plan, workers, lost, joined, results>>

Panic(w) ==
  /\ lost' = lost \cup {w}
  /\ UNCHANGED <<plan, workers, outcomes, joined, results>>

AllJoined == \A w \in Threads : w <= joined

\* Faulty: takes the chunks in the order in which they finish.
JoinAny ==
  /\ ~AllJoined
  /\ \E w \in Threads \ lost :
       /\ Finished(w)
       /\ results' = results \o SubSeq(outcomes, ChunkStart(w), ChunkEnd(w))
  /\ joined' = joined + 1
  /\ UNCHANGED <<plan, workers, outcomes, lost>>

Join ==
  /\ joined + 1 \in Threads \ lost
  /\ Finished(joined + 1)
  /\ results' = results \o SubSeq(outcomes, ChunkStart(joined + 1), ChunkEnd(joined + 1))
  /\ joined' = joined + 1
  /\ UNCHANGED <<plan, workers, outcomes, lost>>

\* Faulty: waits for the answers that a thread that panicked will never give.
UnwindsAnswered == joined + 1 \in lost /\ \A i \in DOMAIN plan : outcomes[i] # Pending

\* expect() on a thread that panicked; the scope first waits for all the others.
Unwinds == joined + 1 \in lost /\ \A w \in Threads : Finished(w)

=============================================================================

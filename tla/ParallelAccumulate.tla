------------------------ MODULE ParallelAccumulate ------------------------
(***************************************************************************)
(* parallel_accumulate: the range is cut into blocks, one for each new     *)
(* thread and the last for the calling one; the blocks' results are added  *)
(* after the joins.                                                        *)
(*                                                                         *)
(* A result stands for the positions of the elements added to it.  A block *)
(* is summed in a local variable and stored once, so a thread's work is    *)
(* one step; the elements themselves are never written.                    *)
(***************************************************************************)
EXTENDS Integers

CONSTANTS
  Lengths,        \* of the range
  Hardware,       \* what hardware_concurrency may return, 0 if unknown
  min_per_thread  \* 25

ASSUME AccumulateAssumption ==
  /\ Lengths \subseteq Nat
  /\ Hardware \subseteq Nat
  /\ min_per_thread \in Nat \ {0}

VARIABLES
  length, hardware_threads,
  block_start,  \* of the next block
  i,            \* the next thread to start, then to join
  threads,      \* threads[w]: "none", "running", "finished" or "joined"
  blocks,       \* blocks[w]: the positions a thread was started with
  results,      \* results[w]: the positions added
  total,        \* positions and the results they were added from
  pc

input == <<length, hardware_threads>>
vars == <<input, block_start, i, threads, blocks, results, total, pc>>

max_threads == (length + min_per_thread - 1) \div min_per_thread

Wanted == IF hardware_threads # 0 THEN hardware_threads ELSE 2

num_threads == IF Wanted < max_threads THEN Wanted ELSE max_threads

block_size == length \div num_threads

Worker == 0..(num_threads - 2)
Slot == 0..(num_threads - 1)
Positions == 0..(length - 1)

TypeOK ==
  /\ length \in Lengths
  /\ hardware_threads \in Hardware
  /\ pc \in {"spawn", "own", "join", "sum", "returned", "terminated"}
  /\ total \subseteq Positions \X Nat
  /\ length # 0 =>
       /\ block_start \in 0..length
       /\ i \in 0..(num_threads - 1)
       /\ threads \in [Worker -> {"none", "running", "finished", "joined"}]
       /\ blocks \in [Worker -> SUBSET Positions]
       /\ results \in [Slot -> SUBSET Positions]

Init ==
  /\ length \in Lengths
  /\ hardware_threads \in Hardware
  /\ block_start = 0
  /\ i = 0
  /\ threads = IF length = 0 THEN <<>> ELSE [w \in Worker |-> "none"]
  /\ blocks = IF length = 0 THEN <<>> ELSE [w \in Worker |-> {}]
  /\ results = IF length = 0 THEN <<>> ELSE [w \in Slot |-> {}]
  /\ total = {}
  /\ pc = IF length = 0 THEN "returned" ELSE "spawn"
-----------------------------------------------------------------------------
SpawnWith(size) ==
  /\ pc = "spawn"
  /\ i < num_threads - 1
  /\ blocks' = [blocks EXCEPT ![i] = block_start..(block_start + size - 1)]
  /\ threads' = [threads EXCEPT ![i] = "running"]
  /\ block_start' = block_start + size
  /\ i' = i + 1
  /\ UNCHANGED <<input, results, total, pc>>

\* Mutant: a block has one element too many.
SpawnRoundedUp == SpawnWith(block_size + 1)

Spawn == SpawnWith(block_size)

\* The constructor throws; the threads that were started are still joinable
\* when the vector is destroyed, or nobody catches.
SpawnThrows ==
  /\ pc = "spawn"
  /\ i < num_threads - 1
  /\ pc' = "terminated"
  /\ UNCHANGED <<input, block_start, i, threads, blocks, results, total>>

SpawnedAll ==
  /\ pc = "spawn"
  /\ i = num_threads - 1
  /\ pc' = "own"
  /\ i' = 0
  /\ UNCHANGED <<input, block_start, threads, blocks, results, total>>

Accumulate(w) ==
  /\ threads[w] = "running"
  /\ pc # "terminated"
  /\ results' = [results EXCEPT ![w] = @ \cup blocks[w]]
  /\ threads' = [threads EXCEPT ![w] = "finished"]
  /\ UNCHANGED <<input, block_start, i, blocks, total, pc>>

AddOwn(last) ==
  /\ pc = "own"
  /\ results' = [results EXCEPT ![num_threads - 1] =
                   @ \cup block_start..(last - 1)]
  /\ pc' = "join"
  /\ UNCHANGED <<input, block_start, i, threads, blocks, total>>

\* Mutant: the last block is as long as the others.
OwnBlockShort == AddOwn(block_start + block_size)

OwnBlock == AddOwn(length)

JoinStep(n) ==
  /\ pc = "join"
  /\ i < num_threads - 1
  /\ threads[i] = "finished"
  /\ threads' = [threads EXCEPT ![i] = "joined"]
  /\ i' = i + n
  /\ UNCHANGED <<input, block_start, blocks, results, total, pc>>

\* Mutant: the same thread is joined again.
JoinStays == JoinStep(0)

Join == JoinStep(1)

\* Mutant: the last thread is not joined.
JoinedAllButOne ==
  /\ pc = "join"
  /\ i + 2 >= num_threads
  /\ pc' = "sum"
  /\ UNCHANGED <<input, block_start, i, threads, blocks, results, total>>

JoinedAll ==
  /\ pc = "join"
  /\ i = num_threads - 1
  /\ pc' = "sum"
  /\ UNCHANGED <<input, block_start, i, threads, blocks, results, total>>

Sum ==
  /\ pc = "sum"
  /\ total' = {t \in Positions \X Slot : t[1] \in results[t[2]]}
  /\ pc' = "returned"
  /\ UNCHANGED <<input, block_start, i, threads, blocks, results>>

Caller == Spawn \/ SpawnThrows \/ SpawnedAll \/ OwnBlock \/ Join \/ JoinedAll \/ Sum

Next == Caller \/ (length # 0 /\ \E w \in Worker : Accumulate(w))

Spec == Init /\ [][Next]_vars

\* The caller and the started threads are scheduled.
FairSpec ==
  Spec /\ WF_vars(Caller) /\ WF_vars(length # 0 /\ \E w \in Worker : Accumulate(w))
-----------------------------------------------------------------------------
\* Every element of the range is in the sum exactly once, whatever the length,
\* the number of threads and their order.
EveryElementOnce ==
  pc = "returned" =>
    \A k \in Positions : \E w \in Slot :
      \A v \in Slot : <<k, v>> \in total <=> v = w

\* The result is returned when no thread is left that could still write to it
\* or that the vector would destroy unjoined.
NoThreadLeft ==
  pc = "returned" /\ length # 0 => \A w \in Worker : threads[w] = "joined"

\* No thread waits for ever.
Returns == <>(pc \in {"returned", "terminated"})
=============================================================================

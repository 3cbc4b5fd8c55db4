---------------------- MODULE ParallelAccumulateProofs ----------------------
(***************************************************************************)
(* Proofs about ParallelAccumulate for every length, number of threads and *)
(* minimum: each element is in the sum once, and no thread is left behind. *)
(***************************************************************************)
EXTENDS ParallelAccumulate, TLAPS

LEMMA DivisionProperties ==
  ASSUME NEW a \in Nat, NEW b \in Nat \ {0}
  PROVE  /\ a \div b \in Nat
         /\ b * (a \div b) <= a
         /\ a >= b => a \div b >= 1
OBVIOUS

LEMMA Multiples ==
  ASSUME NEW n \in Nat, NEW b \in Nat, NEW j \in Nat, j < n
  PROVE  (j + 1) * b = j * b + b /\ (j + 1) * b <= n * b
<1>1. \A m \in Nat : m * b \in Nat
  OBVIOUS
<1>2. PICK m \in Nat : n = j + 1 + m
  <2>1. n - (j + 1) \in Nat /\ n = j + 1 + (n - (j + 1))
    OBVIOUS
  <2> QED
    BY <2>1
<1>3. n * b = (j + 1) * b + m * b
  BY <1>2
<1>4. (j + 1) * b = j * b + b
  OBVIOUS
<1> QED
  BY <1>1, <1>3, <1>4

(* There is at least one thread, and the blocks fit into the range.        *)
LEMMA Blocks ==
  ASSUME length \in Lengths, hardware_threads \in Hardware, length # 0
  PROVE  /\ num_threads \in Nat \ {0}
         /\ block_size \in Nat
         /\ num_threads * block_size <= length
<1>1. length \in Nat \ {0} /\ min_per_thread \in Nat \ {0}
  BY AccumulateAssumption
<1>2. length + min_per_thread - 1 \in Nat
      /\ length + min_per_thread - 1 >= min_per_thread
  BY <1>1
<1>3. max_threads \in Nat \ {0}
  BY <1>1, <1>2, DivisionProperties DEF max_threads
<1>4. Wanted \in Nat \ {0}
  BY AccumulateAssumption DEF Wanted
<1>5. num_threads \in Nat \ {0}
  BY <1>3, <1>4 DEF num_threads
<1> QED
  BY <1>1, <1>5, DivisionProperties DEF block_size
-----------------------------------------------------------------------------
Spawning == pc \in {"spawn", "terminated"}

(* The blocks handed out cut the range up to block_start into pieces, each *)
(* as long as the others.                                                  *)
BlocksFit ==
  /\ Spawning => block_start = i * block_size
  /\ Spawning => \A w \in Worker : w >= i => threads[w] = "none"
  /\ \A w \in Worker : threads[w] = "none" => blocks[w] = {}
  /\ \A w \in Worker : \A k \in blocks[w] : k < block_start
  /\ \A w, v \in Worker : w # v => blocks[w] \cap blocks[v] = {}
  /\ \A k \in 0..(block_start - 1) : \E w \in Worker : k \in blocks[w]

(* A thread's result is its block once it is through.                      *)
ResultsFit ==
  /\ \A w \in Worker :
       results[w] = IF threads[w] \in {"finished", "joined"}
                    THEN blocks[w] ELSE {}
  /\ results[num_threads - 1] = IF pc \in {"join", "sum", "returned"}
                                THEN block_start..(length - 1) ELSE {}
  /\ pc = "own" => i = 0
  /\ pc = "join" => \A w \in Worker : w < i => threads[w] = "joined"
  /\ pc \in {"sum", "returned"} => \A w \in Worker : threads[w] = "joined"
  /\ pc = "returned" =>
       total = {t \in Positions \X Slot : t[1] \in results[t[2]]}

AccumulateInv ==
  /\ TypeOK
  /\ length = 0 => pc = "returned"
  /\ length # 0 => BlocksFit /\ ResultsFit

LEMMA AccumulateInvInit == Init => AccumulateInv
<1> SUFFICES ASSUME Init PROVE AccumulateInv
  OBVIOUS
<1>1. CASE length = 0
  BY <1>1 DEF Init, AccumulateInv, TypeOK
<1>2. CASE length # 0
  <2>1. /\ num_threads \in Nat \ {0} /\ block_size \in Nat
        /\ length \in Nat \ {0}
    BY <1>2, Blocks, AccumulateAssumption DEF Init
  <2>2. /\ pc = "spawn" /\ i = 0 /\ block_start = 0 /\ total = {}
        /\ threads = [w \in Worker |-> "none"]
        /\ blocks = [w \in Worker |-> {}]
        /\ results = [w \in Slot |-> {}]
    BY <1>2 DEF Init
  <2>3. TypeOK
    BY <1>2, <2>1, <2>2 DEF Init, TypeOK
  <2>4. Worker \subseteq Slot /\ num_threads - 1 \in Slot
    BY <2>1 DEF Worker, Slot
  <2>5. BlocksFit
    BY <2>1, <2>2 DEF BlocksFit, Spawning
  <2>6. ResultsFit
    BY <2>1, <2>2, <2>4 DEF ResultsFit
  <2> QED
    BY <1>2, <2>3, <2>5, <2>6 DEF AccumulateInv
<1> QED
  BY <1>1, <1>2

(* What every step leaves alone.                                           *)
LEMMA Shape ==
  ASSUME AccumulateInv, length # 0, UNCHANGED input
  PROVE  /\ num_threads' = num_threads /\ block_size' = block_size
         /\ length' = length /\ hardware_threads' = hardware_threads
         /\ Worker' = Worker /\ Slot' = Slot /\ Positions' = Positions
         /\ num_threads \in Nat \ {0}
         /\ block_size \in Nat
         /\ num_threads * block_size <= length
         /\ length \in Nat \ {0}
         /\ Worker = 0..(num_threads - 2)
         /\ Slot = 0..(num_threads - 1)
         /\ Worker \subseteq Slot
         /\ num_threads - 1 \in Slot \ Worker
         /\ Positions = 0..(length - 1)
<1>1. /\ length' = length /\ hardware_threads' = hardware_threads
  BY DEF input
<1>2. /\ num_threads \in Nat \ {0} /\ block_size \in Nat
      /\ num_threads * block_size <= length
      /\ length \in Nat \ {0}
  BY Blocks, AccumulateAssumption DEF AccumulateInv, TypeOK
<1>3. num_threads' = num_threads
  BY <1>1 DEF num_threads, max_threads, Wanted
<1> QED
  BY <1>1, <1>2, <1>3 DEF block_size, Worker, Slot, Positions

LEMMA SpawnInv == AccumulateInv /\ Spawn => AccumulateInv'
<1> SUFFICES ASSUME AccumulateInv, Spawn PROVE AccumulateInv'
  OBVIOUS
<1> DEFINE new == block_start..(block_start + block_size - 1)
<1>1. /\ pc = "spawn" /\ pc' = pc /\ i < num_threads - 1
      /\ blocks' = [blocks EXCEPT ![i] = new]
      /\ threads' = [threads EXCEPT ![i] = "running"]
      /\ block_start' = block_start + block_size
      /\ i' = i + 1
      /\ results' = results /\ total' = total
      /\ UNCHANGED input
  BY DEF Spawn, SpawnWith
<1>2. length # 0 /\ TypeOK /\ BlocksFit /\ ResultsFit
  BY <1>1 DEF AccumulateInv
<1>3. /\ i \in Nat /\ i \in Worker /\ block_start \in Nat
      /\ num_threads \in Nat \ {0} /\ block_size \in Nat
      /\ length \in Nat \ {0}
      /\ blocks \in [Worker -> SUBSET Positions]
      /\ threads \in [Worker -> {"none", "running", "finished", "joined"}]
      /\ \A w \in Worker : w \in Nat
      /\ Positions = 0..(length - 1)
  BY <1>1, <1>2, Shape DEF TypeOK
<1>4. /\ block_start = i * block_size
      /\ block_start + block_size = (i + 1) * block_size
      /\ block_start + block_size <= length
  <2>1. block_start = i * block_size
    BY <1>1, <1>2 DEF BlocksFit, Spawning
  <2>2. /\ (i + 1) * block_size = i * block_size + block_size
        /\ (i + 1) * block_size <= num_threads * block_size
    BY <1>1, <1>3, Multiples
  <2>3. num_threads * block_size <= length
    BY <1>1, <1>2, Shape
  <2>4. \A m \in Nat : i * block_size + block_size <= m /\ m <= length =>
          i * block_size + block_size <= length
    BY <1>3, <2>1
  <2>5. num_threads * block_size \in Nat
    BY <1>3
  <2> QED
    BY <2>1, <2>2, <2>3, <2>4, <2>5
<1>5. new \subseteq Positions
  BY <1>3, <1>4
<1>6. TypeOK'
  <2>1. block_start' \in 0..length
    BY <1>1, <1>3, <1>4
  <2>2. i' \in 0..(num_threads - 1)
    BY <1>1, <1>3
  <2> QED
    BY <1>1, <1>2, <1>3, <1>5, <2>1, <2>2, Shape DEF TypeOK
<1> HIDE DEF new
<1>7. BlocksFit'
  <2>1. /\ \A w \in Worker : w # i => blocks'[w] = blocks[w]
        /\ blocks'[i] = new
        /\ \A w \in Worker : w # i => threads'[w] = threads[w]
        /\ threads'[i] = "running"
    BY <1>1, <1>3
  <2>2. /\ \A k \in new : k \in Nat /\ k >= block_start
                           /\ k < block_start + block_size
        /\ \A k \in Nat : k >= block_start /\ k < block_start + block_size =>
             k \in new
    BY <1>3 DEF new
  <2>3. \A w \in Worker : w # i =>
          \A k \in blocks[w] : k < block_start /\ k \in Nat
    BY <1>2, <1>3 DEF BlocksFit
  <2>4. \A w \in Worker : \A k \in blocks'[w] : k < block_start'
    BY <1>1, <1>3, <2>1, <2>2, <2>3
  <2>5. \A w, v \in Worker : w # v => blocks'[w] \cap blocks'[v] = {}
    <3>1. \A w \in Worker : w # i => new \cap blocks[w] = {}
      BY <1>3, <2>2, <2>3
    <3>2. \A w, v \in Worker : w # v => blocks[w] \cap blocks[v] = {}
      BY <1>2 DEF BlocksFit
    <3> QED
      BY <2>1, <3>1, <3>2
  <2>6. \A k \in 0..(block_start' - 1) : \E w \in Worker : k \in blocks'[w]
    <3> TAKE k \in 0..(block_start' - 1)
    <3>1. CASE k < block_start
      <4>1. k \in 0..(block_start - 1)
        BY <1>3, <3>1
      <4>2. PICK w \in Worker : k \in blocks[w]
        BY <1>2, <4>1 DEF BlocksFit
      <4>3. w # i
        <5>1. threads[i] = "none"
          BY <1>1, <1>2, <1>3 DEF BlocksFit, Spawning
        <5> QED
          BY <1>2, <1>3, <4>2, <5>1 DEF BlocksFit
      <4> QED
        BY <2>1, <4>2, <4>3
    <3>2. CASE ~(k < block_start)
      BY <1>1, <1>3, <2>1, <2>2, <3>2
    <3> QED
      BY <3>1, <3>2
  <2>7. \A w \in Worker : w >= i' => threads'[w] = "none"
    BY <1>1, <1>2, <1>3, <2>1 DEF BlocksFit, Spawning
  <2>8. \A w \in Worker : threads'[w] = "none" => blocks'[w] = {}
    BY <1>2, <2>1 DEF BlocksFit
  <2>9. block_start' = i' * block_size
    BY <1>1, <1>4
  <2>10. Worker' = Worker /\ block_size' = block_size
    BY <1>1, <1>2, Shape
  <2> QED
    BY <2>4, <2>5, <2>6, <2>7, <2>8, <2>9, <2>10 DEF BlocksFit, Spawning
<1>8. ResultsFit'
  <2>1. \A w \in Worker : results[w] = IF threads'[w] \in {"finished", "joined"}
                                      THEN blocks'[w] ELSE {}
    <3>1. threads[i] = "none"
      BY <1>1, <1>2, <1>3 DEF BlocksFit, Spawning
    <3> QED
      BY <1>1, <1>2, <1>3, <3>1 DEF ResultsFit
  <2>2. num_threads' = num_threads /\ Worker' = Worker
    BY <1>1, <1>2, Shape
  <2> QED
    BY <1>1, <1>2, <2>1, <2>2 DEF ResultsFit
<1> QED
  BY <1>1, <1>2, <1>6, <1>7, <1>8, Shape DEF AccumulateInv

(* Steps that hand out no block.                                           *)
LEMMA BlocksKept ==
  ASSUME AccumulateInv, length # 0, UNCHANGED <<input, block_start, blocks>>,
         ~Spawning',
         \A w \in Worker : threads'[w] = "none" => threads[w] = "none"
  PROVE  BlocksFit'
<1>1. BlocksFit /\ Worker' = Worker /\ block_size' = block_size
  BY Shape DEF AccumulateInv
<1> QED
  BY <1>1 DEF BlocksFit

LEMMA SpawnThrowsInv == AccumulateInv /\ SpawnThrows => AccumulateInv'
<1> SUFFICES ASSUME AccumulateInv, SpawnThrows PROVE AccumulateInv'
  OBVIOUS
<1>1. length # 0
  BY DEF AccumulateInv, SpawnThrows
<1> QED
  BY <1>1, Shape
  DEF SpawnThrows, AccumulateInv, TypeOK, BlocksFit, ResultsFit, Spawning, input

LEMMA SpawnedAllInv == AccumulateInv /\ SpawnedAll => AccumulateInv'
<1> SUFFICES ASSUME AccumulateInv, SpawnedAll PROVE AccumulateInv'
  OBVIOUS
<1>1. length # 0 /\ pc = "spawn" /\ pc' = "own" /\ i' = 0
      /\ UNCHANGED <<input, block_start, threads, blocks, results, total>>
  BY DEF AccumulateInv, SpawnedAll
<1>2. BlocksFit'
  BY <1>1, BlocksKept DEF Spawning
<1> QED
  BY <1>1, <1>2, Shape DEF AccumulateInv, TypeOK, ResultsFit

LEMMA AccumulateStepInv ==
  ASSUME AccumulateInv, length # 0, NEW v \in Worker, Accumulate(v)
  PROVE  AccumulateInv'
<1>1. /\ threads[v] = "running" /\ pc # "terminated"
      /\ results' = [results EXCEPT ![v] = results[v] \cup blocks[v]]
      /\ threads' = [threads EXCEPT ![v] = "finished"]
      /\ UNCHANGED <<input, block_start, i, blocks, total, pc>>
  BY DEF Accumulate
<1>2. TypeOK /\ BlocksFit /\ ResultsFit
  BY DEF AccumulateInv
<1>3. /\ threads \in [Worker -> {"none", "running", "finished", "joined"}]
      /\ results \in [Slot -> SUBSET Positions]
      /\ blocks \in [Worker -> SUBSET Positions]
      /\ Worker \subseteq Slot /\ num_threads - 1 \notin Worker
  BY <1>1, <1>2, Shape DEF TypeOK
<1>4. /\ Worker' = Worker /\ Slot' = Slot /\ Positions' = Positions
      /\ num_threads' = num_threads /\ block_size' = block_size
      /\ length' = length /\ hardware_threads' = hardware_threads
  BY <1>1, Shape
<1>5. TypeOK'
  BY <1>1, <1>2, <1>3, <1>4 DEF TypeOK
<1>6. BlocksFit'
  BY <1>1, <1>2, <1>3, <1>4 DEF BlocksFit, Spawning
<1>7. pc \notin {"sum", "returned"}
  BY <1>1, <1>2 DEF ResultsFit
<1>8. /\ \A w \in Worker : w # v =>
           results'[w] = results[w] /\ threads'[w] = threads[w]
      /\ results'[v] = results[v] \cup blocks[v] /\ threads'[v] = "finished"
      /\ results'[num_threads - 1] = results[num_threads - 1]
      /\ results[v] = {}
  BY <1>1, <1>2, <1>3 DEF ResultsFit
<1>9. ResultsFit'
  BY <1>1, <1>2, <1>3, <1>4, <1>7, <1>8 DEF ResultsFit
<1> QED
  BY <1>4, <1>5, <1>6, <1>9 DEF AccumulateInv

LEMMA OwnBlockInv == AccumulateInv /\ OwnBlock => AccumulateInv'
<1> SUFFICES ASSUME AccumulateInv, OwnBlock PROVE AccumulateInv'
  OBVIOUS
<1> DEFINE own == block_start..(length - 1)
           last == num_threads - 1
<1>1. /\ length # 0 /\ pc = "own" /\ pc' = "join"
      /\ results' = [results EXCEPT ![last] = results[last] \cup own]
      /\ UNCHANGED <<input, block_start, i, threads, blocks, total>>
  BY DEF AccumulateInv, OwnBlock, AddOwn
<1>2. TypeOK /\ BlocksFit /\ ResultsFit
  BY <1>1 DEF AccumulateInv
<1>3. /\ Worker' = Worker /\ Slot' = Slot /\ Positions' = Positions
      /\ num_threads' = num_threads /\ block_size' = block_size
      /\ length' = length /\ hardware_threads' = hardware_threads
      /\ Worker \subseteq Slot /\ last \in Slot \ Worker
  BY <1>1, Shape
<1>4. own \subseteq Positions
  BY <1>1, <1>2, Shape DEF TypeOK
<1> HIDE DEF own
<1>5. TypeOK'
  BY <1>1, <1>2, <1>3, <1>4 DEF TypeOK
<1>6. BlocksFit'
  BY <1>1, BlocksKept DEF Spawning
<1>7. results \in [Slot -> SUBSET Positions] /\ results[last] = {}
  BY <1>1, <1>2 DEF TypeOK, ResultsFit
<1>8. /\ results'[last] = own
      /\ \A w \in Worker : results'[w] = results[w]
  BY <1>1, <1>3, <1>7
<1>9. results'[num_threads'- 1] = block_start'..(length' - 1)
  BY <1>1, <1>3, <1>8 DEF own
<1>10. \A w \in Worker : ~(w < i)
  <2>1. i = 0
    BY <1>1, <1>2 DEF ResultsFit
  <2> QED
    BY <2>1, <1>1, Shape
<1>11. ResultsFit'
  BY <1>1, <1>2, <1>3, <1>8, <1>9, <1>10 DEF ResultsFit
<1> QED
  BY <1>1, <1>3, <1>5, <1>6, <1>11 DEF AccumulateInv

LEMMA JoinInv == AccumulateInv /\ Join => AccumulateInv'
<1> SUFFICES ASSUME AccumulateInv, Join PROVE AccumulateInv'
  OBVIOUS
<1>1. /\ length # 0 /\ pc = "join" /\ pc' = pc /\ i < num_threads - 1
      /\ threads[i] = "finished"
      /\ threads' = [threads EXCEPT ![i] = "joined"]
      /\ i' = i + 1
      /\ UNCHANGED <<input, block_start, blocks, results, total>>
  BY DEF AccumulateInv, Join, JoinStep
<1>2. TypeOK /\ BlocksFit /\ ResultsFit
  BY <1>1 DEF AccumulateInv
<1>3. /\ Worker' = Worker /\ Slot' = Slot /\ Positions' = Positions
      /\ num_threads' = num_threads /\ length' = length
      /\ num_threads \in Nat \ {0} /\ Worker = 0..(num_threads - 2)
  BY <1>1, Shape
<1>4. /\ i \in Worker /\ i' \in 0..(num_threads - 1)
      /\ threads \in [Worker -> {"none", "running", "finished", "joined"}]
  BY <1>1, <1>2, <1>3 DEF TypeOK
<1>5. TypeOK'
  BY <1>1, <1>2, <1>3, <1>4, Shape DEF TypeOK
<1>6. /\ threads'[i] = "joined"
      /\ \A w \in Worker : w # i => threads'[w] = threads[w]
      /\ \A w \in Worker : w < i' => w < i \/ w = i
  BY <1>1, <1>3, <1>4
<1>7. BlocksFit'
  BY <1>1, <1>4, <1>6, BlocksKept DEF Spawning
<1>8. ResultsFit'
  BY <1>1, <1>2, <1>3, <1>6 DEF ResultsFit
<1> QED
  BY <1>1, <1>3, <1>5, <1>7, <1>8 DEF AccumulateInv

LEMMA JoinedAllInv == AccumulateInv /\ JoinedAll => AccumulateInv'
<1> SUFFICES ASSUME AccumulateInv, JoinedAll PROVE AccumulateInv'
  OBVIOUS
<1>1. /\ length # 0 /\ pc = "join" /\ pc' = "sum" /\ i = num_threads - 1
      /\ UNCHANGED <<input, block_start, i, threads, blocks, results, total>>
  BY DEF AccumulateInv, JoinedAll
<1>2. \A w \in Worker : w < i
  BY <1>1, Shape
<1>3. BlocksFit'
  BY <1>1, BlocksKept DEF Spawning
<1> QED
  BY <1>1, <1>2, <1>3, Shape DEF AccumulateInv, TypeOK, ResultsFit

LEMMA SumInv == AccumulateInv /\ Sum => AccumulateInv'
<1> SUFFICES ASSUME AccumulateInv, Sum PROVE AccumulateInv'
  OBVIOUS
<1>1. /\ length # 0 /\ pc = "sum" /\ pc' = "returned"
      /\ total' = {t \in Positions \X Slot : t[1] \in results[t[2]]}
      /\ UNCHANGED <<input, block_start, i, threads, blocks, results>>
  BY DEF AccumulateInv, Sum
<1>2. BlocksFit'
  BY <1>1, BlocksKept DEF Spawning
<1>3. Slot \subseteq Nat /\ Positions' = Positions /\ Slot' = Slot
  BY <1>1, Shape
<1>4. total' \subseteq Positions' \X Nat
  BY <1>1, <1>3
<1> QED
  BY <1>1, <1>2, <1>3, <1>4, Shape DEF AccumulateInv, TypeOK, ResultsFit

LEMMA StutterInv == AccumulateInv /\ UNCHANGED vars => AccumulateInv'
<1> SUFFICES ASSUME AccumulateInv, UNCHANGED vars PROVE AccumulateInv'
  OBVIOUS
<1>1. /\ UNCHANGED <<length, hardware_threads, block_start, i, threads, blocks>>
      /\ UNCHANGED <<results, total, pc>>
  BY DEF vars, input
<1>2. num_threads' = num_threads
  BY <1>1 DEF num_threads, max_threads, Wanted
<1>3. /\ Worker' = Worker /\ Slot' = Slot /\ Positions' = Positions
      /\ block_size' = block_size
  BY <1>1, <1>2 DEF Worker, Slot, Positions, block_size
<1> QED
  BY <1>1, <1>2, <1>3
  DEF AccumulateInv, TypeOK, BlocksFit, ResultsFit, Spawning

(* The strengthening that the theorems below follow from.                  *)
THEOREM Invariance == Spec => []AccumulateInv
<1>1. AccumulateInv /\ [Next]_vars => AccumulateInv'
  BY SpawnInv, SpawnThrowsInv, SpawnedAllInv, AccumulateStepInv, OwnBlockInv,
     JoinInv, JoinedAllInv, SumInv, StutterInv DEF Next, Caller
<1> QED
  BY <1>1, AccumulateInvInit, PTL DEF Spec
-----------------------------------------------------------------------------
(* An element before the last block is in one thread's block, one after    *)
(* it in the caller's.                                                     *)
LEMMA OnceImplied == AccumulateInv => EveryElementOnce
<1> SUFFICES ASSUME AccumulateInv, pc = "returned", NEW k \in Positions
             PROVE  \E w \in Slot : \A v \in Slot : <<k, v>> \in total <=> v = w
  BY DEF EveryElementOnce
<1>1. length # 0
  BY AccumulateAssumption DEF Positions, AccumulateInv
<1>2. /\ Worker = 0..(num_threads - 2) /\ Slot = 0..(num_threads - 1)
      /\ num_threads \in Nat \ {0} /\ Positions = 0..(length - 1)
      /\ length \in Nat \ {0}
  <2>1. num_threads \in Nat \ {0} /\ length \in Nat \ {0}
    BY <1>1, Blocks, AccumulateAssumption DEF AccumulateInv, TypeOK
  <2> QED
    BY <2>1 DEF Worker, Slot, Positions
<1>3. /\ TypeOK /\ BlocksFit /\ ResultsFit
      /\ block_start \in 0..length
  BY <1>1 DEF AccumulateInv, TypeOK
<1>4. \A v \in Slot : <<k, v>> \in total <=> k \in results[v]
  BY <1>3 DEF ResultsFit
<1>5. \A v \in Slot : v \in Worker \/ v = num_threads - 1
  BY <1>2
<1>6. \A v \in Worker : results[v] = blocks[v]
  BY <1>3 DEF ResultsFit
<1>7. results[num_threads - 1] = block_start..(length - 1)
  BY <1>3 DEF ResultsFit
<1>8. num_threads - 1 \in Slot \ Worker /\ Worker \subseteq Slot
  BY <1>2
<1>9. CASE k < block_start
  <2>1. k \in 0..(block_start - 1) /\ k \notin block_start..(length - 1)
    BY <1>2, <1>3, <1>9
  <2>2. PICK w \in Worker : k \in blocks[w]
    BY <1>3, <2>1 DEF BlocksFit
  <2>3. \A v \in Worker : k \in blocks[v] => v = w
    BY <1>3, <2>2 DEF BlocksFit
  <2>4. \A v \in Slot : k \in results[v] <=> v = w
    BY <1>5, <1>6, <1>7, <1>8, <2>1, <2>2, <2>3
  <2> QED
    BY <1>4, <1>8, <2>4
<1>10. CASE ~(k < block_start)
  <2>1. k \in block_start..(length - 1)
    BY <1>2, <1>3, <1>10
  <2>2. \A v \in Worker : k \notin blocks[v]
    BY <1>3, <1>10 DEF BlocksFit
  <2>3. \A v \in Slot : k \in results[v] <=> v = num_threads - 1
    BY <1>5, <1>6, <1>7, <1>8, <2>1, <2>2
  <2> QED
    BY <1>4, <1>8, <2>3
<1> QED
  BY <1>9, <1>10

(* Every element of every range is added exactly once.                     *)
THEOREM AddedOnce == Spec => []EveryElementOnce
BY OnceImplied, Invariance, PTL

(* No thread outlives the call.                                            *)
THEOREM AllJoined == Spec => []NoThreadLeft
<1>1. AccumulateInv => NoThreadLeft
  BY DEF AccumulateInv, ResultsFit, NoThreadLeft
<1> QED
  BY <1>1, Invariance, PTL

(* No block, result or counter leaves its range.                           *)
THEOREM TypeCorrect == Spec => []TypeOK
<1>1. AccumulateInv => TypeOK
  BY DEF AccumulateInv
<1> QED
  BY <1>1, Invariance, PTL
-----------------------------------------------------------------------------
(* Why the call returns.                                                   *)

\* The thread joined next was started and has not been joined before: join
\* neither throws nor waits for somebody who will never come.
NoVainWait ==
  pc = "join" /\ i < num_threads - 1 => threads[i] \in {"running", "finished"}

\* Who has been started and not yet joined, from the first block to the end.
InTurn ==
  /\ pc = "spawn" => \A w \in Worker : w < i => threads[w] # "none"
  /\ pc \in {"own", "join"} => \A w \in Worker : threads[w] # "none"
  /\ pc \in {"spawn", "own"} => \A w \in Worker : threads[w] # "joined"
  /\ pc = "join" => \A w \in Worker : w >= i => threads[w] # "joined"

LEMMA InTurnInit == Init => (length # 0 => InTurn)
<1> SUFFICES ASSUME Init, length # 0 PROVE InTurn
  OBVIOUS
<1>1. num_threads \in Nat \ {0}
  BY Blocks DEF Init
<1>2. pc = "spawn" /\ i = 0 /\ threads = [w \in Worker |-> "none"]
  BY DEF Init
<1> QED
  BY <1>1, <1>2 DEF InTurn, Worker

LEMMA InTurnStep ==
  ASSUME AccumulateInv, length # 0, InTurn, [Next]_vars
  PROVE  length' # 0 /\ InTurn'
<1>1. UNCHANGED input
  BY DEF Next, Caller, Spawn, SpawnWith, SpawnThrows, SpawnedAll, OwnBlock,
     AddOwn, Join, JoinStep, JoinedAll, Sum, Accumulate, vars
<1>2. /\ length' = length /\ num_threads' = num_threads /\ Worker' = Worker
      /\ Worker = 0..(num_threads - 2) /\ num_threads \in Nat \ {0}
  BY <1>1, Shape
<1>3. /\ threads \in [Worker -> {"none", "running", "finished", "joined"}]
      /\ i \in 0..(num_threads - 1)
  BY DEF AccumulateInv, TypeOK
<1>4. CASE Spawn
  <2>1. /\ pc = "spawn" /\ pc' = "spawn" /\ i' = i + 1 /\ i \in Worker
        /\ threads' = [threads EXCEPT ![i] = "running"]
    BY <1>2, <1>3, <1>4 DEF Spawn, SpawnWith
  <2>2. \A w \in Worker : w < i' => w < i \/ w = i
    BY <1>2, <1>3, <2>1
  <2>3. \A w \in Worker :
          threads'[w] = IF w = i THEN "running" ELSE threads[w]
    BY <1>3, <2>1
  <2> QED
    BY <1>2, <2>1, <2>2, <2>3 DEF InTurn
<1>5. CASE SpawnThrows \/ JoinedAll \/ Sum
  BY <1>2, <1>5 DEF SpawnThrows, JoinedAll, Sum, InTurn
<1>6. CASE SpawnedAll
  <2>1. \A w \in Worker : w < i
    BY <1>2, <1>6 DEF SpawnedAll
  <2> QED
    BY <1>2, <1>6, <2>1 DEF SpawnedAll, InTurn
<1>7. CASE OwnBlock
  BY <1>2, <1>7 DEF OwnBlock, AddOwn, InTurn
<1>8. CASE Join
  <2>1. /\ pc = "join" /\ pc' = "join" /\ i' = i + 1 /\ i \in Worker
        /\ threads' = [threads EXCEPT ![i] = "joined"]
    BY <1>2, <1>3, <1>8 DEF Join, JoinStep
  <2>2. \A w \in Worker : w >= i' => w >= i /\ w # i
    BY <1>2, <1>3, <2>1
  <2>3. \A w \in Worker :
          threads'[w] = IF w = i THEN "joined" ELSE threads[w]
    BY <1>3, <2>1
  <2> QED
    BY <1>2, <2>1, <2>2, <2>3 DEF InTurn
<1>9. ASSUME NEW v \in Worker, Accumulate(v) PROVE InTurn'
  <2>1. /\ threads[v] = "running" /\ UNCHANGED <<pc, i>>
        /\ \A w \in Worker :
             threads'[w] = IF w = v THEN "finished" ELSE threads[w]
    BY <1>3, <1>9 DEF Accumulate
  <2> QED
    BY <1>2, <2>1 DEF InTurn
<1>10. CASE UNCHANGED vars
  BY <1>2, <1>10 DEF vars, InTurn
<1> QED
  BY <1>2, <1>4, <1>5, <1>6, <1>7, <1>8, <1>9, <1>10 DEF Next, Caller

(* Every join is legal and is of a thread that is going to end.            *)
THEOREM JoinsInTurn == Spec => []NoVainWait
<1>1. ASSUME AccumulateInv, length # 0 => InTurn PROVE NoVainWait
  <2> SUFFICES ASSUME pc = "join", i < num_threads - 1
               PROVE  threads[i] \in {"running", "finished"}
    BY DEF NoVainWait
  <2>1. length # 0
    BY <1>1 DEF AccumulateInv
  <2>2. num_threads \in Nat \ {0}
    BY <1>1, <2>1, Blocks DEF AccumulateInv, TypeOK
  <2>3. i \in Worker /\ i >= i
    BY <1>1, <2>1, <2>2 DEF AccumulateInv, TypeOK, Worker
  <2> QED
    BY <1>1, <2>1, <2>3 DEF AccumulateInv, TypeOK, InTurn
<1>2. AccumulateInv /\ (length # 0 => InTurn) /\ [Next]_vars =>
        (length # 0 => InTurn)'
  <2>1. ASSUME AccumulateInv, length = 0, [Next]_vars PROVE length' = 0
    BY <2>1 DEF Next, Caller, Spawn, SpawnWith, SpawnThrows, SpawnedAll,
       OwnBlock, AddOwn, Join, JoinStep, JoinedAll, Sum, vars, input
  <2> QED
    BY <2>1, InTurnStep
<1> QED
  BY <1>1, <1>2, InTurnInit, Invariance, PTL DEF Spec

\* How far the caller ...
CallerLeft ==
  CASE pc = "spawn" -> 4
    [] pc = "own" -> 3
    [] pc = "join" -> 2
    [] pc = "sum" -> 1
    [] OTHER -> 0

\* ... and each thread are from their ends.
ThreadLeft(w) ==
  CASE threads[w] = "none" -> 3
    [] threads[w] = "running" -> 2
    [] threads[w] = "finished" -> 1
    [] OTHER -> 0

\* Every step brings the caller or a thread closer to its end and none
\* further from it.
Onward ==
  /\ CallerLeft' <= CallerLeft
  /\ \A w \in Worker : ThreadLeft(w)' <= ThreadLeft(w)
  /\ \/ CallerLeft' < CallerLeft
     \/ \E w \in Worker : ThreadLeft(w)' < ThreadLeft(w)

(* A call with n threads is over within 4 + 3 (n - 1) steps.               *)
THEOREM GoesOnward == Spec => [][Onward]_vars
<1>1. CallerLeft \in 0..4 /\ CallerLeft' \in 0..4
  BY DEF CallerLeft
<1>2. \A w \in Worker : ThreadLeft(w) \in 0..3 /\ ThreadLeft(w)' \in 0..3
  BY DEF ThreadLeft
<1>3. UNCHANGED pc => CallerLeft' = CallerLeft
  BY DEF CallerLeft
<1>4. \A w \in Worker :
        threads'[w] = threads[w] => ThreadLeft(w)' = ThreadLeft(w)
  BY DEF ThreadLeft
<1>5. ASSUME AccumulateInv, NEW v \in Worker, length # 0, UNCHANGED pc,
             \/ /\ threads[v] = "none"
                /\ threads' = [threads EXCEPT ![v] = "running"]
             \/ /\ threads[v] = "running"
                /\ threads' = [threads EXCEPT ![v] = "finished"]
             \/ /\ threads[v] = "finished"
                /\ threads' = [threads EXCEPT ![v] = "joined"]
      PROVE  Onward
  <2>1. /\ threads \in [Worker -> {"none", "running", "finished", "joined"}]
    BY <1>5 DEF AccumulateInv, TypeOK
  <2>2. ThreadLeft(v)' < ThreadLeft(v)
    BY <1>5, <2>1 DEF ThreadLeft
  <2>3. \A w \in Worker \ {v} : threads'[w] = threads[w]
    BY <1>5, <2>1
  <2>4. \A w \in Worker : ThreadLeft(w)' <= ThreadLeft(w)
    BY <1>2, <1>4, <2>2, <2>3
  <2> QED
    BY <1>1, <1>3, <1>5, <2>2, <2>4 DEF Onward
<1>6. ASSUME CallerLeft' < CallerLeft, UNCHANGED threads PROVE Onward
  BY <1>1, <1>2, <1>4, <1>6 DEF Onward
<1>7. ASSUME AccumulateInv, Spawn PROVE Onward
  <2>1. /\ length # 0 /\ BlocksFit /\ TypeOK
    BY <1>7 DEF AccumulateInv, Spawn, SpawnWith
  <2>2. num_threads \in Nat \ {0}
    BY <2>1, Blocks DEF TypeOK
  <2>3. i \in Worker /\ i >= i
    BY <1>7, <2>1, <2>2 DEF Spawn, SpawnWith, TypeOK, Worker
  <2>4. threads[i] = "none"
    BY <1>7, <2>1, <2>3 DEF BlocksFit, Spawning, Spawn, SpawnWith
  <2> QED
    BY <1>5, <1>7, <2>1, <2>3, <2>4 DEF Spawn, SpawnWith
<1>8. ASSUME AccumulateInv, Join PROVE Onward
  <2>1. length # 0 /\ TypeOK
    BY <1>8 DEF AccumulateInv, Join, JoinStep
  <2>2. num_threads \in Nat \ {0}
    BY <2>1, Blocks DEF TypeOK
  <2>3. i \in Worker
    BY <1>8, <2>1, <2>2 DEF Join, JoinStep, TypeOK, Worker
  <2> QED
    BY <1>5, <1>8, <2>1, <2>3 DEF Join, JoinStep
<1>9. ASSUME AccumulateInv, length # 0, NEW w \in Worker, Accumulate(w)
      PROVE  Onward
  BY <1>5, <1>9 DEF Accumulate
<1>10. ASSUME SpawnThrows \/ SpawnedAll \/ OwnBlock \/ JoinedAll \/ Sum
       PROVE  Onward
  <2>1. CallerLeft' < CallerLeft
    BY <1>10 DEF SpawnThrows, SpawnedAll, OwnBlock, AddOwn, JoinedAll, Sum,
       CallerLeft
  <2>2. UNCHANGED threads
    BY <1>10 DEF SpawnThrows, SpawnedAll, OwnBlock, AddOwn, JoinedAll, Sum
  <2> QED
    BY <1>6, <2>1, <2>2
<1>11. AccumulateInv /\ [Next]_vars => [Onward]_vars
  BY <1>7, <1>8, <1>9, <1>10 DEF Next, Caller
<1> QED
  BY <1>11, Invariance, PTL DEF Spec
=============================================================================

------------------------------ MODULE GpuBatch ------------------------------
(***************************************************************************)
(* One device's batches (the loop of GpuThread::run, gpu.cu): a chain of   *)
(* kernels on one stream that narrows 2^28 seeds down to a few candidates, *)
(* through two big buffers used in turn.                                   *)
(*                                                                         *)
(* A work item is one iteration of a kernel's grid-stride loop; the items  *)
(* of a kernel run in any order, and a kernel starts when the one before   *)
(* it has ended.  What the noise filters compute is left open: an item is  *)
(* accepted or rejected, and the history variable `rejected' remembers the *)
(* candidates that were rejected on the evidence of the right noise.       *)
(* Where a kernel reads and writes different buffers, nobody can see its   *)
(* reads, and one item is one step.  filter_2_0b reads and appends in one  *)
(* buffer, and the threads of a late initialisation compete for the flag   *)
(* of a seed: there an item is two steps.                                  *)
(***************************************************************************)
EXTENDS Integers, Sequences, FiniteSets

CONSTANTS
  BatchSeeds,   \* KernelFilterSeeds::threads_per_run
  MaxBatches,   \* bound: batches the thread runs
  Centers,      \* positions KernelFilterGradVecs1 tries per seed
  Tiles,        \* grid tiles KernelFilterGradVecs2 tries per input
  SeedCap,      \* KernelSeed1::threads_per_run, the entries of buffer_seeds
  Cap1, Cap2    \* SeedPos entries of buffer_1 and of buffer_2

NoTile == 0
NoSeed == -1
Undefined == -1

ASSUME CapAssumption ==
  /\ BatchSeeds \in Nat \ {0} /\ MaxBatches \in Nat
  /\ SeedCap \in Nat \ {0} /\ Cap1 \in Nat \ {0} /\ Cap2 \in Nat \ {0}
  /\ SeedCap <= BatchSeeds
  /\ NoTile \notin Tiles /\ Centers # {}

VARIABLES
  step,            \* kernel of the batch on the device, 0 between batches
  start_seed,      \* first seed of the batch
  buffer_seeds,    \* seed_index -> seed that passed KernelFilterSeeds
  results,         \* seed_index -> octave group -> seed it was computed for
  init_flags,      \* buffer_late_init_flags
  data,            \* contents of buffer_1 and buffer_2
  len,             \* device_buffer_lens
  todo,            \* work items of the kernel that have not read their input
  held,            \* inputs a warp of filter_2_0b has not decided on, or
                   \* whose thread won the flag and has not initialised yet
  pushed,          \* what the last batch pushed to GpuOutputs
  warned,          \* stages whose overflow the batch printed
  rejected,        \* history: candidates of the batch that some filter rejected
  verdicts,        \* history: the verdicts of the running filter, cell by cell
  clobbered        \* history: an input was overwritten before its warp had
                   \* read all of it

batchVars == <<start_seed, pushed, warned>>
noiseVars == <<buffer_seeds, results, init_flags>>
history == <<rejected, verdicts, clobbered>>
vars == <<step, batchVars, noiseVars, data, len, todo, held, history>>

-----------------------------------------------------------------------------
(***************************************************************************)
(* The chain of kernels.                                                   *)
(***************************************************************************)
Kernels ==
  <<"filter_seeds", "init_seeds", "filter_gradvecs_1", "filter_2_0a",
    "filter_gradvecs_2", "filter_2_0b", "init_seeds_late_1", "filter_2a",
    "init_seeds_late_2", "filter_2b", "init_seeds_late_3", "filter_2c",
    "init_seeds_late_4", "filter_2d">>
Last == Len(Kernels)
LateKernel(n) ==
  <<"init_seeds_late_1", "init_seeds_late_2", "init_seeds_late_3", "init_seeds_late_4">>[n]

\* Kernels that append to an OutputBuffer<SeedPos>, in the order of the chain.
Filters ==
  <<"filter_gradvecs_1", "filter_2_0a", "filter_gradvecs_2", "filter_2_0b",
    "filter_2a", "filter_2b", "filter_2c", "filter_2d">>
Stages == {Filters[n] : n \in 1..Len(Filters)} \cup {"filter_seeds"}

\* The stage whose outputs a filter or a late initialisation reads.
InputOf(k) ==
  CASE k = "filter_gradvecs_1" -> "filter_seeds"
    [] k = "init_seeds_late_1" -> "filter_2_0b"
    [] k = "init_seeds_late_2" -> "filter_2a"
    [] k = "init_seeds_late_3" -> "filter_2b"
    [] k = "init_seeds_late_4" -> "filter_2c"
    [] OTHER -> Filters[(CHOOSE n \in 1..Len(Filters) : Filters[n] = k) - 1]

\* Variant with one plausible slip: filter_2b writes where it reads.
MemorySlip(k) ==
  IF k \in {"filter_2_0a", "filter_2a", "filter_2b", "filter_2c"}
    THEN "buffer_1" ELSE "buffer_2"

\* The buffer a filter writes to.  filter_gradvecs_2 and filter_2_0b share one.
Memory(k) ==
  IF k \in {"filter_2_0a", "filter_2a", "filter_2c"} THEN "buffer_1" ELSE "buffer_2"

MaxLen(k) ==
  IF k = "filter_seeds" THEN SeedCap
  ELSE IF Memory(k) = "buffer_1" THEN Cap1 ELSE Cap2

\* The octaves (0A and 0B, 1A and 1B, ...) a filter samples, and the groups
\* they are initialised in: 0 by init_seeds, n by init_seeds_late_n.
Octaves(k) ==
  CASE k \in {"filter_gradvecs_1", "filter_gradvecs_2"} -> {0}
    [] k \in {"filter_2_0a", "filter_2_0b"} -> {0, 1}
    [] k = "filter_2a" -> 0..5
    [] k = "filter_2b" -> 0..6
    [] k = "filter_2c" -> 0..7
    [] k = "filter_2d" -> 0..8
Group(octave) ==
  IF octave <= 1 THEN 0 ELSE IF octave <= 5 THEN 1 ELSE octave - 4

-----------------------------------------------------------------------------
Kernel == Kernels[step]
Running(k) == 0 < step /\ step <= Last /\ Kernel = k

Seeds == 0..(MaxBatches * BatchSeeds - 1)
Cells == [seed_index : 0..(SeedCap - 1), center : Centers,
          tile : Tiles \cup {NoTile}]

\* The candidates a cell stands for: one, or before the grid of tiles is laid
\* around it, one for each tile.
Covers(cell) ==
  {buffer_seeds[cell.seed_index]} \X {cell.center} \X
    (IF cell.tile = NoTile THEN Tiles ELSE {cell.tile})

\* Entry i of the outputs of stage k.
Entry(k, i) == data[Memory(k)][i]

\* The iterations of kernel k.  The length it reads is not clamped.
Items(k) ==
  CASE k = "filter_seeds" -> (0..(BatchSeeds - 1)) \X {0}
    [] k = "filter_gradvecs_1" -> (0..(len["filter_seeds"] - 1)) \X Centers
    [] k = "filter_gradvecs_2" -> (0..(len["filter_2_0a"] - 1)) \X Tiles
    [] k = "init_seeds" -> {}
    [] OTHER -> (0..(len[InputOf(k)] - 1)) \X {0}

\* The stream goes on with the next kernel, or with the copy to the host.
Advance ==
  /\ step' = step + 1
  /\ todo' = IF step < Last THEN Items(Kernels[step + 1]) ELSE {}
  /\ verdicts' = {}

Init ==
  /\ step = 0 /\ start_seed = -BatchSeeds
  /\ buffer_seeds = [i \in 0..(SeedCap - 1) |-> NoSeed]
  /\ results = [i \in 0..(SeedCap - 1) |-> [g \in 0..4 |-> NoSeed]]
  /\ init_flags = [i \in 0..(SeedCap - 1) |-> 0]
  /\ data = [b \in {"buffer_1", "buffer_2"} |->
               [i \in 0..((IF b = "buffer_1" THEN Cap1 ELSE Cap2) - 1) |->
                  [seed_index |-> 0, center |-> CHOOSE c \in Centers : TRUE,
                   tile |-> NoTile]]]
  /\ len = [k \in Stages |-> 0]
  /\ todo = {} /\ held = {}
  /\ pushed = << >> /\ warned = {}
  /\ rejected = {} /\ verdicts = {} /\ clobbered = FALSE

-----------------------------------------------------------------------------
(***************************************************************************)
(* Faulty variants of the operations below, each with one plausible slip,  *)
(* to show that the properties can fail.  No specification uses them.      *)
(***************************************************************************)
\* The last of the lengths is not reset between batches.
ClaimKeepLast ==
  /\ step = 0 /\ start_seed + BatchSeeds \in Seeds
  /\ start_seed' = start_seed + BatchSeeds
  /\ step' = 1 /\ todo' = Items("filter_seeds")
  /\ len' = [k \in Stages |-> IF k = "filter_2d" THEN len[k] ELSE 0]
  /\ pushed' = << >> /\ warned' = {}
  /\ rejected' = {} /\ verdicts' = {} /\ clobbered' = FALSE
  /\ UNCHANGED <<noiseVars, data, held>>

\* The flags are not reset between batches.
FlagsNotReset == init_flags

\* The flag is tested and not raised in the same operation.
LateFlagNoSwap(n, i) ==
  LET from == InputOf(LateKernel(n))
      s == Entry(from, i).seed_index
  IN  /\ Running(LateKernel(n)) /\ <<i, 0>> \in todo /\ i < MaxLen(from)
      /\ todo' = todo \ {<<i, 0>>}
      /\ \/ /\ init_flags[s] = n - 1 /\ UNCHANGED init_flags
            /\ held' = held \cup
                 {[index |-> i, cell |-> Entry(from, i), torn |-> FALSE]}
         \/ init_flags[s] # n - 1 /\ UNCHANGED <<init_flags, held>>
      /\ UNCHANGED <<step, batchVars, buffer_seeds, results, data, len, history>>

\* The two coordinates of an output are swapped.
TileCellSwapped(cell, t) == [cell EXCEPT !.center = cell.tile, !.tile = t]

-----------------------------------------------------------------------------
(***************************************************************************)
(* The kernels.                                                            *)
(***************************************************************************)
\* input.next(), then the lengths are set to zero.
Claim ==
  /\ step = 0 /\ start_seed + BatchSeeds \in Seeds
  /\ start_seed' = start_seed + BatchSeeds
  /\ step' = 1 /\ todo' = Items("filter_seeds")
  /\ len' = [k \in Stages |-> 0]
  /\ pushed' = << >> /\ warned' = {}
  /\ rejected' = {} /\ verdicts' = {} /\ clobbered' = FALSE
  /\ UNCHANGED <<noiseVars, data, held>>

\* Before the first late initialisation all flags are set to zero.
Flags ==
  IF Kernel = "filter_2_0b" THEN [i \in 0..(SeedCap - 1) |-> 0] ELSE init_flags

KernelEnds ==
  /\ 0 < step /\ step <= Last /\ Kernel # "init_seeds"
  /\ todo = {} /\ held = {}
  /\ Advance
  /\ init_flags' = Flags
  /\ UNCHANGED <<batchVars, buffer_seeds, results, data, len, held, rejected,
                 clobbered>>

\* KernelFilterSeeds: one thread per seed.
FilterSeed(i) ==
  /\ Running("filter_seeds") /\ <<i, 0>> \in todo
  /\ todo' = todo \ {<<i, 0>>}
  /\ \/ /\ len' = [len EXCEPT !["filter_seeds"] = @ + 1]
        /\ buffer_seeds' = [n \in 0..(SeedCap - 1) |->
             IF n = len["filter_seeds"] THEN start_seed + i ELSE buffer_seeds[n]]
        /\ UNCHANGED rejected
     \/ /\ rejected' = rejected \cup ({start_seed + i} \X Centers \X Tiles)
        /\ UNCHANGED <<len, buffer_seeds>>
  /\ UNCHANGED <<step, batchVars, results, init_flags, data, held, verdicts, clobbered>>

\* KernelSeed1::kernel: the first octaves of every seed in the buffer; the
\* grid has one thread per entry of the buffer.
InitSeeds ==
  /\ Running("init_seeds")
  /\ results' = [i \in 0..(SeedCap - 1) |->
       IF i < len["filter_seeds"] THEN [results[i] EXCEPT ![0] = buffer_seeds[i]]
                                  ELSE results[i]]
  /\ Advance
  /\ UNCHANGED <<batchVars, buffer_seeds, init_flags, data, len, held, rejected,
                 clobbered>>

\* atomicAdd on the length; the cell is stored if there is room.
Output(k, cell) ==
  /\ len' = [len EXCEPT ![k] = @ + 1]
  /\ data' = [data EXCEPT ![Memory(k)] =
       [i \in DOMAIN @ |-> IF i = len[k] THEN cell ELSE @[i]]]

\* A filter's verdict on a cell, the same for every copy of it: the cell is
\* appended to the outputs or rejected.
Decide(k, cell) ==
  \/ /\ <<cell, FALSE>> \notin verdicts
     /\ verdicts' = verdicts \cup {<<cell, TRUE>>}
     /\ Output(k, cell) /\ UNCHANGED rejected
  \/ /\ <<cell, TRUE>> \notin verdicts
     /\ verdicts' = verdicts \cup {<<cell, FALSE>>}
     /\ rejected' = rejected \cup Covers(cell) /\ UNCHANGED <<len, data>>

\* KernelFilterGradVecs1: the block of seed i tries a position.
GradVecs1(i, c) ==
  /\ Running("filter_gradvecs_1") /\ <<i, c>> \in todo /\ i < SeedCap
  /\ todo' = todo \ {<<i, c>>}
  /\ Decide("filter_gradvecs_1", [seed_index |-> i, center |-> c, tile |-> NoTile])
  /\ UNCHANGED <<step, batchVars, noiseVars, held, clobbered>>

TileCell(cell, t) == [cell EXCEPT !.tile = t]

\* KernelFilterGradVecs2: the block of input i tries a tile.
GradVecs2(i, t) ==
  /\ Running("filter_gradvecs_2") /\ <<i, t>> \in todo /\ i < MaxLen("filter_2_0a")
  /\ todo' = todo \ {<<i, t>>}
  /\ Decide("filter_gradvecs_2", TileCell(Entry("filter_2_0a", i), t))
  /\ UNCHANGED <<step, batchVars, noiseVars, held, clobbered>>

\* KernelFilter2::Template: the block of input i counts its low samples.
Filter2(k, i) ==
  /\ Running(k) /\ <<i, 0>> \in todo /\ i < MaxLen(InputOf(k))
  /\ todo' = todo \ {<<i, 0>>}
  /\ Decide(k, Entry(InputOf(k), i))
  /\ UNCHANGED <<step, batchVars, noiseVars, held, clobbered>>

\* KernelFilter2_0A: the same with one warp per input.
Filter2_0A(i) == Filter2("filter_2_0a", i)

\* KernelFilter2_0B reads and writes buffer_2: a warp begins to read its
\* input ...
Filter2_0B_Read(i) ==
  /\ Running("filter_2_0b") /\ <<i, 0>> \in todo /\ i < MaxLen("filter_gradvecs_2")
  /\ todo' = todo \ {<<i, 0>>}
  /\ held' = held \cup
       {[index |-> i, cell |-> Entry("filter_gradvecs_2", i), torn |-> FALSE]}
  /\ UNCHANGED <<step, batchVars, noiseVars, data, len, history>>

\* What lane 0 can have read where `new' was stored over `old' while the lanes
\* loaded the words of the cell one by one: the seed of either, and a position
\* that can be of neither.
Mixes(old, new) ==
  [seed_index : {old.seed_index, new.seed_index}, center : Centers, tile : Tiles]

\* ... and decides.  It appends what lane 0 read, maybe to the place of an input
\* nobody has read yet, or whose warp is just reading it.  The lanes of a warp
\* with a torn input need not agree on it: its count says nothing.
Filter2_0B_Write(h) ==
  /\ Running("filter_2_0b") /\ h \in held
  /\ \/ ~h.torn /\ Decide("filter_2_0b", h.cell)
     \/ h.torn /\ Output("filter_2_0b", h.cell) /\ UNCHANGED <<rejected, verdicts>>
     \/ h.torn /\ UNCHANGED <<len, data, rejected, verdicts>>
  /\ \/ held' = held \ {h}
     \/ /\ len' # len
        /\ \E g \in held \ {h} : \E cell \in Mixes(g.cell, h.cell) :
             /\ g.index = len["filter_2_0b"]
             /\ held' = (held \ {g, h}) \cup
                  {[index |-> g.index, cell |-> cell, torn |-> TRUE]}
  /\ clobbered' = (\/ clobbered \/ held' # held \ {h}
                   \/ len' # len /\ <<len["filter_2_0b"], 0>> \in todo)
  /\ UNCHANGED <<step, batchVars, noiseVars, todo>>

\* KernelSeed1::late_kernel<n>: the thread of input i tries to raise the flag
\* of its seed_index from n - 1 to n (atomicCAS); it goes on if it did ...
LateFlag(n, i) ==
  LET from == InputOf(LateKernel(n))
      s == Entry(from, i).seed_index
  IN  /\ Running(LateKernel(n)) /\ <<i, 0>> \in todo /\ i < MaxLen(from)
      /\ todo' = todo \ {<<i, 0>>}
      /\ \/ /\ init_flags[s] = n - 1
            /\ init_flags' = [init_flags EXCEPT ![s] = n]
            /\ held' = held \cup
                 {[index |-> i, cell |-> Entry(from, i), torn |-> FALSE]}
         \/ init_flags[s] # n - 1 /\ UNCHANGED <<init_flags, held>>
      /\ UNCHANGED <<step, batchVars, buffer_seeds, results, data, len, history>>

\* ... and initialises the n-th group of octaves for the seed.
LateInit(n, h) ==
  LET s == h.cell.seed_index
  IN  /\ Running(LateKernel(n)) /\ h \in held
      /\ held' = held \ {h}
      /\ results' = [results EXCEPT ![s] = [@ EXCEPT ![n] = buffer_seeds[s]]]
      /\ UNCHANGED <<step, batchVars, buffer_seeds, init_flags, data, len, todo, history>>

\* The kernels that follow a stage whose outputs overflowed read behind the
\* end of the buffer.  They may reject or skip what they find there; they may
\* also fault, whereupon TRY_CUDA ends the process, accept it, or initialise
\* octaves at a seed_index found there: nothing is promised then.
ReadBehindEnd ==
  /\ 2 < step /\ step <= Last
  /\ LET behind == {item \in todo : item[1] >= MaxLen(InputOf(Kernel))}
     IN  /\ behind # {}
         /\ \/ todo' = todo \ behind /\ UNCHANGED <<step, held>>
            \/ step' = Undefined /\ todo' = {} /\ held' = {}
  /\ UNCHANGED <<batchVars, noiseVars, data, len, history>>

\* host_buffer_lens after the copy and std::min with max_len.
HostLen(k) == IF len[k] <= MaxLen(k) THEN len[k] ELSE MaxLen(k)

\* After the stream is synchronised: clamp the lengths, update the
\* statistics, copy the final outputs, look up their seeds and push them.
Collect ==
  /\ step = Last + 1
  /\ warned' = {k \in Stages : HostLen(k) > MaxLen(k)}
  /\ pushed' = [n \in 1..HostLen("filter_2d") |->
       LET cell == data["buffer_2"][n - 1]
       IN  <<buffer_seeds[cell.seed_index], cell.center, cell.tile>>]
  /\ step' = 0
  /\ UNCHANGED <<start_seed, noiseVars, data, len, todo, held, history>>

Next ==
  \/ Claim \/ KernelEnds \/ InitSeeds \/ Collect \/ ReadBehindEnd
  \/ \E h \in held : Filter2_0B_Write(h) \/ \E n \in 1..4 : LateInit(n, h)
  \/ \E item \in todo :
       \/ FilterSeed(item[1])
       \/ GradVecs1(item[1], item[2]) \/ GradVecs2(item[1], item[2])
       \/ Filter2_0A(item[1]) \/ Filter2_0B_Read(item[1])
       \/ \E k \in {"filter_2a", "filter_2b", "filter_2c", "filter_2d"} :
            Filter2(k, item[1])
       \/ \E n \in 1..4 : LateFlag(n, item[1])

Spec == Init /\ [][Next]_vars

-----------------------------------------------------------------------------
(***************************************************************************)
(* What a batch promises.                                                  *)
(***************************************************************************)
\* Types.
TypeOK ==
  /\ step \in {Undefined} \cup 0..(Last + 1) /\ start_seed \in Seeds \cup {-BatchSeeds}
  /\ buffer_seeds \in [0..(SeedCap - 1) -> Seeds \cup {NoSeed}]
  /\ results \in [0..(SeedCap - 1) -> [0..4 -> Seeds \cup {NoSeed}]]
  /\ init_flags \in [0..(SeedCap - 1) -> 0..4]
  /\ DOMAIN data = {"buffer_1", "buffer_2"}
  /\ data["buffer_1"] \in [0..(Cap1 - 1) -> Cells]
  /\ data["buffer_2"] \in [0..(Cap2 - 1) -> Cells]
  /\ len \in [Stages -> Nat]
  /\ todo \subseteq Nat \X (Centers \cup Tiles \cup {0})
  /\ held \subseteq [index : Nat, cell : Cells, torn : BOOLEAN]
  /\ warned \subseteq Stages
  /\ rejected \subseteq (Seeds \cup {NoSeed}) \X Centers \X Tiles
  /\ verdicts \subseteq Cells \X BOOLEAN
  /\ clobbered \in BOOLEAN

\* The candidates of the batch no filter has rejected.
Survivors ==
  ((start_seed..(start_seed + BatchSeeds - 1)) \X Centers \X Tiles) \ rejected

Overflowed == \E k \in Stages : len[k] > MaxLen(k)

\* The seed_index values of the inputs the running kernel has still to judge.
Judged ==
  IF step < 1 \/ step > Last THEN {}
  ELSE IF Kernel = "filter_gradvecs_1" THEN {item[1] : item \in todo}
  ELSE IF Kernel \in Stages \ {"filter_seeds"}
    THEN {data[Memory(InputOf(Kernel))][item[1]].seed_index : item \in todo}
           \cup {h.cell.seed_index : h \in held}
    ELSE {}

\* No filter samples an octave that was not computed for the seed in this
\* batch: neither memory left from an earlier batch, nor a group whose late
\* initialisation was skipped because of an old flag.
OctavesFresh ==
  ~Overflowed =>
    \A i \in Judged : \A o \in Octaves(Kernel) :
      results[i][Group(o)] = buffer_seeds[i]

\* Of the threads of a late initialisation that have inputs with the same seed
\* only one writes its octaves, however their attempts at the flag interleave.
OneInitialiser ==
  \A n \in 1..4 : Running(LateKernel(n)) =>
    \A g, h \in held : g.cell.seed_index = h.cell.seed_index => g = h

\* What a batch pushes has one of its own seeds, and one that KernelFilterSeeds
\* let through, whatever filter_2_0b overwrote and however an input was torn:
\* nothing of an earlier batch is pushed again, under its own seed or another
\* one.  If no input was overwritten before it was read, no filter has rejected
\* the candidate.
NoFalseCandidates ==
  step = 0 /\ ~Overflowed =>
    \A n \in 1..Len(pushed) :
      /\ pushed[n][1] \in start_seed..(start_seed + BatchSeeds - 1)
      /\ \E m \in 0..(len["filter_seeds"] - 1) : pushed[n][1] = buffer_seeds[m]
      /\ ~clobbered => pushed[n] \in Survivors

\* Every candidate of the batch that passes all filters is pushed, once.
Complete ==
  /\ Survivors = {pushed[n] : n \in 1..Len(pushed)}
  /\ Len(pushed) = Cardinality(Survivors)

\* A batch is complete unless a buffer overflowed, or filter_2_0b overwrote
\* an input that had not been read to the end.
CompleteUnlessDisturbed ==
  step = 0 /\ start_seed >= 0 /\ ~Overflowed /\ ~clobbered => Complete

\* A batch is complete unless a buffer overflowed.
CompleteUnlessOverflow ==
  step = 0 /\ start_seed >= 0 /\ ~Overflowed => Complete

\* A batch that lost outputs because a buffer was full prints the stage.
OverflowReported ==
  step = 0 /\ start_seed >= 0 =>
    \A k \in Stages : len[k] > MaxLen(k) => k \in warned

=============================================================================

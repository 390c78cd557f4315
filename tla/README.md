# COMMISSION: formal models, model checking and proofs

COMMISSION searches Minecraft seeds for large mushroom islands. GPUs filter
batches of 2^28 seeds, CPU threads examine the few candidates that remain and
write the islands that are large enough to a file; several machines can be
joined over TCP. This directory holds TLA+ models of that program, TLC
configurations that check them on small instances, and TLAPS proofs for
arbitrary ones. Source paths below are relative to `src/src/`.

## 1. The system

| component | state | operations | talks to |
|---|---|---|---|
| main loop and shutdown (`main.cpp` 195-370) | `running`, `signal_count`, thread vectors, output file | drain `cpu_outputs` every interval; on a signal stop GPU, CPU, client threads, shut the server down, join the GPU threads, print totals, join the CPU threads, flush, join client and server | everything |
| signal handler (`main.cpp` 29-42) | `running`, `signal_count` | first signal clears `running`, second calls `_exit` | main |
| `Thread` (`common.h` 60-87) | `stop_flag` | start, stop, should_stop, join | all threads |
| `SeedIterator` (`gpu.h` 5-15) | atomic `pos` | `next(n)` | GPU threads, main's total |
| `GpuThread` (`gpu.cu` 1674-1923) | device buffers, lengths, flags, statistics | claim a batch, run the kernels, push the results | iterator, `gpu_outputs` |
| kernels (`gpu.cu` 346-1568) | device memory | filter seeds, initialise octaves, filter positions | each other through buffers |
| `CpuThread` (`cpu.cpp`) | candidate being examined | pop, `process`, push | `gpu_outputs`, `cpu_outputs` |
| biome search (`cubiomes.c`) | none between calls | flood fill, centre search | `process` |
| `ClientThread` (`client.cpp`) | socket, `pending_data` | connect, handshake, drain, write | `gpu_outputs`, a server |
| `ServerThread`, `tcp_server`, `tcp_connection` (`server.cpp`) | `io_ctx`, connections, partial records | accept, check handshake, read, reassemble, push, stop | `gpu_outputs`, clients |
| argument parsing (`main.cpp` 99-188) | `Args` | parse | main |
| random numbers (`Random.h`) | generator state | next, fork | kernels, CPU |

The queues `gpu_outputs` and `cpu_outputs` are shared under a mutex each; flags
and the iterator are atomics; kernels of a batch share device memory and are
ordered only by their stream.

What is hard here: the shutdown sequence races with threads that start, claim,
push, pop and write at their own pace; a signal may come at any time; GPU
memory is reused from batch to batch without being cleared; one kernel works in
place; buffers have limits nobody is told about; TCP cuts records anywhere and
connections end anywhere. The list of hazards, each at its line, is in
`PROJECT.json`.

What makes the parts correct: no candidate that was taken is lost or handled
twice; every result is written exactly once; ranges of seeds do not overlap; the
printed total is true; shutdown ends, and loses no work; a batch pushes exactly
the candidates that passed its filters; the server queues exactly the records
clients wrote.

## 2. Modules

| module | models | extends / uses |
|---|---|---|
| `Commission` | one process: all threads, queues, iterator, signals, shutdown, aborts | |
| `MCCommission` | instances of it | `Commission` |
| `CommissionProofs` | theorems about `Commission`, and about `Args`, which gives its modes | `Commission`, `INSTANCE` of `Args` |
| `GpuBatch` | what happens inside one device's batches | |
| `MCGpuBatch` | instances of it | `GpuBatch` |
| `GpuBatchProofs` | theorems about `GpuBatch`: what a batch pushes is right, and nothing is missing from it | `GpuBatch` |
| `RecordChannel` | what client and server promise each other (abstract) | |
| `TcpLink` | client and server over a byte stream | `RecordChannel` as refinement target |
| `MCTcpLink` | instances of it | `TcpLink` |
| `TcpLinkProofs` | theorems about `TcpLink`, the refinement included | `TcpLink` |
| `FilterKernel` | what a filter kernel promises (abstract): each item judged once, on its own evidence | |
| `Filter2Block` | blocks and warps of `KernelFilter2` | `FilterKernel` as refinement target |
| `WarpFilter` | warps and lanes of `KernelFilter2_0A`; of `_0B` as long as no input is overwritten | `FilterKernel` as refinement target |
| `GradVecsBlock` | blocks and threads of `KernelFilterGradVecs1` and `2` | `FilterKernel` as refinement target |
| `SeedInit` | a block of `KernelSeed1` | |
| `SeedInitProofs` | theorems about `SeedInit` and about the `Shuffle` its noises are made with | `SeedInit`, `INSTANCE` of `Shuffle` |
| `CountingLemmas` | lemmas on least numbers, iteration, quotients and sums | |
| `GradVecsProofs` | theorems about `GradVecsBlock` and `WarpFilter`, the refinements included, and about the tiles of `TileGrid` | `GradVecsBlock`, `CountingLemmas`, `INSTANCE` of `WarpFilter` and `TileGrid` |
| `Filter2BlockProofs` | theorems about `Filter2Block`, the refinement included | `Filter2Block`, `CountingLemmas` |
| `MCKernels` | instances of the four modules on kernels | `MCState`, `INSTANCE` of each |
| `TileGrid` | positions of a candidate from the first lattice column to the queue | |
| `SampleSquare` | the sample positions of `KernelFilter2` | |
| `LatticeWindow` | the sliding window of `KernelFilterGradVecs1` | |
| `Xrsr` | `XrsrRandom` and the shortcuts of `gpu.cu` around it | |
| `Shuffle` | the permutation of `init_noise`, `nextInt` with a bound | |
| `MCArithmetic` | instances of the five modules above | `MCState`, `INSTANCE` of each |
| `IslandSearch` | `getBiomeCentersOpt` and `floodFillGen` | |
| `IslandSearchProofs` | theorems about `IslandSearch` and `BiomeTest` | `IslandSearch`, `BiomeTest`, `CountingLemmas` |
| `BiomeTest` | `process` with `monteCarloBiomes` | what `IslandSearch` returns, as a choice |
| `Args` | `Args::parse` and the start of `main_inner` | |
| `MCHost` | instances of the three modules above | `MCState`, `INSTANCE` of each |
| `MCState`, `MCParts` | the variables the instances share; one run of all of them | `MCKernels`, `MCArithmetic`, `MCHost` |

Modules that model small closed parts share the run `parts`: the initial state
of `MCParts` chooses which part runs, and the variables `v1`, `v2`, ... are
those of that part, so the parts do not multiply each other's states.

The levels fit together: `GpuPush` of `Commission` appends a batch's hits in
one step, in any order. `GpuBatch` opens that step up and shows when it is
right (no overflow, no input overwritten). `ServerReceive` and `ClientWrite` of
`Commission` move whole records; `TcpLink` shows that the byte stream does.
`GpuBatch` in turn takes one item of a kernel as one step: `Filter2Block`,
`WarpFilter` and `GradVecsBlock` show, each by refinement of `FilterKernel`,
that the blocks, warps and lanes of a kernel add up to such steps, and
`SeedInit` that the octaves it reads are whole. The exception is `filter_2_0b`,
which works in place: `WarpFilter` speaks of it only where no input is
overwritten, and what happens otherwise is part of `GpuBatch`. `ModeAssumption` of
`Commission` says which combinations of threads occur; `SourceAndDrain` of
`Args` shows that the command line gives no others. `CpuProcess` of
`Commission` takes the verdict of `process` as given; `BiomeTest` and
`IslandSearch` say what it is.

### Commission

A critical section is one action. The initial state is the one after the signal
handlers are installed (`main.cpp` 271). Threads have a program counter:
`gpu_pc` (init, check, claim, batch, done), `cpu_pc` (take, process, done),
`client_pc`, `server_pc`, and `main_pc`, which walks through the shutdown step
by step, stop flags being stored one at a time. The queue `gpu_outputs` is
represented by `found`, everything ever pushed, and `popped`, the number of
pops, so that a candidate keeps its number for its whole life; `examined`,
`pending`, `sent`, `cpu_outputs` and `file` hold such numbers. What the filters
let through for a seed (`Hits`) and what `process` says of a candidate are
constants. `Panic` ends the process wherever a CUDA call, an allocation or asio
can fail. Sleeping and looking again changes nothing and is no action.

### GpuBatch

`step` is the position in the chain of kernels (`Kernels`, in the order of
`gpu.cu` 1766-1815). `todo` holds the iterations of the running kernel's
grid-stride loop that are not done yet; they are taken in any order. A filter
accepts a cell (`Output`: increment the length, store if there is room) or
rejects it; the history variable `verdicts` remembers what the running filter
said, so that every copy of a cell gets the same verdict, and `rejected` which
candidates some filter has rejected. `results[i][g]` records for which seed group
`g` of octaves was computed: group 0 by `init_seeds`, 1 to 4 by the late
kernels. Buffers keep what earlier kernels and batches left in them. The
positions a cell stands for are a centre found by `filter_gradvecs_1` and, from
`filter_gradvecs_2` on, one of the tiles around it; the small shifts of
`move_center` are left out, and so is all floating-point arithmetic. Kernels
that read one buffer and write another do an item in one step.

`filter_2_0b`, whose inputs and outputs are both in `buffer_2`, takes two steps
for an item, `Filter2_0B_Read` and `Filter2_0B_Write`, and `held` has the items
between them. Every lane loads the three words of an input by itself
(`gpu.cu` 1477) while lane 0 of another warp may store there (1557): a write to
the index of an item that is held may tear it (`Mixes`: the seed of either
cell, any position), and a warp with a torn input may accept or reject, as its
lanes need not have seen the same input. `clobbered` remembers that an input
was torn, or overwritten before it was read. The late kernels take two steps as
well: `LateFlag` is the `atomicCAS` on the flag of the input's seed, `LateInit`
the initialisation by the thread that raised it; other threads with the same
seed come between.

A kernel takes the length of its input from the device, unclamped. After an
overflow it reads behind the end of the buffer (`ReadBehindEnd`): the model
goes on with what it found there rejected, or stops in `Undefined`, which
stands for a fault (`TRY_CUDA` aborts) and for every other outcome. The late
kernels read behind the end in the same way.

### TcpLink and RecordChannel

A byte is the number of its position in its stream, so a record made of the
wrong bytes is visible. `goal` is what the client handed to `asio::write`,
`wrote` what the socket accepted, `read` what the server took. Client actions
follow `client.cpp`; server actions are the completion handlers of
`server.cpp`, which run one at a time. The network (external) may deliver any
prefix, break a connection, and a client may be killed at any point.
`handle_handshake` ignores its error code; after a failed read the array it
compares is not initialised, so the comparison may come out either way.
`RecordChannel` knows only how many candidates a client took and which the
server queued; `ImplementsChannel` maps records to their numbers.

### FilterKernel, Filter2Block, WarpFilter, GradVecsBlock

A thread of the model is what can run by itself: a warp in `Filter2Block`
(its lanes meet in every `warp_reduce_add`), a lane in `WarpFilter` (since
Volta nothing but `__syncwarp` and the reduction holds lanes together), a
thread in `GradVecsBlock`. Each has a program counter over the phases between
barriers; `__syncthreads` opens when every thread of the block that has not
returned waits at some barrier, whichever it is, so that a misplaced barrier
shows up as mixed data or as a violation of `UniformBarriers`. What samples or
scores say is a constant choice made at the beginning (`share`, `low`,
`passes`); a thread that reads an octave or a table that is not wholly of its
own input may see anything. The refinement maps an input (or a position of
one) to decided when the thread that appends it has passed that point.
The two gradient filters go through the same phases and share a module; the map
names the lines of one of the two. `KernelFilter2_0B` is the code of
`KernelFilter2_0A` with other octaves, but its outputs go to the buffer its
inputs are in. The inputs of `WarpFilter` are constant, so what is checked and
proved of it holds for `_0A`, and for `_0B` only in launches that overwrite no
input while a warp uses it.
The table of gradients copied before the first barrier is never written again
and is left out, except for the convolution kernel of `GradVecsBlock`, which
relies on a barrier inside the loop.

### SeedInit, Xrsr, Shuffle

`SeedInit` has a block's shared noise and the results as words marked with the
seed and octave they belong to. `Xrsr` steps a generator through what
`KernelSeed1` would do with one (fork the seed, fork twice, draw `xo` and
`yo`), and compares the values the shortcuts compute without one. Word width,
rotations and multipliers are constants; the facts checked (the update is
linear, `mix64` is injective, so a seed's state is never zero) do not depend on
the width. `YoOffsetExact` leaves out forks that equal the octave's hash, where
the generator would replace its zero state (one in 2^128). `Shuffle` draws
every word.

### TileGrid, SampleSquare, LatticeWindow

These have the code's own sizes. `TileGrid` follows one coordinate of a
candidate through the kernels, for every combination of the two compile-time
switches; offsets of the noise are whole positions. `SampleSquare` computes the
points all threads of an input sample, for every template instance's number of
samples and both colours of the checkerboard. `LatticeWindow` follows the
registers of one thread along its row; a hash stands for its column.

### IslandSearch, BiomeTest

`IslandSearch` is the search at the version the program sets (`MC_NEWEST`) with
`nmax` 1 and no stop flag. The stack is a sequence, taken from its end. What
biome a cell has and whether its climate is within limits are independent
inputs. `BiomeTest` is `process`: the sampling loop with Wilson's interval,
whose comparisons are turned into comparisons of integers (the interval's ends
are roots of a quadratic), then the search at scales 16 and 4, which returns
any number of cells `getBiomeCentersOpt` may return. Products are wrapped at
`Word`. The buffered branch of `monteCarloBiomes` is not taken for ranges of
this size, and `eval` only answers 0 or 1.

### Args

One action per word of the command line: an option, then its argument,
whatever word that is. The end of the command line may come at any point.
`given` remembers what was read.

## 3. Runs

All bounds are constants named in the modules (`MaxBatches`, `MaxRemote`,
`MaxRecords`) or sizes.

| run | instance | shows |
|---|---|---|
| `standalone` | 2 GPU, 2 CPU threads, 2 batches, fair; start near the end of the seed space, so the iterator wraps | `TypeOK`, `CandidatesAccounted`, `ReportsExactlyOnce`, `ExitKeepsTakenWork`, `TotalSeedsCompleted`, `SeedsClaimedOnce`; `ShutdownCompletes`, `CandidatesServed`, `ResultsWritten` |
| `relay` | a server with 2 remote records, a GPU thread with 2 batches, and a client, fair | `ExitKeepsTakenWork`; `CandidatesServed`, `ShutdownCompletesIfPublished` |
| `tcp_link` | a client of the server's biome size and one of the other, fair; handshake and records of 2 bytes, buffer of 2 records, up to 3 records per client | `TypeOK`, `WholeRecordsInOrder`, `ReadHasRoom`, `OnlyMatchingQueued`, refinement of `RecordChannel`; `RecordsArrive` |
| `gpu_batches` | 2 batches of 2 seeds, 1 centre, 2 tiles; buffers of 3 and 2 cells | `TypeOK`, `OctavesFresh`, `OneInitialiser`, `NoFalseCandidates`, `CompleteUnlessDisturbed` |
| `parts`: `Filter2Block` | 1 block, 2 inputs at a time of 2 warps each, 3 inputs, moving the centre; and 2 blocks, 3 inputs | `TypeOK`, `UniformBarriers`, `ImplementsFilter` (refinement of `FilterKernel`) |
| `parts`: `WarpFilter` | a warp of 4 lanes, 2 inputs of 2 seeds, room for 1 output | `TypeOK`, `ImplementsFilter` |
| `parts`: `GradVecsBlock` | a block of 3 threads, 2 of which load, 2 inputs of 4 positions, room for 2 outputs | `TypeOK`, `ImplementsFilter` |
| `parts`: `SeedInit` | 4 threads, noises of 3 words, 3 octaves; no seed, none in the block, part of the block, all of it, more | `OwnNoise` |
| `parts`: the four above | fair | `KernelsEnd`: every kernel ends, `KernelSeed1` with all its noises written |
| `parts`: `TileGrid` | real sizes; 3 offsets, the first and the last column, every tile | `TilesCover` (`InnerWorldCovered`, `BorderStripMissed`, `NearBorder`, `EveryPhaseOnce`) |
| `parts`: `SampleSquare` | real sizes; 2^6 to 2^14 samples, the four sides a square can have | `SquareCovered` (with `NoPointTwice`) |
| `parts`: `LatticeWindow` | real sizes; every row | `OwnWindow` |
| `parts`: `Xrsr` | words of 5 bits, all seeds, several hundred pairs of hashes | `ShortcutsExact` (`ForksExact`, `YoOffsetExact`) |
| `parts`: `Shuffle` | words of 5 bits, a table of 6, every draw | `ShuffleFair` (`TableIsPermutation`, `DrawsUniform`) |
| `parts`: `IslandSearch` | every map of 4 by 3 cells, tolerances 1 and 2, fair | `TypeOK` (with `StackFits`), `FillsExact` (`IslandsWhole`, `AreaOfIslands`), `NoLargeIslandMissed`, `SearchEnds` |
| `parts`: `BiomeTest` | a range of 32 blocks, coverages 0, 1/16, 3/4, 1 and 9/8, z-score 2, candidates on both sides of the origin | `TypeOK` (with `ScoreLargeEnough`), `VerdictSound` (with `VerdictReached`), `CandidateCentred` |
| `parts`: `Args` | up to 3 options and 15 words, all 8 builds | `SourceAndDrain` (with `DevicesDistinct`), `EveryOptionUsed` |

A property of the run `parts` says that the properties of a part hold when that
part was chosen; the names in parentheses are its conjuncts, stated in the
part's module.

Two threads of a kind suffice for every race between equals, since each
critical section involves one thread; a third batch or a third candidate adds
no new order of claim, push and pop. Records of two bytes can be cut once, and
three records in a buffer of two exercise a full buffer, a carried rest and a
record continued over two reads. Two batches suffice for anything left over
from the one before; four candidates in buffers of two and three overflow.
In the kernels two inputs per block or warp suffice for shared memory used
again, a third makes an incomplete last round, and each buffer is one too small
for all inputs to pass. A map of 4 by 3 cells has islands that touch only
through the tolerance, islands the grid of starting cells misses, and rings;
the minimum of 4 cells makes the step 2. In `parts` the word is as large
against the number of blocks as an `int` is for small biomes (range 12800), in
`biome_test_large` as it is for large ones (range 51200). Of the coverages 1/16
is close to the default's 0.055; 3/4 and 9/8 (a `--size` no range has) make the
upper end of the interval decide, 0 and 1 are the ends of what `finders.h`
documents.
`CHECK_DEADLOCK FALSE` is set for `TcpLink`, where all clients may have ended,
and `GpuBatch`, which stops after the last batch of the bound.

Seven runs are expected to end in a violation; they state what the program, or
a library it calls, says of itself and show that it does not hold:

* `last_batch` (`ExitExaminesEverything`): CPU threads are stopped before the
  GPU threads are joined, so the candidates of the last batch are never
  examined although main waited for it (`main.cpp` 316, 331).
* `server_early_signal` (`ShutdownCompletes`): a signal handled before the
  server thread stored its `io_ctx` leaves main waiting for ever
  (`server.cpp` 131, 154).
* `in_place_filter` (`CompleteUnlessOverflow`): `filter_2_0b` overwrites inputs
  its own slower warps have not read, or are reading (`gpu.cu` 1715, 1718).
* `overflow_warning` (`OverflowReported`): the overflow message can never be
  printed, because the lengths are clamped first (`gpu.cu` 1630, 1821).
* `biome_test_large` (`VerdictSound`): for large biomes the number of blocks in
  the range overflows an `int`, the coverage becomes negative, and the sampling
  test accepts every range after about a dozen samples (`cubiomes.c` 264). The
  searches after it still decide, at their full cost.
* `border_kept` (`WithinBorder`): `src/README.md` 57 says that the default
  "keeps it within the world border". The grid of 115 (large biomes: 29) tiles
  is centred on a position that depends on the seed, and nothing compares a
  candidate with the border: some lie up to 411,776 (1,469,568) blocks beyond
  it, and a little further once their centre was moved. (At the other end the
  same grid stops up to 119,680, or 656,256, blocks before the border, although
  `gpu.cu` 879 says "checking full bounded world"; the run `parts` checks this
  as `BorderStripMissed`.)
* `coverage_equal` (`CoverageReachedAccepted`): `finders.h` 522 and 528 say "at
  least a given proportion" and "minimum coverage"; the comparison of
  `finders.c` 3166 is strict, so a share equal to the coverage is rejected, in
  particular all ranges without deep ocean when `--size 0` asks for none.

`TilesCover` of the passing run `parts` says how far the grid is off and that it
has no gap: `InnerWorldCovered` and `BorderStripMissed` with `Unsearched`,
`NearBorder` with `Overshoot`, both as small as they can be. `VerdictSound` of
that run says what the three exits of `monteCarloBiomes` agree on, the strict
comparison.

Every property of a passing run has a mutant in `PROJECT.json`: a variant of an
operation with one plausible slip under which TLC finds it violated. The
variants stand next to the operations in the modules.

### Fairness

`Commission`: weak fairness per thread, that is, the operating system schedules
every thread, sleeps end and the CUDA stream completes. Nothing is assumed of
signals, remote clients or failures. A mutex is held only for a bounded time,
so taking it needs no stronger assumption, except that two CPU threads may
compete for candidates; each candidate is still served, because the queue is
first in, first out and each thread returns to it. `TcpLink`: a write that can
go on does, and a completion handler that is ready runs, as `io_context::run`
guarantees; nothing is assumed of the client's decision to drain or return.
The kernels
(`MCParts`): as long as some thread of the grid can go on, one does; a
block that was started stays on its multiprocessor until it ends. No order
among threads is assumed. `IslandSearch`: the one thread that searches runs.

## 4. Proofs

`CommissionProofs` proves for any numbers of threads, seeds and candidates,
under the assumptions `ModeAssumption`, `SeedAssumption` and `DataAssumption`
(what `Args::parse` accepts, a batch no larger than the seed space, finitely
many candidates):

| theorem | property | argument |
|---|---|---|
| `TypeCorrect` | `TypeOK` | inductive as it stands, part by part |
| `EveryPopAccounted` | `CandidatesAccounted` | inductive together with `TypeOK` and `ClientOrder`: a client holds candidates only between drain and write |
| `ReportedExactlyOnce` | `ReportsExactlyOnce` | from the accounting: a candidate being examined is in nobody's results yet |
| `ExitIsClean` | `ExitKeepsTakenWork` | needs `ShutdownOrder`: which threads are done, and which queue empty, at each point of main's shutdown |
| `TotalIsCompleted` | `TotalSeedsCompleted` | needs `SeedOrder`: the n-th batch starts n-1 batches after the start seed, modulo the seed space, and an unfinished batch belongs to one GPU thread |
| `ClaimedOnce` | `SeedsClaimedOnce` | from `SeedOrder` and modular arithmetic (`DivMod` to `ModDistinct`) |

Each strengthening is needed because the property alone says nothing of the
states from which the next step breaks it: that the file is complete at exit
follows only from the CPU threads having been joined before the last flush.

The same module proves of `Args`, for any words on the command line and any
reading of them (`WordAssumption`):

| theorem | says | argument |
|---|---|---|
| `CommandLineGivesMode` | `SourceAndDrain`, and the conjuncts of `ModeAssumption` that relate threads to options (`ModesAsAssumed`) | `Kept`: what was read is what the options hold; `Checked`: what the tests of `Args::parse` leave once they are passed |
| `OptionsTakeEffect` | `EveryOptionUsed`, `DevicesDistinct` | also `Reading`: an option whose argument comes next was not given before, so nothing is overwritten; `Listed`: the devices of every list read are among the devices |

So what `Commission` assumes of a process's mode is what the program makes sure
of before it starts one.

`SeedInitProofs` proves `ResultsAreOwnNoise`, that `OwnNoise` holds of a block of
`KernelSeed1` of any size with noises of any number of words, any number of
octaves and any input length, under `BlockAssumption`. The invariant adds to
`OwnNoise` that all threads are between the same two barriers with the same
octave (`Together`) and that a thread past `init_noise` has its seed's noise in
shared memory (`Filled`): without them a copied word could be of any octave.
`StructOfWord` shows that a word of the flat array lies in the noise of one of
the threads, by arithmetic of quotient and remainder.

Of `Shuffle` it proves, for any table and words no smaller than it,
`TableStaysPermutation` (a swap of two entries is a bijection again, whichever
index is drawn) and `DrawsAlwaysUniform`: with Q the quotient of the number of
words by the bound, each index is drawn by exactly Q of the words that are
kept, a run of consecutive ones whose first is found by division.

`TcpLinkProofs` proves for any clients, sizes of handshake and record, and any
buffer that holds a record (`SizeAssumption`):

| theorem | property | argument |
|---|---|---|
| `TypeCorrect` | `TypeOK` | the order of the stream's positions (read, accepted, handed to asio) is part of it |
| `RecordsStayWhole` | `WholeRecordsInOrder` | needs `InStep`: what was pushed and what is in the buffer make up exactly the bytes read behind the handshake |
| `ReadsHaveRoom` | `ReadHasRoom` | from `InStep`: `handle_read` keeps less than one record, and a record fits |
| `OthersQueueNothing` | `OnlyMatchingQueued` | needs `Ended`: after a failed handshake nothing comes any more, so it does not matter how the comparison of the array came out |
| `LinkImplementsChannel` | `ImplementsChannel` | step by step: a drain takes candidates, `handle_read` delivers the next ones, everything else stutters |

`RecordsStayWhole` is not inductive: a connection one byte out of step has
pushed only whole records so far. `LinkInvariant` says of each client where its
connection can be: before it reads nothing has been taken from the stream, and
while it reads it is in step with it or the stream has ended.

`GpuBatchProofs` proves for any sizes of batch and buffers, any centres and
tiles, and any verdicts of the filters, under
`CapAssumption` (positive sizes, no more seeds kept than a batch has,
at least one position per seed):

| theorem | property | argument |
|---|---|---|
| `TypeCorrect` | `TypeOK` | together with `BaseInv`, which items of the grid-stride loop are left at each kernel |
| `OneThreadInitialises` | `OneInitialiser` | `FlagInv`: a thread between `LateFlag` and `LateInit` has raised the flag of its seed, and the next one finds it raised |
| `NoStaleOctaves` | `OctavesFresh` | a late initialisation has written, or a thread that raised the flag is about to write, the octaves of every seed whose cells are left; `Live` says how many groups of octaves are there at each point of the chain |
| `SurvivorsPushedOnce` | `CompleteUnlessDisturbed` | `Covered`: a candidate nobody has rejected is in an output cell, waits to be judged, or is held by a warp of `filter_2_0b`; `Unique`: never in two |
| `PushedAreSurvivors` | `NoFalseCandidates` | every cell below the length of an output buffer was written in this batch and has a seed that was kept, torn or not; that no filter rejected it is part of the same invariant as `Covered` (`Alive`), and holds while no input was overwritten |

So the two ways in which the code can lose a candidate, a buffer that overflows
and the overwriting in `buffer_2`, are the only ones: a statement about all
fourteen kernels of the chain at once, because what one filter leaves in a
buffer has to be what the next one finds there. `Alive`, `Covered` and
`Unique` hold only while nothing has overflowed and no input was overwritten,
and the proofs show for each step that
an overflow is not undone within the batch.

`GradVecsProofs` and `Filter2BlockProofs` prove for any numbers of blocks,
threads or warps, slots, inputs, positions and samples, and for any
interleaving, under the `BlockAssumption` of each module (`WarpAssumption`:
the shifts of `warp_reduce_add` double from 1 to half the number of lanes):

| theorem | says | argument |
|---|---|---|
| `GradVecsImplementsFilter` | `KernelFilterGradVecs1` and `2` refine `FilterKernel` | `Together`: the threads of a block are between the same two barriers with the same input; `Evidence`: octave and tables are wholly of that input whenever a thread reads them |
| `Filter2ImplementsFilter` | `KernelFilter2` refines `FilterKernel` | `Counters`: a shared counter is the sum of what the warps of the slot's own input have added since its reset, in whatever order |
| `WarpImplementsFilter` | `KernelFilter2_0A` refines `FilterKernel`; so does `_0B` where no input is overwritten while in use | `LaneEvidence`: a lane samples only when all parts of both octaves are its input's; `ReduceSums`: after n shuffles a lane far enough from the end holds the sum of 2^n lanes, a difference of two prefix sums, so lane 0 ends with the sum of all |
| `WarpTypes` | `TypeOK` of `WarpFilter`; no count exceeds the samples of an input | from `ReduceSums`: a shuffle at most doubles |
| `BarriersUniform` | `UniformBarriers` of `Filter2Block` | from `Together` |
| `TypeCorrect` (both) | `TypeOK`; a shared counter never exceeds the samples of one input | from the sums |

The refinement needs the invariants because the abstract verdict is the one on
the input's own evidence: with a barrier missing, a thread would read what
another round left in shared memory, and the step would map to no step of
`FilterKernel`.

`GradVecsProofs` also proves of `TileGrid`, with the code's own sizes and for
every offset of the noise and every column (`GridAssumption`):

| theorem | says | argument |
|---|---|---|
| `CandidatesNearBorder` | `NearBorder`: candidates at most `Overshoot` blocks beyond the border | `TileInv`: how far from the origin a candidate can be after each kernel |
| `WorldAlwaysCovered` | every integer place at least `Unsearched` blocks inside the border is in a tile (`EveryPlaceReached`), of which `InnerWorldCovered` samples some | the tile is found by division by the period |
| `PhasesMetOnce` | `EveryPhaseOnce` | 276 is the inverse of 337 modulo 331 |

`IslandSearchProofs` proves for ranges of any size, any map and any tolerance,
under `RangeAssumption` (positive sizes):

| theorem | says | argument |
|---|---|---|
| `StackAlwaysFits` | `StackFits` | `Room`: the entries of the stack can be given different cells of the range (`Takes`), by who put them there: from above or below the lower of the two cells, from the right what the pushing cell had, from the left one spare cell, and that entry is taken off next |
| `IslandsStayWhole` | `IslandsWhole` | `Counting`: a mushroom cell next to a counted one is counted or on the stack, and what earlier fills counted is closed under being next to each other |
| `AreaIsIslands` | `AreaOfIslands` | also `WalksOnly` and `IslandOnly`: a fill is no further than walks of as many steps as cells are marked, and every such walk is within `Reachable` |
| `NoCompactIslandMissed` | `NoLargeIslandMissed` | `Scanned`: what the scan has passed was looked at, rejected outside the limits, or marked; `SmallSoFar`: islands counted before were too small. A large enough square holds a cell of the grid |
| `SearchTypes` | `TypeOK` | from the same invariant (`SearchInvariant`) |

`StackFits` is far from inductive: cells are pushed once per neighbour, before
they are marked, so the number of entries is bounded only by saying which cell
each of them uses up. The islands of the model are what sx * sz steps from a
cell reach. That a fill counts all of one follows from closure (an island stays
in every closed set around its first cell, `IslandWithin`), and that it counts
no more from the steps: a fill marks one cell per step, so it is never further
than sx * sz of them.

The same module proves of `BiomeTest`, for ranges of any side (`TestAssumption`),
any sizes wanted and any candidates:

| theorem | says | argument |
|---|---|---|
| `RangeAlwaysCentred` | `CandidateCentred`, if the corners of the range fit an int (`CornersFit`) | what fits does not wrap (`WrapFits`), and C's division is less than one cell off on either side of zero |
| `TestsSound` | `VerdictSound`, `ScoreLargeEnough` and `TypeOK`, if the blocks of the range fit an int (`BlocksFit`) and while `VerdictReached` holds | `FractionIs`: the coverage in lowest terms is that of the blocks, because both are multiples of what Euclid's algorithm finds (`GcdDivides`); `ShareIs`: one sample above the interval, or below it, decides the comparison with the share |

`BlocksFit` is true of the usual ranges (12800 blocks) and false of those with
large biomes: there the code's product overflows, which is what the run
`biome_test_large` shows, so the hypothesis cannot be dropped. Nor is
`VerdictReached` true of all constants: in a range of 16 blocks (16 cells) with
a z-score of 1 and min_size 303, which is more than the range has, 16 successes
leave everything undecided and the initial value 1 is returned. It needs a range
with many more cells than samples are wanted, and is checked by TLC.

`CountingLemmas` has what these proofs share. `Least` (every nonempty set of
naturals has a least member) follows from the library's theorem that strict
inclusion is well-founded on finite sets, and gives induction on a set of
numbers (`UpTo`) without an operator as a parameter. From it come prefix sums:
they exist, are unique, are bounded, and change by as much as the summand that
changes; and `Iterates`: a function of a set to itself can be applied any
number of times. `TotalIs` of `Filter2BlockProofs`, `LanesTotal` and
`ReductionExists` of `GradVecsProofs`, `IslandIs` and `GcdIs` of
`IslandSearchProofs` use them to show that the recursive functions of the models are what they
should be.

The invariants of all proofs were model-checked on small instances before they
were proved.

Checked by TLC only:

* all liveness properties and everything under fairness (`ENABLED` is not
  supported by the provers);
* `SampleSquare` and `LatticeWindow`, which have the code's own sizes, so that
  TLC checks all their cases (every number of samples, every row);
* `Xrsr`: the provers do not know bitwise operators;
* `VerdictReached` of `BiomeTest`: an inequality between the widths of two
  Wilson intervals, of high degree in four variables;
* the violation runs, which show counterexamples.

## 5. Not modelled

* Floating-point noise, gradient tables, scores and thresholds: no state, and
  out of TLC's reach. The kernels' models take their verdicts as inputs.
* The printed statistics (but for the overflow message, in `GpuBatch`) and all
  formatting.
* `KernelFilter1`, which nothing calls, and the generators of `Random.h` the
  program does not use (`JavaRandom`, `WorldgenRandom`).
* `getBiomeCentersOpt` for versions before 1.18 and with a stop flag, the
  buffered branch and the other answers of `eval` in `monteCarloBiomes`: no
  call of this program reaches them. The centre's coordinates, a rounded mean.
* Whole clusters, clients and server composed end to end: `Commission` has
  both roles of a process and `TcpLink` what goes on between them; their
  product adds states but no interaction.
* The vendored libraries. Almost all lines of the repository (234,000 of
  237,600) are asio, cubiomes with its biome tables, and BOINC's API. The
  program calls into them; asio's observable behaviour is in `TcpLink`,
  `monteCarloBiomes` and `wilson` in `BiomeTest`, and the biome generator, a
  function of floating-point noise and large tables, is an input. So the map
  covers most of `src/src/` and a small share of the repository.

## 6. Plan

The components named in section 1 are modelled as far as described above, and
every module has its safety properties either proved or checked in all cases of
the code's own sizes, but for two:

1. `BiomeTest` (`VerdictReached`): how many more cells than wanted samples a
   range must have for Wilson's interval to become narrow enough, as an
   inequality of integers.
2. `Xrsr` (`ShortcutsExact`): for every word size it would need the words as
   functions to bits, with exclusive or as addition modulo 2 of each.

Liveness stays with TLC.

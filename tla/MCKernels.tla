------------------------------ MODULE MCKernels ------------------------------
(***************************************************************************)
(* Small instances of the kernels of gpu.cu that share memory between      *)
(* threads; MCParts launches one of them.                                  *)
(***************************************************************************)
EXTENDS Integers, Sequences, MCState

\* Totals of two warps below, at and above MinCount, and sums on both sides of
\* zero that do not divide evenly.
SomeShares == {[low |-> 1, dx |-> -3], [low |-> 2, dx |-> 4]}

\* KernelFilter2, one block with two inputs at a time and an incomplete last
\* round, moving the centre.
Block == INSTANCE Filter2Block WITH
  GridDim <- 1, InputsPerBlock <- 2, WarpsPerInput <- 2, InputsLen <- 3, MinCount <- 3,
  MoveCenter <- TRUE, MaxLen <- 2, WarpSamples <- 2, Shares <- SomeShares,
  share <- v1, pc <- v2, base <- v3, total_valid <- v4, sum_dx <- v5,
  shared_counts <- v6, shared_sums <- v7, outputs_len <- v8, outputs <- v9

\* KernelFilter2, two blocks that append to one buffer.
Grid == INSTANCE Filter2Block WITH
  GridDim <- 2, InputsPerBlock <- 1, WarpsPerInput <- 2, InputsLen <- 3, MinCount <- 3,
  MoveCenter <- FALSE, MaxLen <- 3, WarpSamples <- 2, Shares <- SomeShares,
  share <- v1, pc <- v2, base <- v3, total_valid <- v4, sum_dx <- v5,
  shared_counts <- v6, shared_sums <- v7, outputs_len <- v8, outputs <- v9

\* KernelFilter2_0A, one warp of four lanes, two inputs of two seeds.
Warp == INSTANCE WarpFilter WITH
  NumWarps <- 1, LaneCount <- 4, Shifts <- <<1, 2>>, Seeds <- {3, 7},
  InputSeeds <- <<7, 3>>, LaneSamples <- 1, MinCount <- 3, MaxLen <- 1,
  low <- v1, pc <- v2, input_index <- v3, oct <- v4, count <- v5,
  outputs_len <- v6, outputs <- v7

\* KernelFilterGradVecs1 and 2, a block of three threads, two inputs.
GradVecs == INSTANCE GradVecsBlock WITH
  GridDim <- 1, BlockDim <- 3, LoadThreads <- 2, InputsLen <- 2, Positions <- 4,
  MaxLen <- 2,
  passes <- v1, pc <- v2, input_index <- v3, position <- v4, kernel_0 <- v5,
  oct_0 <- v6, tables <- v7, outputs_len <- v8, outputs <- v9

\* KernelSeed1, the second seed is the first of the block; inputs that end
\* before it, in it and behind it.
Seed1 == INSTANCE SeedInit WITH
  threads_per_block <- 4, u4_per_struct <- 3, block_base <- 1,
  InputLens <- {0, 1, 3, 5, 6}, Octaves <- 3,
  input_len <- v1, pc <- v2, octave <- v3, i <- v4, shared_noise <- v5, results <- v6

ASSUME KernelsAssumption ==
  /\ Block!BlockAssumption /\ Grid!BlockAssumption /\ Warp!WarpAssumption
  /\ GradVecs!BlockAssumption /\ Seed1!BlockAssumption

KernelsInit ==
  \/ part = "filter_2_block" /\ Block!Init /\ Unused10
  \/ part = "filter_2_grid" /\ Grid!Init /\ Unused10
  \/ part = "filter_2_0" /\ Warp!Init /\ Unused8
  \/ part = "gradvecs" /\ GradVecs!Init /\ Unused10
  \/ part = "seed_1" /\ Seed1!Init /\ Unused7

KernelsNext ==
  \/ part = "filter_2_block" /\ Block!Next /\ UNCHANGED From10
  \/ part = "filter_2_grid" /\ Grid!Next /\ UNCHANGED From10
  \/ part = "filter_2_0" /\ Warp!Next /\ UNCHANGED From8
  \/ part = "gradvecs" /\ GradVecs!Next /\ UNCHANGED From10
  \/ part = "seed_1" /\ Seed1!Next /\ UNCHANGED From7

-----------------------------------------------------------------------------
\* The type invariants of the kernels.
KernelsTypeOK ==
  /\ part = "filter_2_block" => Block!TypeOK
  /\ part = "filter_2_grid" => Grid!TypeOK
  /\ part = "filter_2_0" => Warp!TypeOK
  /\ part = "gradvecs" => GradVecs!TypeOK

\* The warps of a block of KernelFilter2 meet at the same __syncthreads, also
\* when only some slots of the last round have an input.
UniformBarriers ==
  /\ part = "filter_2_block" => Block!UniformBarriers
  /\ part = "filter_2_grid" => Grid!UniformBarriers

\* The filter kernels implement FilterKernel: the shared counters of a block
\* are used again without mixing inputs, blocks append to one buffer,
\* __syncwarp and the reduction keep the octaves and counts of a warp's inputs
\* apart, and a position is judged with tables of its own seed.  (These are
\* the ImplementsFilter of the four instances, for the one that is launched,
\* in the form of a property TLC takes.)
ImplementsFilter ==
  /\ part = "filter_2_block" => Block!Abstract!Init
  /\ part = "filter_2_grid" => Grid!Abstract!Init
  /\ part = "filter_2_0" => Warp!Abstract!Init
  /\ part = "gradvecs" => GradVecs!Abstract!Init
  /\ [][part = "filter_2_block" => [Block!Abstract!Next]_(Block!Abstract!vars)]_vars
  /\ [][part = "filter_2_grid" => [Grid!Abstract!Next]_(Grid!Abstract!vars)]_vars
  /\ [][part = "filter_2_0" => [Warp!Abstract!Next]_(Warp!Abstract!vars)]_vars
  /\ [][part = "gradvecs" => [GradVecs!Abstract!Next]_(GradVecs!Abstract!vars)]_vars

\* The results of KernelSeed1 are of their own seed and octave.
OwnNoise == part = "seed_1" => Seed1!OwnNoise

\* Every kernel ends: no thread is left behind at a barrier, none goes on for
\* ever; KernelSeed1 then has written the noises of all its seeds.
KernelsEnd ==
  <>[](/\ part = "filter_2_block" => Block!Ended
       /\ part = "filter_2_grid" => Grid!Ended
       /\ part = "filter_2_0" => Warp!Ended
       /\ part = "gradvecs" => GradVecs!Ended
       /\ part = "seed_1" => Seed1!Complete)
=============================================================================

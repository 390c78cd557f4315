---------------------------- MODULE MCArithmetic ----------------------------
(***************************************************************************)
(* Instances of the index and generator arithmetic of gpu.cu and Random.h. *)
(* MCParts looks at one of them.                                           *)
(***************************************************************************)
EXTENDS Integers, Sequences, MCState

\* Offsets and columns at both ends of their ranges and between.
SomeOffsets == {0, 65536, 131071}
SomeColumns == {0, 255}

\* The tiles of the gradient-vector filters, with the real sizes.
Tiles == INSTANCE TileGrid WITH
  Offsets <- SomeOffsets, Columns <- SomeColumns,
  large_biomes <- v1, unbound <- v2, xo <- v3, stage <- v4, x <- v5

\* The samples of KernelFilter2, with the real sizes: the squares of filter_2a
\* and 2b, and of 2c and 2d, for small and for large biomes.
Square == INSTANCE SampleSquare WITH
  Exponents <- 6..14, PosRanges <- {8192, 10240, 32768, 40960},
  exponent <- v1, flipped <- v2, i <- v3, sampled <- v4, pos_range <- v5

\* The windows of KernelFilterGradVecs1, for every row.
Window == INSTANCE LatticeWindow WITH
  Rows <- 0..255,
  nz <- v1, nx <- v2, c0_0 <- v3, c0_1 <- v4, lookups <- v5

FiveBits == 0..31
SomeHashes == {<<5, 18>>, <<31, 0>>, <<9, 22>>}
SomeOctaves ==
  ({1, 6, 13, 28} \X FiveBits)
    \cup {h \in (FiveBits \ {0}) \X FiveBits : (h[1] * 7 + h[2]) % 11 = 0}

\* The generator and its shortcuts, with words of five bits.
Generator == INSTANCE Xrsr WITH
  Bits <- 5, Rol17 <- 1, Rol49 <- 4, Rol28 <- 2, Shl21 <- 2, MixShifts <- <<2, 3, 4>>,
  Mix1 <- 25, Mix2 <- 11, Silver <- 9, Golden <- 21, FloatBits <- 3, IntBits <- 1,
  NoiseHashes <- SomeHashes, OctaveHashes <- SomeOctaves,
  seed <- v1, noise_hash <- v2, octave_hash <- v3, pc <- v4, rng <- v5, fork <- v6,
  fork_a <- v7, fork_b <- v8, yo <- v9

\* The shuffle of init_noise: all permutations of six entries.
Table == INSTANCE Shuffle WITH Bits <- 5, N <- 6, i <- v1, p <- v2

ASSUME ArithmeticAssumption ==
  /\ Tiles!GridAssumption /\ Square!SampleAssumption /\ Window!RowAssumption
  /\ Generator!WordAssumption /\ Table!ShuffleAssumption

ArithmeticInit ==
  \/ part = "tiles" /\ Tiles!Init /\ Unused6
  \/ part = "square" /\ Square!Init /\ Unused6
  \/ part = "window" /\ Window!Init /\ Unused6
  \/ part = "generator" /\ Generator!Init /\ Unused10
  \/ part = "table" /\ Table!Init /\ Unused3

ArithmeticNext ==
  \/ part = "tiles" /\ Tiles!Next /\ UNCHANGED From6
  \/ part = "square" /\ Square!Next /\ UNCHANGED From6
  \/ part = "window" /\ Window!Next /\ UNCHANGED From6
  \/ part = "generator" /\ Generator!Next /\ UNCHANGED From10
  \/ part = "table" /\ Table!Next /\ UNCHANGED From3

-----------------------------------------------------------------------------
\* The tiles of the gradient-vector filters leave no gap; the grid of the
\* bounded program misses the world border by what TileGrid says, no more and
\* no less; the tiles of the unbounded program meet each phase of noise 0B
\* once.
TilesCover ==
  part = "tiles" =>
    /\ Tiles!InnerWorldCovered /\ Tiles!BorderStripMissed /\ Tiles!NearBorder
    /\ Tiles!EveryPhaseOnce

\* The threads of an input of KernelFilter2 sample no point twice, and in the
\* end a square around the input, or one colour of its checkerboard.
SquareCovered == part = "square" => Square!NoPointTwice /\ Square!SquareCovered

\* Each candidate of KernelFilterGradVecs1 reads its own six columns.
OwnWindow == part = "window" => Window!OwnWindow

\* The forks computed without a generator are those the generator makes, and
\* the y offset KernelFilterSeeds judges a seed by is the one of its noise.
ShortcutsExact == part = "generator" => Generator!ForksExact /\ Generator!YoOffsetExact

\* The table of init_noise stays a permutation, and nextInt prefers none of
\* the entries it can put next.
ShuffleFair == part = "table" => Table!TableIsPermutation /\ Table!DrawsUniform
=============================================================================

---------------------------- MODULE SampleSquare ----------------------------
(***************************************************************************)
(* Which points the threads of KernelFilter2::kernel sample for one input  *)
(* (gpu.cu): a square around it, or half of its points in a checkerboard   *)
(* when their number is an odd power of two, dealt out to at most          *)
(* threads_per_block threads, each of which goes down its column in steps. *)
(* Real sizes; coordinates are relative to the input.                      *)
(***************************************************************************)
EXTENDS Integers, FiniteSets

CONSTANTS
  Exponents,  \* log2 of T::samples
  PosRanges   \* values of T::pos_range * large_biomes_pos_mul

threads_per_block == 256

\* What the constants must satisfy.
SampleAssumption ==
  /\ Exponents \subseteq 5..16
  /\ PosRanges \subseteq Nat
  /\ \A e \in Exponents, r \in PosRanges : r % (2^((e + 1) \div 2) * 8) = 0

VARIABLES
  exponent,  \* log2(T::samples)
  pos_range, \* T::pos_range, of the build's biome size
  flipped,   \* T::flipped_sparse_samples
  i,         \* iterations of the sampling loop all threads have done
  sampled    \* points sampled so far

vars == <<exponent, pos_range, flipped, i, sampled>>

-----------------------------------------------------------------------------
samples == 2^exponent
samples_square_size == 2^((exponent + 1) \div 2)
samples_square_sparse == exponent % 2 = 1
pos_step == pos_range \div (4 * samples_square_size)
pos_offset == -((pos_step * (samples_square_size - 1)) \div 2)
threads_per_input == IF samples < threads_per_block THEN samples ELSE threads_per_block
loops == samples \div threads_per_input
\* The z_step of a thread that takes consecutive rows: a slip, not used.
ZStepOne == pos_step

z_step == pos_step * (samples_square_size \div loops)

\* (x_index & 1) ^ flipped.
Parity(x) == (x + (IF flipped THEN 1 ELSE 0)) % 2

\* The point thread pos_index samples in iteration n.
Point(pos_index, n) ==
  LET x_index == pos_index % samples_square_size
      row == pos_index \div samples_square_size
      z_index == IF samples_square_sparse THEN row * 2 + Parity(x_index) ELSE row
  IN  <<x_index * pos_step + pos_offset, z_index * pos_step + pos_offset + n * z_step>>

Init ==
  /\ exponent \in Exponents /\ pos_range \in PosRanges
  /\ flipped \in IF samples_square_sparse THEN BOOLEAN ELSE {FALSE}
  /\ i = 0 /\ sampled = {}

\* One iteration of the sampling loop, in all threads of the input.
Sample ==
  /\ i < loops /\ i' = i + 1
  /\ sampled' = sampled \cup {Point(p, i) : p \in 0..(threads_per_input - 1)}
  /\ UNCHANGED <<exponent, pos_range, flipped>>

Done == i = loops /\ UNCHANGED vars

Next == Sample \/ Done

Spec == Init /\ [][Next]_vars

-----------------------------------------------------------------------------
\* No point is sampled twice, so a count is a number of points.
NoPointTwice == Cardinality(sampled) = i * threads_per_input

\* In the end the points are those of a square grid with its centre at the
\* input, to half a step, or one colour of its checkerboard: min_count is a
\* share of the square.
SquareCovered ==
  i = loops =>
    LET Column(c) == (c * 2 - (samples_square_size - 1)) * pos_step
        all == {<<Column(c), Column(r)>> : c, r \in 0..(samples_square_size - 1)}
        doubled == {<<2 * p[1], 2 * p[2]>> : p \in sampled}
        colour(p) == (((p[1] - Column(0)) \div (2 * pos_step))
                       + ((p[2] - Column(0)) \div (2 * pos_step))) % 2
    IN  /\ doubled \subseteq all
        /\ IF samples_square_sparse
             THEN doubled = {p \in all : colour(p) = (IF flipped THEN 1 ELSE 0)}
             ELSE doubled = all
=============================================================================

------------------------------ MODULE BiomeTest ------------------------------
(***************************************************************************)
(* process() of cpu.cpp: the three tests of a candidate on the CPU.  First *)
(* monteCarloBiomes of cubiomes samples the range around the candidate     *)
(* until the Wilson interval of the share of deep ocean in it decides      *)
(* against the wanted coverage; then the search of IslandSearch, at two    *)
(* scales, looks for an island of at least min_size blocks.                *)
(*                                                                         *)
(* The Wilson bounds lo and hi of x successes in m samples are the roots p *)
(* of (x/m - p)^2 = Z2 p (1 - p) / m, so the comparisons of the code with  *)
(* lo and hi become comparisons of integers (FLT_EPSILON is left out).     *)
(* eval() only answers 0 or 1, and the range is too large for the buffer   *)
(* of monteCarloBiomes (n >= 4 wn): these branches are not modelled.       *)
(***************************************************************************)
EXTENDS Integers, FiniteSetsExt

CONSTANTS
  range,       \* side of the square around the candidate, in blocks
  Word,        \* number of values of an int32_t
  Z2,          \* square of the z-score
  wn,          \* samples wanted: z-score times the root of the number of cells
  MinSizes,    \* values of min_size
  Positions    \* coordinates of candidates

\* What the constants must satisfy.
TestAssumption ==
  /\ range \in Nat /\ range % 16 = 0 /\ range > 0
  /\ Z2 \in Nat \ {0} /\ wn \in Nat /\ wn * wn = Z2 * (range \div 4) * (range \div 4)
  /\ (range \div 4) * (range \div 4) >= 4 * wn
  /\ MinSizes \subseteq Nat /\ Positions \subseteq Int

VARIABLES
  min_size,
  input,    \* the candidate's x (z is treated alike)
  ocean,    \* which outcomes of eval the range holds
  pc,       \* "sample", "scale16", "scale4", "output"; "rejected", "none": no result
  m,        \* samples
  x,        \* successes
  score     \* area of the result, in blocks

vars == <<min_size, input, ocean, pc, m, x, score>>

-----------------------------------------------------------------------------
(***************************************************************************)
(* Faulty variants of the operations below, each with one plausible slip,  *)
(* to show that the properties can fail.  No specification uses them.      *)
(***************************************************************************)
\* The range starts at the candidate.
CornerAtCandidate(p, scale) == p \div scale

\* A range's cells are taken for lines of blocks.
BlocksOfCells(scale) == (range \div scale) * (range \div scale) * scale

-----------------------------------------------------------------------------
Wrap(v) == ((v + Word \div 2) % Word) - Word \div 2

\* Division of C.
Quotient(a, b) == IF a >= 0 THEN a \div b ELSE -((-a) \div b)

\* First coordinate and side of a range, in cells.
make_range(p, scale) == Quotient(Wrap(p - range \div 2), scale)
Side(scale) == range \div scale

\* Blocks in the range: sx * sz * scale * scale, as an int.
Blocks(scale) == Wrap(Side(scale) * Side(scale) * scale * scale)

min_area == (min_size * 9) \div 10

\* Greatest common divisors, by Euclid's algorithm.
Gcd[b \in 0..min_area] == [a \in Nat |-> IF b = 0 THEN a ELSE Gcd[a % b][b]]

\* The coverage min_area / Blocks(4), in lowest terms with d > 0.
fraction ==
  LET d == IF Blocks(4) < 0 THEN -Blocks(4) ELSE Blocks(4)
      a == IF Blocks(4) < 0 THEN -min_area ELSE min_area
      g == Gcd[min_area][d]
  IN  [a |-> IF a < 0 THEN -((-a) \div g) ELSE a \div g, d |-> d \div g]

cells == Side(4) * Side(4)

\* lo - 1/m > coverage.
LoAbove ==
  LET f == fraction
      a == f.a * m + f.d     \* coverage + 1/m is a / (d m)
      b == f.d * m
  IN  \/ a < 0
      \/ a < b /\ x * f.d > a
           /\ m * (x * f.d - a) * (x * f.d - a) > Z2 * a * (b - a)

\* hi + 1/m < coverage.
HiBelow ==
  LET f == fraction
      a == f.a * m - f.d     \* coverage - 1/m is a / (d m)
      b == f.d * m
  IN  /\ a >= 0 /\ x * f.d < a
      /\ m * (x * f.d - a) * (x * f.d - a) > Z2 * a * (b - a)

\* Samples of the interval whose width is wanted.
Wanted == wn

\* hi - lo < whi - wlo.  The wanted width is the root of w / ...: it is not a
\* number, and the comparison false, when w is negative.
Narrow ==
  LET f == fraction
      w == 4 * Wanted * f.a * (f.d - f.a) + Z2 * f.d * f.d
  IN  /\ w >= 0
      /\ (4 * x * (m - x) + Z2 * m) * f.d * f.d * (Wanted + Z2) * (Wanted + Z2)
           < w * m * (m + Z2) * (m + Z2)

\* x / m > coverage.
ShareAbove == x * fraction.d > fraction.a * m

-----------------------------------------------------------------------------
Init ==
  /\ min_size \in MinSizes /\ input \in Positions
  /\ ocean \in {{0}, {1}, {0, 1}}
  /\ pc = "sample" /\ m = 0 /\ x = 0 /\ score = 0

\* One round of the loop of monteCarloBiomes, for as long as no verdict.
Decided == m > 0 /\ (LoAbove \/ HiBelow \/ Narrow)

Sample ==
  /\ pc = "sample" /\ ~Decided /\ m < cells
  /\ m' = m + 1 /\ \E status \in ocean : x' = x + status
  /\ UNCHANGED <<min_size, input, ocean, pc, score>>

\* The value returned, in the order of the checks; 1 when all samples are used.
Accepted == LoAbove \/ (~HiBelow /\ (Narrow => ShareAbove))

MonteCarloEnds ==
  /\ pc = "sample" /\ (Decided \/ m = cells)
  /\ pc' = IF Accepted THEN "scale16" ELSE "rejected"
  /\ UNCHANGED <<min_size, input, ocean, m, x, score>>

\* Cells an island must have.
minsiz(scale) == Max({1, min_size \div (scale * scale)})

\* Blocks of an island of siz cells.
Area(siz, scale) == siz * (scale * scale)

\* getBiomeCentersOpt finds an island of siz cells, or none.
Centers(here, scale, there) ==
  /\ pc = here
  /\ \/ pc' = "none" /\ UNCHANGED score
     \/ \E siz \in minsiz(scale)..(Side(scale) * Side(scale)) :
          /\ pc' = there
          /\ score' = IF there = "output" THEN Wrap(Area(siz, scale)) ELSE score
  /\ UNCHANGED <<min_size, input, ocean, m, x>>

TestScale16 == Centers("scale16", 16, "scale4")
TestScale4 == Centers("scale4", 4, "output")

Done == pc \in {"output", "rejected", "none"} /\ UNCHANGED vars

Next == Sample \/ MonteCarloEnds \/ TestScale16 \/ TestScale4 \/ Done

Spec == Init /\ [][Next]_vars

-----------------------------------------------------------------------------
\* Types; a result has an area.
TypeOK ==
  /\ min_size \in MinSizes /\ input \in Positions
  /\ pc \in {"sample", "scale16", "scale4", "output", "rejected", "none"}
  /\ m \in 0..cells /\ x \in 0..m
  /\ score \in 0..(range * range)
  /\ pc = "output" => score > 0

\* All three exits of the loop of monteCarloBiomes agree on one comparison, the
\* strict one of its last exit: it accepts only if the share of successes among
\* the samples exceeds the coverage asked for, nine tenths of min_size in
\* range * range blocks, and rejects only if it does not.  In particular a
\* range without any deep ocean is rejected.
VerdictSound ==
  /\ pc \in {"scale16", "scale4", "output", "none"} => x * range * range > min_area * m
  /\ pc = "rejected" => x * range * range <= min_area * m

\* What finders.h says of monteCarloBiomes: @coverage is the "minimum coverage",
\* checked for "at least a given proportion"; so a range is rejected only if
\* its share is smaller.  It does not hold where the two are equal.
CoverageReachedAccepted ==
  pc = "rejected" => x * range * range < min_area * m

\* Sampling ends with a verdict before the loop has run as often as there are
\* cells; the value returned is never the one it was initialised with.
VerdictReached == pc = "sample" /\ m = cells => Decided

\* The score of a result is the wanted size up to one cell of rounding.
ScoreLargeEnough == pc = "output" => score + 16 > min_size

\* Wherever the candidate is, the ranges of both scales have it in the middle
\* to within a cell, although C rounds towards the origin.
CandidateCentred ==
  \A scale \in {4, 16} :
    LET first == make_range(input, scale) * scale
        centre == first + range \div 2
    IN  centre - input \in (-scale + 1)..(scale - 1)
=============================================================================

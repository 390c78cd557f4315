------------------------------ MODULE TileGrid ------------------------------
(***************************************************************************)
(* Where in the world a candidate of a seed can lie (gpu.cu): the noise 0A *)
(* repeats itself, so KernelFilterGradVecs1 tries the positions of one     *)
(* period, and KernelFilterGradVecs2 lays a grid of tiles, one period      *)
(* wide, around each; filter_2a and filter_2b move it a little.            *)
(*                                                                         *)
(* One coordinate; the other is handled alike.  Positions are in units of  *)
(* four blocks until Collect.  The real constants are small enough for     *)
(* TLC; floating-point rounding is left out, the offset of the noise is    *)
(* taken in multiples of one position.                                     *)
(***************************************************************************)
EXTENDS Integers

CONSTANTS
  Offsets,   \* values of noise.xo tried, in 1/512 of a lattice cell
  Columns    \* values of nx + candidate tried, from 0..255

\* What the constants must satisfy.
GridAssumption ==
  /\ Offsets \subseteq Nat /\ \A o \in Offsets : o < 256 * 512
  /\ Columns \subseteq 0..255

\* The world border, in blocks.
WorldBorder == 30000000

VARIABLES
  large_biomes, unbound,  \* how the program was compiled
  xo,                     \* offset of the seed's noise 0A
  stage,                  \* last kernel the candidate passed
  x                       \* its position

vars == <<large_biomes, unbound, xo, stage, x>>

-----------------------------------------------------------------------------
(***************************************************************************)
(* Faulty variants of the operations below, each with one plausible slip,  *)
(* to show that the properties can fail.  No specification uses them.      *)
(***************************************************************************)
\* An even, smaller width.
GridWidthShort == IF unbound THEN 330 ELSE IF large_biomes THEN 28 ELSE 114

-----------------------------------------------------------------------------
large_biomes_pos_mul == IF large_biomes THEN 4 ELSE 1

\* Side of a lattice cell of noise 0A, and its period.
cell_size == 512 * large_biomes_pos_mul
cell_size_0A == cell_size * 256

grid_width == IF unbound THEN 331 ELSE IF large_biomes THEN 29 ELSE 115
grid_half == grid_width \div 2

\* (2.5f - xo) * cell_size.
x_center == ((5 * cell_size) \div 2) - xo * large_biomes_pos_mul

tile_dx(tx) == (tx - grid_half) * cell_size_0A

\* How far filter_2a and filter_2b can move the centre: to the outermost
\* sample, when all low samples lie there.
Reach(k) ==
  LET size == IF k = "filter_2a" THEN 16 ELSE 32
      pos_step == (2 * 1024 * large_biomes_pos_mul) \div size
  IN  (pos_step * (size - 1)) \div 2

Init ==
  /\ large_biomes \in BOOLEAN /\ unbound \in BOOLEAN
  /\ xo \in Offsets
  /\ stage = "init_seeds" /\ x = 0

GradVecs1(n) ==
  /\ stage = "init_seeds" /\ stage' = "filter_gradvecs_1"
  /\ x' = x_center + n * cell_size
  /\ UNCHANGED <<large_biomes, unbound, xo>>

GradVecs2(tx) ==
  /\ stage = "filter_gradvecs_1" /\ stage' = "filter_gradvecs_2"
  /\ x' = x + tile_dx(tx)
  /\ UNCHANGED <<large_biomes, unbound, xo>>

MoveCenter(k, d) ==
  /\ \/ k = "filter_2a" /\ stage = "filter_gradvecs_2"
     \/ k = "filter_2b" /\ stage = "filter_2a"
  /\ stage' = k
  /\ x' = x + d
  /\ UNCHANGED <<large_biomes, unbound, xo>>

\* outputs.queue.push({seed, result.x * 4, ...}).
Collect ==
  /\ stage = "filter_2b" /\ stage' = "pushed"
  /\ x' = x * 4
  /\ UNCHANGED <<large_biomes, unbound, xo>>

Done == stage = "pushed" /\ UNCHANGED vars

Next ==
  \/ \E n \in Columns : GradVecs1(n)
  \/ \E tx \in 0..(grid_width - 1) : GradVecs2(tx)
  \/ \E k \in {"filter_2a", "filter_2b"} : \E d \in {-Reach(k), 0, Reach(k)} :
       MoveCenter(k, d)
  \/ Collect \/ Done

Spec == Init /\ [][Next]_vars

-----------------------------------------------------------------------------
(***************************************************************************)
(* What the grid covers.                                                   *)
(***************************************************************************)
Abs(v) == IF v < 0 THEN -v ELSE v

\* Some column of some tile lies within half a cell of world position w.
Reached(w) ==
  \E tx \in 0..(grid_width - 1) :
    (w - tile_dx(tx) - x_center + (cell_size \div 2)) \div cell_size \in 0..255

\* Places to look at between -limit and limit, and both ends.
Places(limit) == {limit, -limit} \cup {(limit \div 40) * n : n \in -40..40}

\* How far the bounded grid is from the bounded world, in blocks.  It is an odd
\* number of periods around a position that depends on the seed, so at one end
\* it can stop this far before the border,
Unsearched == IF large_biomes THEN 656256 ELSE 119680

\* and at the other a candidate can lie this far beyond it, the moves of
\* filter_2a and filter_2b included.
Overshoot == IF large_biomes THEN 1500800 ELSE 419584

\* Whatever the offset of the noise, the tiles of KernelFilterGradVecs2 leave
\* no gap, and all that the bounded program leaves out lies within Unsearched
\* blocks of the world border.
InnerWorldCovered ==
  stage = "init_seeds" /\ ~unbound =>
    \A w \in Places((WorldBorder - Unsearched) \div 4) : Reached(w)

\* The comment at grid_width says "checking full bounded world".  It is not
\* so: for a noise of offset 0 the tiles end Unsearched blocks before the
\* border, and no place beyond is looked at.
BorderStripMissed ==
  stage = "init_seeds" /\ ~unbound /\ xo = 0 =>
    LET edge == (WorldBorder - Unsearched) \div 4
    IN  Reached(-edge) /\ \A w \in {edge + 1, WorldBorder \div 4} : ~Reached(-w)

\* A candidate the bounded program pushes lies at most Overshoot blocks beyond
\* the border.
NearBorder ==
  stage = "pushed" /\ ~unbound => Abs(x) <= WorldBorder + Overshoot

\* What the README of the program says of the default, UNBOUND=0: it "keeps it
\* within the world border".  It does not hold, by up to Overshoot.
WithinBorder ==
  stage = "pushed" /\ ~unbound => Abs(x) <= WorldBorder

\* Noise 0B is stretched by 337 / 331 against 0A, so n tiles shift it by
\* n * 337 / 331 of its period.  The tiles of the unbounded program meet each
\* of the 331 phases exactly once: the world beyond repeats one of them.
EveryPhaseOnce ==
  stage = "init_seeds" /\ unbound =>
    \A phase \in 0..330 :
      \E tx \in 0..(grid_width - 1) :
        /\ ((tx - grid_half) * 337) % 331 = phase
        /\ \A other \in 0..(grid_width - 1) :
             ((other - grid_half) * 337) % 331 = phase => other = tx
=============================================================================

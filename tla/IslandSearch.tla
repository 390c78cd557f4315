---------------------------- MODULE IslandSearch ----------------------------
(***************************************************************************)
(* getBiomeCentersOpt and floodFillGen of cubiomes.c: the search for a     *)
(* large enough mushroom island in a range of cells.  Cells of a coarse    *)
(* grid are candidates when their climate is within the biome's limits;    *)
(* from each candidate a flood fill counts the mushroom cells it reaches,  *)
(* crossing at most tol - 1 other cells in a row.  Cells keep their mark   *)
(* from one fill to the next.                                              *)
(*                                                                         *)
(* What the generator says of a cell is left open (`biome', `in_limits').  *)
(* The version is MC_NEWEST, nmax is 1 and there is no stop flag, as       *)
(* cubiomes_test_biome_centers calls it; the sums that give the centre's   *)
(* coordinates are left out.                                               *)
(***************************************************************************)
EXTENDS Integers, Sequences, FiniteSets

CONSTANTS
  sx, sz,     \* size of the range
  Tolerances, \* values of tol
  MinSizes,   \* values of minsiz
  Limits      \* sets of cells whose climate is within the limits

\* What the constants must satisfy.
RangeAssumption ==
  /\ sx \in Nat \ {0} /\ sz \in Nat \ {0}
  /\ Tolerances \subseteq Nat \ {0} /\ MinSizes \subseteq Nat \ {0}

Cells == (0..(sx - 1)) \X (0..(sz - 1))
NoCell == <<-1, -1>>

VARIABLES
  biome,      \* cells where getBiomeAt says mushroom_fields
  in_limits,  \* cells whose climate parameters are within the biome's limits
  tol, minsiz,
  ids,        \* cell -> "unknown" (-1), "rejected" (-2), "visited" (INT_MAX)
  pc,         \* "filter", "scan", "fill", "end"
  cell,       \* candidate of the scan
  queue,      \* stack of the fill
  n,          \* mushroom cells the fill has counted
  siz,        \* area of the island found, 0 if none was
  counted     \* history: the cells the fill has counted

inputs == <<biome, in_limits, tol, minsiz>>
vars == <<inputs, ids, pc, cell, queue, n, siz, counted>>

-----------------------------------------------------------------------------
(***************************************************************************)
(* Faulty variants of the operations below, each with one plausible slip,  *)
(* to show that the properties can fail.  No specification uses them.      *)
(***************************************************************************)
\* The step is not halved.
StepWhole == 1 + CHOOSE k \in 0..minsiz : k * k <= minsiz /\ (k + 1) * (k + 1) > minsiz

\* The end of a row leads to its beginning.
AfterSameRow(c) ==
  LET s == 1 + CHOOSE k \in 0..minsiz : 4 * k * k <= minsiz /\ 4 * (k + 1) * (k + 1) > minsiz
  IN  IF c[1] + s < sx THEN <<c[1] + s, c[2]>>
      ELSE IF c[2] + s < sz THEN <<0, c[2]>>
      ELSE NoCell

\* Every neighbour is put on the stack.
UnvisitedAny(c) == TRUE

\* The last column is out of bounds.
InRangeInner(c) == c \in Cells /\ c[1] < sx - 1

-----------------------------------------------------------------------------
\* 1 + floor(sqrt(minsiz) * 0.5).
step == 1 + CHOOSE k \in 0..minsiz : 4 * k * k <= minsiz /\ 4 * (k + 1) * (k + 1) > minsiz

OnGrid(c) == c[1] % step = 0 /\ c[2] % step = 0

\* The cell the scan looks at after c: along a row, then the next row.
After(c) ==
  IF c[1] + step < sx THEN <<c[1] + step, c[2]>>
  ELSE IF c[2] + step < sz THEN <<0, c[2] + step>>
  ELSE NoCell

Init ==
  /\ biome \in SUBSET Cells /\ in_limits \in Limits
  /\ tol \in Tolerances /\ minsiz \in MinSizes
  /\ ids = [c \in Cells |-> "unknown"]
  /\ pc = "filter" /\ cell = <<0, 0>>
  /\ queue = << >> /\ n = 0 /\ siz = 0 /\ counted = {}

\* The first pass: grid cells whose climate is out of the limits.
Filter ==
  /\ pc = "filter" /\ pc' = "scan"
  /\ ids' = [c \in Cells |-> IF OnGrid(c) /\ c \notin in_limits THEN "rejected" ELSE ids[c]]
  /\ UNCHANGED <<inputs, cell, queue, n, siz, counted>>

\* The second pass goes on, or ends.
Advance ==
  /\ cell' = IF After(cell) = NoCell THEN cell ELSE After(cell)
  /\ pc' = IF After(cell) = NoCell THEN "end" ELSE "scan"

Skip ==
  /\ pc = "scan" /\ ids[cell] # "unknown"
  /\ Advance
  /\ UNCHANGED <<inputs, ids, queue, n, siz, counted>>

StartFill ==
  /\ pc = "scan" /\ ids[cell] = "unknown" /\ pc' = "fill"
  /\ queue' = <<[c |-> cell, d |-> 0]>>
  /\ n' = 0 /\ counted' = {}
  /\ UNCHANGED <<inputs, ids, cell, siz>>

AlreadyVisited(c) == ids[c] = "visited"

\* Length of the run of other cells that ends at c.
Distance(c, d) == IF c \in biome THEN 0 ELSE d + 1

TooFar(d) == d >= tol

Up(c) == <<c[1], c[2] - 1>>
Down(c) == <<c[1], c[2] + 1>>
Left(c) == <<c[1] - 1, c[2]>>
Right(c) == <<c[1] + 1, c[2]>>

InRange(c) == c \in Cells

Unvisited(c) == ids[c] # "visited"

\* A neighbour is put on the stack if it is in the range and not marked.
Open(c) == IF InRange(c) /\ Unvisited(c) THEN <<c>> ELSE << >>

Neighbours(c) == Open(Up(c)) \o Open(Down(c)) \o Open(Left(c)) \o Open(Right(c))

\* One round of the loop of floodFillGen: take the last entry.
Fill ==
  LET e == queue[Len(queue)]
      rest == SubSeq(queue, 1, Len(queue) - 1)
      d == Distance(e.c, e.d)
      next == Neighbours(e.c)
  IN  /\ pc = "fill" /\ queue # << >>
      /\ IF AlreadyVisited(e.c)
           THEN queue' = rest /\ UNCHANGED <<ids, n, counted>>
           ELSE /\ ids' = [ids EXCEPT ![e.c] = "visited"]
                /\ n' = IF e.c \in biome THEN n + 1 ELSE n
                /\ counted' = IF e.c \in biome THEN counted \cup {e.c} ELSE counted
                /\ queue' = IF TooFar(d) THEN rest
                     ELSE rest \o [k \in DOMAIN next |-> [c |-> next[k], d |-> d]]
      /\ UNCHANGED <<inputs, pc, cell, siz>>

\* The fill is over: the first large enough area ends the search.
EndFill ==
  /\ pc = "fill" /\ queue = << >>
  /\ IF n >= minsiz THEN siz' = n /\ pc' = "end" /\ UNCHANGED cell
                    ELSE UNCHANGED siz /\ Advance
  /\ UNCHANGED <<inputs, ids, queue, n, counted>>

Ended == pc = "end"
Done == Ended /\ UNCHANGED vars

Next == Filter \/ Skip \/ StartFill \/ Fill \/ EndFill \/ Done

Spec == Init /\ [][Next]_vars /\ WF_vars(Next)

-----------------------------------------------------------------------------
(***************************************************************************)
(* What the search promises.                                               *)
(***************************************************************************)
Adjacent(a, b) ==
  \/ a[1] = b[1] /\ a[2] - b[2] \in {-1, 1}
  \/ a[2] = b[2] /\ a[1] - b[1] \in {-1, 1}

\* The connected mushroom cells around one.
Island(c) ==
  LET W[k \in 0..(sx * sz)] ==
        IF k = 0 THEN {c}
        ELSE LET w == W[k - 1]
             IN  w \cup {b \in biome : \E a \in w : Adjacent(a, b)}
  IN  W[sx * sz]

\* The cells a walk from c reaches that meets fewer than tol other cells in a
\* row, with the length of the last such run.
Walks(c) ==
  LET Run(b, d) == IF b \in biome THEN 0 ELSE d + 1
      W[k \in 0..(sx * sz)] ==
        IF k = 0 THEN {<<c, Run(c, 0)>>}
        ELSE LET w == W[k - 1]
             IN  w \cup {<<e[1], Run(e[1], e[2])>> : e \in
                           {e \in Cells \X (0..(tol - 1)) :
                              \E a \in Cells : <<a, e[2]>> \in w /\ Adjacent(a, e[1])}}
  IN  W[sx * sz]

Reachable(c) == {e[1] : e \in Walks(c)}

\* Types; a fill counts no more cells than there are.
TypeOK ==
  /\ biome \subseteq Cells /\ tol \in Tolerances /\ minsiz \in MinSizes
  /\ ids \in [Cells -> {"unknown", "rejected", "visited"}]
  /\ pc \in {"filter", "scan", "fill", "end"} /\ cell \in Cells
  /\ queue \in Seq([c : Cells, d : 0..tol])
  /\ n \in 0..(sx * sz) /\ siz \in 0..(sx * sz)
  /\ counted \subseteq biome

\* The stack is allocated with one entry per cell; although a cell can be on
\* it several times, it never needs more.
StackFits == Len(queue) <= sx * sz

\* An island is never split between two fills: when none is under way, its
\* cells are all marked or all unmarked.
IslandsWhole ==
  pc # "fill" \/ queue = << >> =>
    \A c \in biome : ids[c] = "visited" => \A b \in Island(c) : ids[b] = "visited"

\* A fill counts every cell of the islands it touches once, and nothing
\* further than the tolerance allows; with tol = 1 it counts the island of
\* its first cell.
AreaOfIslands ==
  pc = "fill" /\ queue = << >> =>
    /\ n = Cardinality(counted)
    /\ \A c \in counted : Island(c) \subseteq counted
    /\ counted \subseteq Reachable(cell)
    /\ tol = 1 => counted = IF cell \in biome THEN Island(cell) ELSE {}

\* If nothing is found, there is no island of minsiz cells that holds a square
\* of side more than half the root of minsiz with its climate within the
\* limits: the grid is fine enough for a compact island, and no earlier fill
\* took part of it away.
NoLargeIslandMissed ==
  pc = "end" /\ siz = 0 =>
    \A c \in biome, k \in {k \in 1..sx : 4 * k * k > minsiz} :
      LET square == {b \in Cells : b[1] - c[1] \in 0..(k - 1) /\ b[2] - c[2] \in 0..(k - 1)}
      IN  ~ /\ Cardinality(square) = k * k
            /\ square \subseteq Island(c) \cap in_limits
            /\ Cardinality(Island(c)) >= minsiz
=============================================================================

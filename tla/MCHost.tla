------------------------------- MODULE MCHost -------------------------------
(***************************************************************************)
(* Small instances of the sequential code on the host: the command line    *)
(* and the tests a CPU thread makes of a candidate; MCParts runs one.      *)
(***************************************************************************)
EXTENDS Integers, Sequences, MCState

CONSTANT Bad  \* no number

AllCells == (0..3) \X (0..2)

\* Every pattern of mushroom cells; the climate fits everywhere, or everywhere
\* but in the first cell.
Search == INSTANCE IslandSearch WITH
  sx <- 4, sz <- 3, Tolerances <- {1, 2}, MinSizes <- {4},
  Limits <- {AllCells, AllCells \ {<<0, 0>>}},
  biome <- v1, in_limits <- v2, tol <- v3, minsiz <- v4, ids <- v5, pc <- v6,
  cell <- v7, queue <- v8, n <- v9, siz <- v10, counted <- v11

\* Positions of both signs around the middle and the ends of cells of 16 blocks;
\* the number of blocks fits a word.  The coverage is 0, 1/16, 3/4,
\* 1 and, for a size that no range has, 9/8.
Test == INSTANCE BiomeTest WITH
  range <- 32, Word <- 26624, Z2 <- 4, wn <- 16, MinSizes <- {0, 72, 854, 1138, 1280},
  Positions <- {-17, -16, -15, -9, -8, -7, -1, 0, 1, 7, 8, 9, 15, 16, 17},
  min_size <- v1, input <- v2, ocean <- v3, pc <- v4, m <- v5, x <- v6, score <- v7

OptionWords ==
  {"--device", "--threads", "--client", "--server", "--output", "--start", "--size"}
SomeWords == OptionWords \cup {"", "0", "0,1", "1,1", "-3", "2", "2000", "h:1"}

Lists == [w \in SomeWords |->
  CASE w = "" -> << >> [] w = "0" -> <<0>> [] w = "0,1" -> <<0, 1>>
    [] w = "1,1" -> <<1, 1>> [] w = "-3" -> <<-3>>
    [] w = "2" -> <<2>> [] w = "2000" -> <<2000>> [] OTHER -> Bad]

Numbers == [w \in SomeWords |->
  CASE w = "0" -> 0 [] w = "-3" -> -3 [] w = "2" -> 2 [] w = "2000" -> 2000 [] OTHER -> Bad]

\* Every command line of up to three options, in every build.
Line == INSTANCE Args WITH
  Words <- SomeWords, ListOf <- Lists, NumberOf <- Numbers, Addresses <- {"h:1"},
  MaxOptions <- 3,
  build <- v1, pc <- v2, arg <- v3, devices <- v4, opts <- v5, given <- v6

ASSUME HostAssumption ==
  Search!RangeAssumption /\ Test!TestAssumption /\ Line!WordAssumption

HostInit ==
  \/ part = "search" /\ Search!Init
  \/ part = "test" /\ Test!Init /\ Unused8
  \/ part = "line" /\ Line!Init /\ Unused7

SearchNext == part = "search" /\ Search!Next

HostNext ==
  \/ SearchNext
  \/ part = "test" /\ Test!Next /\ UNCHANGED From8
  \/ part = "line" /\ Line!Next /\ UNCHANGED From7

-----------------------------------------------------------------------------
\* The type invariants, with the bounds the code relies on.
HostTypeOK ==
  /\ part = "search" => Search!TypeOK /\ Search!StackFits
  /\ part = "test" => Test!TypeOK /\ Test!ScoreLargeEnough

\* No island is split between two fills, and a fill counts the islands it
\* touches, each cell once.
FillsExact == part = "search" => Search!IslandsWhole /\ Search!AreaOfIslands

\* A search that finds nothing has missed no compact island of minsiz cells.
NoLargeIslandMissed == part = "search" => Search!NoLargeIslandMissed

\* Every search of getBiomeCentersOpt ends.
SearchEnds == part = "search" ~> (part = "search" /\ Search!Ended)

\* monteCarloBiomes comes to a verdict before its loop runs out, and accepts
\* exactly when the share of successes is large enough.
VerdictSound == part = "test" => Test!VerdictSound /\ Test!VerdictReached

\* The ranges of both scales have the candidate in the middle.
CandidateCentred == part = "test" => Test!CandidateCentred

\* A process that starts has a source and one drain for candidates, and no
\* two GpuThreads on one device.
SourceAndDrain == part = "line" => Line!SourceAndDrain /\ Line!DevicesDistinct

\* No option of a command line that starts is without effect.
EveryOptionUsed == part = "line" => Line!EveryOptionUsed
=============================================================================

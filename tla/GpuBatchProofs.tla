--------------------------- MODULE GpuBatchProofs ---------------------------
(***************************************************************************)
(* Proofs about GpuBatch, for any number of seeds, positions and tiles,    *)
(* any buffer sizes, any order of the work items and any verdicts of the   *)
(* filters.  The first part: the octaves the filters sample and the seeds a *)
(* batch pushes are its own, whatever filter_2_0b overwrote.  The second:  *)
(* what it pushes are the survivors, each once, unless a buffer overflowed *)
(* or filter_2_0b overwrote an input that had not been read to the end.    *)
(***************************************************************************)
EXTENDS GpuBatch, FiniteSetTheorems, TLAPS

-----------------------------------------------------------------------------
(***************************************************************************)
(* The inductive invariant.                                                *)
(***************************************************************************)
\* Entry s: the stage that was written last, once kernel s runs; the stage it
\* reads.  The last entries stand for the copy to the host.
Out ==
  <<"filter_seeds", "filter_seeds", "filter_gradvecs_1", "filter_2_0a",
    "filter_gradvecs_2", "filter_2_0b", "filter_2_0b", "filter_2a", "filter_2a",
    "filter_2b", "filter_2b", "filter_2c", "filter_2c", "filter_2d", "filter_2d">>
In ==
  <<"filter_seeds", "filter_seeds", "filter_seeds", "filter_gradvecs_1",
    "filter_2_0a", "filter_gradvecs_2", "filter_2_0b", "filter_2_0b", "filter_2a",
    "filter_2a", "filter_2b", "filter_2b", "filter_2c", "filter_2c", "filter_2d">>

FilterSteps == {3, 4, 5, 6, 8, 10, 12, 14}
LateSteps == {7, 9, 11, 13}

\* Late initialisations that have run before kernel s.
Lates(s) == IF s <= 7 THEN 0 ELSE IF s <= 9 THEN 1 ELSE IF s <= 11 THEN 2
            ELSE IF s <= 13 THEN 3 ELSE 4

\* The stages of kernels that have not started have no outputs.
NotStarted ==
  step >= 1 => \A s \in 1..Last : step < s /\ Kernels[s] \in Stages => len[Kernels[s]] = 0

\* Work items belong to inputs that exist.
ItemsInv ==
  /\ step = 1 => todo \subseteq (0..(BatchSeeds - 1)) \X {0}
  /\ step = 3 => todo \subseteq (0..(len["filter_seeds"] - 1)) \X Centers
  /\ step = 5 => todo \subseteq (0..(len["filter_2_0a"] - 1)) \X Tiles
  /\ step \in (FilterSteps \ {3, 5}) \cup LateSteps =>
       todo \subseteq (0..(len[In[step]] - 1)) \X {0}
  /\ step \notin FilterSteps \cup LateSteps \cup {1} => todo = {}
  /\ step \notin {6} \cup LateSteps => held = {}

\* The batch is one that Claim can start.
StartInv ==
  \E m \in 0..MaxBatches :
    start_seed = (m - 1) * BatchSeeds /\ (m = 0 => step = 0 /\ pushed = << >>)

\* A torn input is a disturbance.
TornInv == ~clobbered => \A h \in held : ~h.torn

BaseInv == TypeOK /\ NotStarted /\ ItemsInv /\ StartInv /\ TornInv

\* buffer_seeds holds seeds of the batch, each once.
SeedsInv ==
  /\ \A m \in 0..(len["filter_seeds"] - 1) :
       /\ buffer_seeds[m] \in start_seed..(start_seed + BatchSeeds - 1)
       /\ step = 1 => <<buffer_seeds[m] - start_seed, 0>> \notin todo
  /\ \A m, n \in 0..(len["filter_seeds"] - 1) :
       m # n => buffer_seeds[m] # buffer_seeds[n]

\* The octaves initialised so far are those of the seed, and the flag says so.
Live(i) ==
  /\ i < len["filter_seeds"]
  /\ \A g \in 0..Lates(step) : results[i][g] = buffer_seeds[i]
  /\ Lates(step) > 0 /\ step \notin LateSteps => init_flags[i] = Lates(step)

\* A cell of stage k: before filter_gradvecs_2 a cell has no tile.
CellOf(k, cell) ==
  /\ Live(cell.seed_index)
  /\ cell.tile = NoTile <=> k \in {"filter_gradvecs_1", "filter_2_0a"}

NoiseInv == step >= 3 => \A m \in 0..(len["filter_seeds"] - 1) : results[m][0] = buffer_seeds[m]

InputInv ==
  /\ step >= 4 => \A m \in 0..(len[In[step]] - 1) : CellOf(In[step], Entry(In[step], m))
  /\ \A h \in held : CellOf("filter_gradvecs_2", h.cell)

OutputInv ==
  step >= 3 => \A m \in 0..(len[Out[step]] - 1) : CellOf(Out[step], Entry(Out[step], m))

\* In the n-th late initialisation the flag of an input's seed is still down and
\* the input's own thread has yet to try it, or it is up, and the octaves are
\* there or a thread is about to write them.
Reached(n, i) ==
  /\ init_flags[i] = n
  /\ results[i][n] = buffer_seeds[i] \/ \E h \in held : h.cell.seed_index = i
LateInv ==
  step \in LateSteps =>
    \A m \in 0..(len[In[step]] - 1) :
      \/ init_flags[Entry(In[step], m).seed_index] = Lates(step) /\ <<m, 0>> \in todo
      \/ Reached(Lates(step) + 1, Entry(In[step], m).seed_index)

\* A thread that goes on has raised the flag, and no other one has.
FlagInv ==
  step \in LateSteps =>
    /\ \A h \in held : init_flags[h.cell.seed_index] = Lates(step) + 1
    /\ \A g, h \in held : g.cell.seed_index = h.cell.seed_index => g = h

\* The seeds a batch pushed are its own.
OwnSeeds ==
  step = 0 /\ ~Overflowed =>
    \A n \in 1..Len(pushed) :
      /\ pushed[n][1] \in start_seed..(start_seed + BatchSeeds - 1)
      /\ \E m \in 0..(len["filter_seeds"] - 1) : pushed[n][1] = buffer_seeds[m]

BatchInv ==
  /\ step \in 1..(Last + 1) /\ ~Overflowed =>
       SeedsInv /\ NoiseInv /\ InputInv /\ OutputInv /\ LateInv
  /\ FlagInv /\ OwnSeeds

IInv == BaseInv /\ BatchInv

\* The cell a work item is about.
ItemCell(item) ==
  IF step = 3 THEN [seed_index |-> item[1], center |-> item[2], tile |-> NoTile]
  ELSE IF step = 5 THEN TileCell(Entry(In[5], item[1]), item[2])
  ELSE Entry(In[step], item[1])

-----------------------------------------------------------------------------
(***************************************************************************)
(* The chain of kernels, written out.                                      *)
(***************************************************************************)
\* The stages that have an output buffer.
LEMMA StagesTable ==
  Stages = {"filter_seeds", "filter_gradvecs_1", "filter_2_0a", "filter_gradvecs_2",
            "filter_2_0b", "filter_2a", "filter_2b", "filter_2c", "filter_2d"}
  BY DEF Stages, Filters

\* The kernels of a batch and their places on the stream.
LEMMA KernelsTable ==
  /\ Last = 14
  /\ Kernels[1] = "filter_seeds" /\ Kernels[2] = "init_seeds"
  /\ Kernels[3] = "filter_gradvecs_1" /\ Kernels[4] = "filter_2_0a"
  /\ Kernels[5] = "filter_gradvecs_2" /\ Kernels[6] = "filter_2_0b"
  /\ Kernels[7] = "init_seeds_late_1" /\ Kernels[8] = "filter_2a"
  /\ Kernels[9] = "init_seeds_late_2" /\ Kernels[10] = "filter_2b"
  /\ Kernels[11] = "init_seeds_late_3" /\ Kernels[12] = "filter_2c"
  /\ Kernels[13] = "init_seeds_late_4" /\ Kernels[14] = "filter_2d"
  BY DEF Kernels, Last

\* Which stage a kernel reads.
LEMMA InputTable ==
  /\ InputOf("filter_gradvecs_1") = "filter_seeds"
  /\ InputOf("init_seeds_late_1") = "filter_2_0b"
  /\ InputOf("init_seeds_late_2") = "filter_2a"
  /\ InputOf("init_seeds_late_3") = "filter_2b"
  /\ InputOf("init_seeds_late_4") = "filter_2c"
  /\ InputOf("filter_2_0a") = "filter_gradvecs_1"
  /\ InputOf("filter_gradvecs_2") = "filter_2_0a"
  /\ InputOf("filter_2_0b") = "filter_gradvecs_2"
  /\ InputOf("filter_2a") = "filter_2_0b"
  /\ InputOf("filter_2b") = "filter_2a"
  /\ InputOf("filter_2c") = "filter_2b"
  /\ InputOf("filter_2d") = "filter_2c"
<1>1. \A n \in 1..Len(Filters) :
        /\ Filters[n] = "filter_2_0a" <=> n = 2
        /\ Filters[n] = "filter_gradvecs_2" <=> n = 3
        /\ Filters[n] = "filter_2_0b" <=> n = 4
        /\ Filters[n] = "filter_2a" <=> n = 5
        /\ Filters[n] = "filter_2b" <=> n = 6
        /\ Filters[n] = "filter_2c" <=> n = 7
        /\ Filters[n] = "filter_2d" <=> n = 8
  BY DEF Filters
<1>2. 1..Len(Filters) = 1..8 BY DEF Filters
<1>5. /\ Filters[1] = "filter_gradvecs_1" /\ Filters[2] = "filter_2_0a"
      /\ Filters[3] = "filter_gradvecs_2" /\ Filters[4] = "filter_2_0b"
      /\ Filters[5] = "filter_2a" /\ Filters[6] = "filter_2b" /\ Filters[7] = "filter_2c"
  BY DEF Filters
<1>6. /\ InputOf("filter_gradvecs_1") = "filter_seeds"
      /\ InputOf("init_seeds_late_1") = "filter_2_0b"
      /\ InputOf("init_seeds_late_2") = "filter_2a"
      /\ InputOf("init_seeds_late_3") = "filter_2b"
      /\ InputOf("init_seeds_late_4") = "filter_2c"
  BY DEF InputOf
<1>7. ASSUME NEW k \in {"filter_2_0a", "filter_gradvecs_2", "filter_2_0b", "filter_2a",
                       "filter_2b", "filter_2c", "filter_2d"},
             NEW m \in 1..Len(Filters),
             \A n \in 1..Len(Filters) : Filters[n] = k <=> n = m
      PROVE  InputOf(k) = Filters[m - 1]
  <2> DEFINE place == CHOOSE n \in 1..Len(Filters) : Filters[n] = k
  <2>1. place = m BY <1>7
  <2>2. InputOf(k) = Filters[place - 1] BY DEF InputOf
  <2> HIDE DEF place
  <2> QED BY <2>1, <2>2
<1>8. InputOf("filter_2_0a") = Filters[2 - 1]
  <2>1. \A n \in 1..Len(Filters) : Filters[n] = "filter_2_0a" <=> n = 2 BY <1>1
  <2>2. 2 \in 1..Len(Filters) BY <1>2
  <2> QED BY <2>1, <2>2, <1>7
<1>9. InputOf("filter_gradvecs_2") = Filters[3 - 1]
  <2>1. \A n \in 1..Len(Filters) : Filters[n] = "filter_gradvecs_2" <=> n = 3 BY <1>1
  <2>2. 3 \in 1..Len(Filters) BY <1>2
  <2> QED BY <2>1, <2>2, <1>7
<1>10. InputOf("filter_2_0b") = Filters[4 - 1]
  <2>1. \A n \in 1..Len(Filters) : Filters[n] = "filter_2_0b" <=> n = 4 BY <1>1
  <2>2. 4 \in 1..Len(Filters) BY <1>2
  <2> QED BY <2>1, <2>2, <1>7
<1>11. InputOf("filter_2a") = Filters[5 - 1]
  <2>1. \A n \in 1..Len(Filters) : Filters[n] = "filter_2a" <=> n = 5 BY <1>1
  <2>2. 5 \in 1..Len(Filters) BY <1>2
  <2> QED BY <2>1, <2>2, <1>7
<1>12. InputOf("filter_2b") = Filters[6 - 1]
  <2>1. \A n \in 1..Len(Filters) : Filters[n] = "filter_2b" <=> n = 6 BY <1>1
  <2>2. 6 \in 1..Len(Filters) BY <1>2
  <2> QED BY <2>1, <2>2, <1>7
<1>13. InputOf("filter_2c") = Filters[7 - 1]
  <2>1. \A n \in 1..Len(Filters) : Filters[n] = "filter_2c" <=> n = 7 BY <1>1
  <2>2. 7 \in 1..Len(Filters) BY <1>2
  <2> QED BY <2>1, <2>2, <1>7
<1>14. InputOf("filter_2d") = Filters[8 - 1]
  <2>1. \A n \in 1..Len(Filters) : Filters[n] = "filter_2d" <=> n = 8 BY <1>1
  <2>2. 8 \in 1..Len(Filters) BY <1>2
  <2> QED BY <2>1, <2>2, <1>7
<1>15. 2 - 1 = 1 /\ 3 - 1 = 2 /\ 4 - 1 = 3 /\ 5 - 1 = 4 /\ 6 - 1 = 5 /\ 7 - 1 = 6 /\ 8 - 1 = 7
  OBVIOUS
<1> QED BY <1>5, <1>6, <1>8, <1>9, <1>10, <1>11, <1>12, <1>13, <1>14, <1>15

\* The stage written last, kernel by kernel.
LEMMA OutTable ==
  /\ Out[1] = "filter_seeds" /\ Out[2] = "filter_seeds" /\ Out[3] = "filter_gradvecs_1"
  /\ Out[4] = "filter_2_0a" /\ Out[5] = "filter_gradvecs_2" /\ Out[6] = "filter_2_0b"
  /\ Out[7] = "filter_2_0b" /\ Out[8] = "filter_2a" /\ Out[9] = "filter_2a"
  /\ Out[10] = "filter_2b" /\ Out[11] = "filter_2b" /\ Out[12] = "filter_2c"
  /\ Out[13] = "filter_2c" /\ Out[14] = "filter_2d" /\ Out[15] = "filter_2d"
  BY DEF Out

\* The stage read, kernel by kernel.
LEMMA InTable ==
  /\ In[1] = "filter_seeds" /\ In[2] = "filter_seeds" /\ In[3] = "filter_seeds"
  /\ In[4] = "filter_gradvecs_1" /\ In[5] = "filter_2_0a" /\ In[6] = "filter_gradvecs_2"
  /\ In[7] = "filter_2_0b" /\ In[8] = "filter_2_0b" /\ In[9] = "filter_2a"
  /\ In[10] = "filter_2a" /\ In[11] = "filter_2b" /\ In[12] = "filter_2b"
  /\ In[13] = "filter_2c" /\ In[14] = "filter_2c" /\ In[15] = "filter_2d"
  BY DEF In

\* The stages around a filter: it appends to a stage nobody else writes to,
\* and reads another one, from the other buffer except in filter_2_0b.
LEMMA FilterFacts ==
  ASSUME NEW s \in FilterSteps
  PROVE  /\ s \in 1..14 /\ s >= 3
         /\ Kernels[s] = Out[s] /\ Out[s] \in Stages /\ In[s] \in Stages
         /\ InputOf(Kernels[s]) = In[s] /\ In[s] # Out[s] /\ Out[s] # "filter_seeds"
         /\ s \notin {3, 6} => Memory(In[s]) # Memory(Out[s])
         /\ s = 6 => Memory(In[s]) = Memory(Out[s])
         /\ \A t \in 1..14 : s < t => Kernels[t] # Out[s]
         /\ s \notin {3, 5} => (In[s] \in {"filter_gradvecs_1", "filter_2_0a"} <=>
                                Out[s] \in {"filter_gradvecs_1", "filter_2_0a"})
<1> USE KernelsTable, InputTable, OutTable, InTable, StagesTable DEF Memory
<1>1. \/ s = 3 \/ s = 4 \/ s = 5 \/ s = 6 \/ s = 8 \/ s = 10 \/ s = 12 \/ s = 14
  BY DEF FilterSteps
<1>2. \A t \in 1..14 : \/ t = 1 \/ t = 2 \/ t = 3 \/ t = 4 \/ t = 5 \/ t = 6 \/ t = 7
                       \/ t = 8 \/ t = 9 \/ t = 10 \/ t = 11 \/ t = 12 \/ t = 13 \/ t = 14
  OBVIOUS
<1>3. CASE s = 3 BY <1>2, <1>3
<1>4. CASE s = 4 BY <1>2, <1>4
<1>5. CASE s = 5 BY <1>2, <1>5
<1>6. CASE s = 6 BY <1>2, <1>6
<1>7. CASE s = 8 BY <1>2, <1>7
<1>8. CASE s = 10 BY <1>2, <1>8
<1>9. CASE s = 12 BY <1>2, <1>9
<1>10. CASE s = 14 BY <1>2, <1>10
<1> QED BY <1>1, <1>3, <1>4, <1>5, <1>6, <1>7, <1>8, <1>9, <1>10

\* What a kernel reads is what was written last; a filter starts a stage of
\* its own, and the other kernels write no stage.
LEMMA AdvanceFacts ==
  ASSUME NEW s \in 1..14
  PROVE  /\ In[s + 1] = Out[s]
         /\ s + 1 \in FilterSteps => Out[s + 1] = Kernels[s + 1]
         /\ s + 1 \notin FilterSteps => Out[s + 1] = Out[s]
         /\ Kernels[s] \in Stages <=> s \in FilterSteps \cup {1}
         /\ Kernels[s] \in Stages => Lates(s + 1) = Lates(s)
         /\ s >= 3 /\ Kernels[s] \notin Stages => Lates(s + 1) = Lates(s) + 1
         /\ Out[s] \in Stages
         /\ s # 1 => Kernels[s] # "filter_seeds"
         /\ Lates(s) \in 0..4
<1> USE KernelsTable, OutTable, InTable, StagesTable DEF FilterSteps, Lates
<1>1. \/ s = 1 \/ s = 2 \/ s = 3 \/ s = 4 \/ s = 5 \/ s = 6 \/ s = 7
      \/ s = 8 \/ s = 9 \/ s = 10 \/ s = 11 \/ s = 12 \/ s = 13 \/ s = 14
  OBVIOUS
<1>2. CASE s = 1 BY <1>2
<1>3. CASE s = 2 BY <1>3
<1>4. CASE s = 3 BY <1>4
<1>5. CASE s = 4 BY <1>5
<1>6. CASE s = 5 BY <1>6
<1>7. CASE s = 6 BY <1>7
<1>8. CASE s = 7 BY <1>8
<1>9. CASE s = 8 BY <1>9
<1>10. CASE s = 9 BY <1>10
<1>11. CASE s = 10 BY <1>11
<1>12. CASE s = 11 BY <1>12
<1>13. CASE s = 12 BY <1>13
<1>14. CASE s = 13 BY <1>14
<1>15. CASE s = 14 BY <1>15
<1> QED BY <1>1, <1>2, <1>3, <1>4, <1>5, <1>6, <1>7, <1>8, <1>9, <1>10, <1>11,
           <1>12, <1>13, <1>14, <1>15

\* A late initialisation reads what the filter before it has written, and
\* writes no stage.
LEMMA LateFacts ==
  ASSUME NEW s \in LateSteps
  PROVE  /\ s \in 3..14 /\ s \notin FilterSteps /\ s + 1 \in FilterSteps /\ s + 1 # 6
         /\ In[s] = Out[s] /\ In[s] \in Stages \ {"filter_seeds"}
         /\ InputOf(Kernels[s]) = In[s]
         /\ Kernels[s] # "init_seeds" /\ Kernels[s] \notin Stages
         /\ In[s + 1] = In[s] /\ In[s] \notin {"filter_gradvecs_1", "filter_2_0a"}
         /\ Lates(s) \in 0..3 /\ Lates(s + 1) = Lates(s) + 1 /\ (Lates(s) = 0 => s = 7)
<1> USE KernelsTable, InputTable, OutTable, InTable, StagesTable DEF Lates, FilterSteps
<1>1. s = 7 \/ s = 9 \/ s = 11 \/ s = 13 BY DEF LateSteps
<1>2. CASE s = 7 BY <1>2
<1>3. CASE s = 9 BY <1>3
<1>4. CASE s = 11 BY <1>4
<1>5. CASE s = 13 BY <1>5
<1> QED BY <1>1, <1>2, <1>3, <1>4, <1>5

\* A kernel runs at its own place in the chain.
LEMMA RunningStep ==
  ASSUME NEW k, Running(k), step \in Int
  PROVE  /\ step \in 1..14 /\ Kernels[step] = k
         /\ k = "filter_seeds" => step = 1
         /\ k = "init_seeds" => step = 2
         /\ k = "filter_gradvecs_1" => step = 3
         /\ k = "filter_2_0a" => step = 4
         /\ k = "filter_gradvecs_2" => step = 5
         /\ k = "filter_2_0b" => step = 6
         /\ k = "init_seeds_late_1" => step = 7
         /\ k = "filter_2a" => step = 8
         /\ k = "init_seeds_late_2" => step = 9
         /\ k = "filter_2b" => step = 10
         /\ k = "init_seeds_late_3" => step = 11
         /\ k = "filter_2c" => step = 12
         /\ k = "init_seeds_late_4" => step = 13
         /\ k = "filter_2d" => step = 14
<1>1. step \in 1..14 /\ Kernels[step] = k BY KernelsTable DEF Running, Kernel
<1>2. \/ step = 1 \/ step = 2 \/ step = 3 \/ step = 4 \/ step = 5 \/ step = 6 \/ step = 7
      \/ step = 8 \/ step = 9 \/ step = 10 \/ step = 11 \/ step = 12 \/ step = 13 \/ step = 14
  BY <1>1
<1> QED BY <1>1, <1>2, KernelsTable

\* The iterations of the kernels.
LEMMA ItemsTable ==
  /\ Items("filter_seeds") = (0..(BatchSeeds - 1)) \X {0}
  /\ Items(Kernels[2]) = {}
  /\ Items(Kernels[3]) = (0..(len["filter_seeds"] - 1)) \X Centers
  /\ Items(Kernels[5]) = (0..(len["filter_2_0a"] - 1)) \X Tiles
  /\ \A s \in (FilterSteps \ {3, 5}) \cup LateSteps :
       Items(Kernels[s]) = (0..(len[In[s]] - 1)) \X {0}
<1>1. Items("filter_seeds") = (0..(BatchSeeds - 1)) \X {0} BY DEF Items
<1>2. Items(Kernels[3]) = (0..(len["filter_seeds"] - 1)) \X Centers
  BY KernelsTable DEF Items
<1>3. Items(Kernels[5]) = (0..(len["filter_2_0a"] - 1)) \X Tiles
  BY KernelsTable DEF Items
<1>4. ASSUME NEW s \in (FilterSteps \ {3, 5}) \cup LateSteps
      PROVE  Items(Kernels[s]) = (0..(len[In[s]] - 1)) \X {0}
  <2>1. Kernels[s] \notin {"filter_seeds", "filter_gradvecs_1", "filter_gradvecs_2", "init_seeds"}
    BY KernelsTable DEF FilterSteps, LateSteps
  <2>2. InputOf(Kernels[s]) = In[s] BY FilterFacts, LateFacts
  <2> QED BY <2>1, <2>2 DEF Items
<1>5. Items(Kernels[2]) = {} BY KernelsTable DEF Items
<1> QED BY <1>1, <1>2, <1>3, <1>4, <1>5

-----------------------------------------------------------------------------
(***************************************************************************)
(* Types, and what the work items of a kernel are.                         *)
(***************************************************************************)
DataOK ==
  /\ DOMAIN data = {"buffer_1", "buffer_2"}
  /\ data["buffer_1"] \in [0..(Cap1 - 1) -> Cells]
  /\ data["buffer_2"] \in [0..(Cap2 - 1) -> Cells]

\* What the types say of the place on the stream and of the buffers.
LEMMA StepType == ASSUME TypeOK PROVE DataOK /\ step \in Int
<1>1. step \in {Undefined} \cup 0..(Last + 1) BY DEF TypeOK
<1>2. step \in Int BY <1>1, KernelsTable DEF Undefined
<1>3. DataOK BY DEF TypeOK, DataOK
<1> QED BY <1>2, <1>3

\* A place of a stage's buffer holds a cell.
LEMMA EntryType ==
  ASSUME DataOK, NEW k \in Stages \ {"filter_seeds"}, NEW i \in Nat, i < MaxLen(k)
  PROVE  Entry(k, i) \in Cells /\ i \in DOMAIN data[Memory(k)]
<1>1. Memory(k) = "buffer_1" \/ Memory(k) = "buffer_2" BY DEF Memory
<1>2. Memory(k) = "buffer_1" => i \in 0..(Cap1 - 1) BY CapAssumption DEF MaxLen
<1>3. Memory(k) = "buffer_2" => i \in 0..(Cap2 - 1) BY CapAssumption DEF MaxLen, Memory
<1> QED BY <1>1, <1>2, <1>3 DEF Entry, DataOK

\* The candidates of a cell are candidates.
LEMMA CoversType ==
  ASSUME TypeOK, NEW cell \in Cells
  PROVE  Covers(cell) \subseteq (Seeds \cup {NoSeed}) \X Centers \X Tiles
<1>1. /\ cell.seed_index \in 0..(SeedCap - 1) /\ cell.center \in Centers
      /\ cell.tile \in Tiles \cup {NoTile}
  BY DEF Cells
<1>2. buffer_seeds[cell.seed_index] \in Seeds \cup {NoSeed} BY <1>1 DEF TypeOK
<1>3. (IF cell.tile = NoTile THEN Tiles ELSE {cell.tile}) \subseteq Tiles BY <1>1
<1> QED BY <1>1, <1>2, <1>3 DEF Covers

\* What a warp or a block leaves behind: an output, rejected candidates, or
\* nothing, where it could not tell what it had read.
Outcome(k, cell) ==
  \/ Output(k, cell) /\ UNCHANGED rejected
  \/ rejected' \in {rejected, rejected \cup Covers(cell)} /\ UNCHANGED <<len, data>>

\* A verdict has one of these outcomes, and not the last one.
LEMMA DecideOutcome ==
  ASSUME TypeOK, NEW k, NEW cell \in Cells, Decide(k, cell)
  PROVE  /\ Outcome(k, cell) /\ verdicts' \subseteq Cells \X BOOLEAN
         /\ \/ Output(k, cell) /\ UNCHANGED rejected
            \/ rejected' = rejected \cup Covers(cell) /\ UNCHANGED <<len, data>>
<1>1. \/ Output(k, cell) /\ UNCHANGED rejected
      \/ rejected' = rejected \cup Covers(cell) /\ UNCHANGED <<len, data>>
  BY DEF Decide
<1>2. \E v \in BOOLEAN : verdicts' = verdicts \cup {<<cell, v>>} BY DEF Decide
<1>3. verdicts' \subseteq Cells \X BOOLEAN BY <1>2 DEF TypeOK
<1> QED BY <1>1, <1>3 DEF Outcome

\* What it changes: the length and the buffer of its own stage, or the
\* rejected candidates.
LEMMA OutcomeEffect ==
  ASSUME TypeOK, NEW k \in Stages \ {"filter_seeds"}, NEW cell \in Cells, Outcome(k, cell)
  PROVE  /\ len' \in [Stages -> Nat] /\ DataOK'
         /\ rejected' \subseteq (Seeds \cup {NoSeed}) \X Centers \X Tiles
         /\ \A j \in Stages \ {k} : len'[j] = len[j]
         /\ len'[k] \in {len[k], len[k] + 1}
         /\ \A b \in {"buffer_1", "buffer_2"} \ {Memory(k)} : data'[b] = data[b]
         /\ \A i \in DOMAIN data[Memory(k)] :
              data'[Memory(k)][i] = IF len' # len /\ i = len[k] THEN cell
                                                                ELSE data[Memory(k)][i]
<1> DEFINE b == Memory(k)
<1>1. b \in {"buffer_1", "buffer_2"} BY DEF Memory
<1>2. len \in [Stages -> Nat] /\ DataOK BY DEF TypeOK, DataOK
<1>3. CASE Output(k, cell) /\ UNCHANGED rejected
  <2>1. len' = [len EXCEPT ![k] = @ + 1] BY <1>3 DEF Output
  <2>2. data' = [data EXCEPT ![b] = [i \in DOMAIN @ |-> IF i = len[k] THEN cell ELSE @[i]]]
    BY <1>3 DEF Output
  <2>3. len' \in [Stages -> Nat] /\ len'[k] = len[k] + 1 /\ len' # len
        /\ \A j \in Stages \ {k} : len'[j] = len[j]
    BY <2>1, <1>2
  <2> HIDE DEF b
  <2>4. /\ DOMAIN data' = {"buffer_1", "buffer_2"}
        /\ data'[b] = [i \in DOMAIN data[b] |-> IF i = len[k] THEN cell ELSE data[b][i]]
        /\ \A d \in {"buffer_1", "buffer_2"} \ {b} : data'[d] = data[d]
    BY <2>2, <1>1, <1>2 DEF DataOK
  <2>5. DataOK'
    <3>0. ASSUME NEW C, data[b] \in [C -> Cells] PROVE data'[b] \in [C -> Cells]
      <4>1. data'[b] = [i \in C |-> IF i = len[k] THEN cell ELSE data[b][i]]
        BY <3>0, <2>4
      <4>2. \A i \in C : data[b][i] \in Cells BY <3>0
      <4> QED BY <4>1, <4>2
    <3>1. CASE b = "buffer_1"
      <4>1. data'["buffer_1"] \in [0..(Cap1 - 1) -> Cells] BY <3>0, <3>1, <1>2 DEF DataOK
      <4>2. data'["buffer_2"] = data["buffer_2"] BY <3>1, <2>4
      <4> QED BY <4>1, <4>2, <2>4, <1>2 DEF DataOK
    <3>2. CASE b = "buffer_2"
      <4>1. data'["buffer_2"] \in [0..(Cap2 - 1) -> Cells] BY <3>0, <3>2, <1>2 DEF DataOK
      <4>2. data'["buffer_1"] = data["buffer_1"] BY <3>2, <2>4
      <4> QED BY <4>1, <4>2, <2>4, <1>2 DEF DataOK
    <3> QED BY <3>1, <3>2, <1>1
  <2>6. rejected' \subseteq (Seeds \cup {NoSeed}) \X Centers \X Tiles
    BY <1>3 DEF TypeOK
  <2> QED BY <2>3, <2>4, <2>5, <2>6 DEF b
<1>4. CASE rejected' \in {rejected, rejected \cup Covers(cell)} /\ UNCHANGED <<len, data>>
  <2>1. rejected' \subseteq (Seeds \cup {NoSeed}) \X Centers \X Tiles
    BY <1>4, CoversType DEF TypeOK
  <2>2. DataOK' BY <1>2, <1>4 DEF DataOK
  <2> QED BY <2>1, <2>2, <1>2, <1>4
<1> QED BY <1>3, <1>4 DEF Outcome

\* Multiples of the batch size.
LEMMA BatchMultiples ==
  ASSUME NEW m \in Int, NEW n \in Int
  PROVE  /\ m * BatchSeeds \in Int
         /\ (m + 1) * BatchSeeds = m * BatchSeeds + BatchSeeds
         /\ m * BatchSeeds < n * BatchSeeds => m < n
         /\ m < n => m * BatchSeeds + BatchSeeds <= n * BatchSeeds
         /\ 0 <= m => 0 <= m * BatchSeeds
<1> DEFINE B == BatchSeeds
<1>0. B \in Nat /\ B > 0 BY CapAssumption
<1> HIDE DEF B
<1>1. m * B \in Int /\ n * B \in Int /\ (m + 1) * B = m * B + B BY <1>0
<1>2. ASSUME NEW a \in Int, NEW b \in Int, a <= b PROVE a * B <= b * B
  <2>1. PICK d \in Nat : b = a + d
    <3>1. b - a \in Nat /\ b = a + (b - a) BY <1>2
    <3> QED BY <3>1
  <2>2. b * B = a * B + d * B BY <2>1, <1>0
  <2>3. d * B \in Nat /\ a * B \in Int BY <1>0
  <2> QED BY <2>2, <2>3
<1>3. m * B < n * B => m < n BY <1>1, <1>2
<1>4. m < n => (m + 1) * B <= n * B BY <1>2
<1>5. 0 <= m => 0 <= m * B
  <2>1. 0 <= m => 0 * B <= m * B BY <1>2
  <2>2. 0 * B = 0 BY <1>0
  <2> QED BY <2>1, <2>2
<1>6. m < n => m * B + B <= n * B BY <1>1, <1>4
<1> QED BY <1>1, <1>3, <1>5, <1>6 DEF B

\* The seeds of the running batch are seeds.
LEMMA BatchInSeeds ==
  ASSUME StartInv, step # 0, NEW i \in 0..(BatchSeeds - 1)
  PROVE  start_seed \in Nat /\ start_seed + i \in Seeds
<1>1. PICK m \in 0..MaxBatches : start_seed = (m - 1) * BatchSeeds /\ m # 0
  BY DEF StartInv
<1>2. m \in Int /\ m - 1 \in Int /\ 0 <= m - 1 /\ m - 1 < MaxBatches /\ MaxBatches \in Int
  BY <1>1, CapAssumption
<1>3. /\ (m - 1) * BatchSeeds \in Int /\ 0 <= (m - 1) * BatchSeeds
      /\ (m - 1) * BatchSeeds + BatchSeeds <= MaxBatches * BatchSeeds
      /\ MaxBatches * BatchSeeds \in Int
  BY <1>2, BatchMultiples
<1> DEFINE x == (m - 1) * BatchSeeds
           y == MaxBatches * BatchSeeds
<1>4. /\ x \in Int /\ 0 <= x /\ x + BatchSeeds <= y /\ y \in Int /\ start_seed = x
  BY <1>1, <1>3
<1>5. Seeds = 0..(y - 1) BY DEF Seeds
<1> HIDE DEF x, y
<1> QED BY <1>4, <1>5, CapAssumption

\* The buffers as they are allocated have their types.
LEMMA InitBase == Init => BaseInv
<1> SUFFICES ASSUME Init PROVE BaseInv
  OBVIOUS
<1>1. TypeOK
  <2>1. step \in {Undefined} \cup 0..(Last + 1) BY KernelsTable DEF Init
  <2>2. start_seed \in Seeds \cup {-BatchSeeds} BY DEF Init
  <2>3. buffer_seeds \in [0..(SeedCap - 1) -> Seeds \cup {NoSeed}]
        /\ results \in [0..(SeedCap - 1) -> [0..4 -> Seeds \cup {NoSeed}]]
        /\ init_flags \in [0..(SeedCap - 1) -> 0..4]
    BY DEF Init
  <2>4. [seed_index |-> 0, center |-> CHOOSE c \in Centers : TRUE, tile |-> NoTile] \in Cells
    <3>1. (CHOOSE c \in Centers : TRUE) \in Centers BY CapAssumption
    <3>2. 0 \in 0..(SeedCap - 1) BY CapAssumption
    <3> QED BY <3>1, <3>2 DEF Cells
  <2>5. /\ DOMAIN data = {"buffer_1", "buffer_2"}
        /\ data["buffer_1"] \in [0..(Cap1 - 1) -> Cells]
        /\ data["buffer_2"] \in [0..(Cap2 - 1) -> Cells]
    BY <2>4 DEF Init
  <2>6. len \in [Stages -> Nat] /\ todo = {} /\ held = {} /\ warned = {} /\ rejected = {}
        /\ verdicts = {}
    BY DEF Init
  <2>7. clobbered \in BOOLEAN BY DEF Init
  <2> QED BY <2>1, <2>2, <2>3, <2>5, <2>6, <2>7 DEF TypeOK
<1>2. NotStarted /\ ItemsInv /\ TornInv
  BY DEF Init, NotStarted, ItemsInv, TornInv, FilterSteps, LateSteps
<1>3. StartInv
  <2>1. start_seed = (0 - 1) * BatchSeeds BY CapAssumption DEF Init
  <2> QED BY <2>1, CapAssumption DEF Init, StartInv
<1> QED BY <1>1, <1>2, <1>3 DEF BaseInv

\* A work item is a pair, and its input exists.
LEMMA ItemFacts ==
  ASSUME BaseInv, NEW item \in todo, step \in FilterSteps \cup LateSteps
  PROVE  /\ item = <<item[1], item[2]>> /\ item[1] \in Nat
         /\ item[1] < len[In[step]]
         /\ step = 3 => item[2] \in Centers
         /\ step = 5 => item[2] \in Tiles
         /\ step \notin {3, 5} => item[2] = 0
<1>1. len[In[step]] \in Nat BY FilterFacts, LateFacts DEF BaseInv, TypeOK
<1>2. CASE step = 3
  <2>1. item \in (0..(len["filter_seeds"] - 1)) \X Centers
    BY <1>2 DEF BaseInv, ItemsInv
  <2> QED BY <2>1, <1>1, <1>2, InTable
<1>3. CASE step = 5
  <2>1. item \in (0..(len["filter_2_0a"] - 1)) \X Tiles
    BY <1>3 DEF BaseInv, ItemsInv
  <2> QED BY <2>1, <1>1, <1>3, InTable
<1>4. CASE step \notin {3, 5}
  <2>1. item \in (0..(len[In[step]] - 1)) \X {0}
    BY <1>4 DEF BaseInv, ItemsInv, LateSteps
  <2> QED BY <2>1, <1>1, <1>4
<1> QED BY <1>2, <1>3, <1>4

\* The filters that read one buffer and write the other: a work item is
\* judged in one step.
LEMMA JudgeItem ==
  ASSUME BaseInv, NEW item \in todo,
         \/ GradVecs1(item[1], item[2]) \/ GradVecs2(item[1], item[2])
         \/ Filter2_0A(item[1])
         \/ \E k \in {"filter_2a", "filter_2b", "filter_2c", "filter_2d"} :
              Filter2(k, item[1])
  PROVE  /\ step \in FilterSteps \ {6}
         /\ item[1] \in Nat /\ item[1] < MaxLen(In[step])
         /\ ItemCell(item) \in Cells /\ Decide(Out[step], ItemCell(item))
         /\ todo' = todo \ {item}
         /\ UNCHANGED <<step, batchVars, noiseVars, held, clobbered>>
<1>0. TypeOK /\ DataOK /\ step \in Int
  BY StepType DEF BaseInv
<1>1. CASE GradVecs1(item[1], item[2])
  <2>1. step = 3 BY <1>0, <1>1, RunningStep DEF GradVecs1
  <2>2. step \in FilterSteps BY <2>1 DEF FilterSteps
  <2>3. item = <<item[1], item[2]>> /\ item[1] \in Nat /\ item[2] \in Centers
    BY <2>1, <2>2, ItemFacts
  <2>4. ItemCell(item) = [seed_index |-> item[1], center |-> item[2], tile |-> NoTile]
    BY <2>1 DEF ItemCell
  <2>5. item[1] < SeedCap /\ item[1] \in 0..(SeedCap - 1)
    BY <1>1, <2>3, CapAssumption DEF GradVecs1
  <2>6. ItemCell(item) \in Cells BY <2>3, <2>4, <2>5 DEF Cells
  <2>7. MaxLen(In[step]) = SeedCap BY <2>1, InTable DEF MaxLen
  <2>8. Out[step] = "filter_gradvecs_1" BY <2>1, OutTable
  <2> QED BY <1>1, <2>1, <2>2, <2>3, <2>4, <2>5, <2>6, <2>7, <2>8 DEF GradVecs1
<1>2. CASE GradVecs2(item[1], item[2])
  <2>1. step = 5 BY <1>0, <1>2, RunningStep DEF GradVecs2
  <2>2. step \in FilterSteps BY <2>1 DEF FilterSteps
  <2>3. item = <<item[1], item[2]>> /\ item[1] \in Nat /\ item[2] \in Tiles
    BY <2>1, <2>2, ItemFacts
  <2>4. ItemCell(item) = TileCell(Entry("filter_2_0a", item[1]), item[2])
    BY <2>1, InTable DEF ItemCell
  <2>5. item[1] < MaxLen("filter_2_0a") BY <1>2 DEF GradVecs2
  <2>6. Entry("filter_2_0a", item[1]) \in Cells
    BY <1>0, <2>3, <2>5, EntryType, StagesTable
  <2>7. ItemCell(item) \in Cells BY <2>3, <2>4, <2>6 DEF Cells, TileCell
  <2>8. Out[step] = "filter_gradvecs_2" /\ In[step] = "filter_2_0a"
    BY <2>1, OutTable, InTable
  <2> QED BY <1>2, <2>1, <2>2, <2>3, <2>4, <2>5, <2>7, <2>8 DEF GradVecs2
<1>3. ASSUME NEW k \in {"filter_2_0a", "filter_2a", "filter_2b", "filter_2c", "filter_2d"},
             Filter2(k, item[1])
      PROVE  /\ step \in FilterSteps \ {6}
             /\ item[1] \in Nat /\ item[1] < MaxLen(In[step])
             /\ ItemCell(item) \in Cells /\ Decide(Out[step], ItemCell(item))
             /\ todo' = todo \ {item}
             /\ UNCHANGED <<step, batchVars, noiseVars, held, clobbered>>
  <2>1. step \in 1..14 /\ Kernels[step] = k /\ step \in {4, 8, 10, 12, 14}
    BY <1>0, <1>3, RunningStep DEF Filter2
  <2>2. step \in FilterSteps BY <2>1 DEF FilterSteps
  <2>3. item = <<item[1], 0>> /\ item[1] \in Nat
    BY <2>1, <2>2, ItemFacts
  <2>4. k = Out[step] /\ InputOf(k) = In[step] BY <2>1, <2>2, FilterFacts
  <2>5. In[step] \in Stages \ {"filter_seeds"}
    BY <2>1, InTable, StagesTable
  <2>6. item[1] < MaxLen(In[step]) BY <1>3, <2>4 DEF Filter2
  <2>7. ItemCell(item) = Entry(In[step], item[1]) BY <2>1 DEF ItemCell
  <2>8. ItemCell(item) \in Cells BY <1>0, <2>3, <2>5, <2>6, <2>7, EntryType
  <2> QED BY <1>3, <2>1, <2>2, <2>3, <2>4, <2>6, <2>7, <2>8 DEF Filter2
<1>4. CASE Filter2_0A(item[1]) BY <1>3, <1>4 DEF Filter2_0A
<1> QED BY <1>1, <1>2, <1>3, <1>4

\* filter_2_0b: a warp decides on the input it holds.  It may tear the input of
\* another one, which then has a seed of one of the two.
LEMMA JudgeHeld ==
  ASSUME BaseInv, NEW h \in held, Filter2_0B_Write(h)
  PROVE  /\ step = 6 /\ h.cell \in Cells /\ Outcome(Out[step], h.cell)
         /\ verdicts' \subseteq Cells \X BOOLEAN /\ clobbered' \in BOOLEAN
         /\ held' \subseteq [index : Nat, cell : Cells, torn : BOOLEAN]
         /\ \A f \in held' : \/ f \in held
                             \/ \E g \in held : /\ f.cell.tile \in Tiles
                                               /\ f.cell.seed_index \in {g.cell.seed_index, h.cell.seed_index}
         /\ ~clobbered' =>
              /\ ~clobbered /\ held' = held \ {h} /\ Decide(Out[step], h.cell)
              /\ ~(len' # len /\ <<len[Out[step]], 0>> \in todo)
         /\ UNCHANGED <<step, batchVars, noiseVars, todo>>
<1>1. step \in Int /\ TypeOK /\ TornInv BY StepType DEF BaseInv
<1>2. step = 6 BY <1>1, RunningStep DEF Filter2_0B_Write
<1>3. Out[step] = "filter_2_0b" BY <1>2, OutTable
<1>4. \A g \in held : g \in [index : Nat, cell : Cells, torn : BOOLEAN]
  BY <1>1 DEF TypeOK
<1>5. h.cell \in Cells /\ h.torn \in BOOLEAN BY <1>4
<1>6. /\ UNCHANGED <<step, batchVars, noiseVars, todo>>
      /\ clobbered' = (\/ clobbered \/ held' # held \ {h}
                       \/ len' # len /\ <<len["filter_2_0b"], 0>> \in todo)
  BY DEF Filter2_0B_Write
<1>7. clobbered \in BOOLEAN BY <1>1 DEF TypeOK
<1>8. clobbered' \in BOOLEAN BY <1>6
<1>9. \/ ~h.torn /\ Decide(Out[step], h.cell)
      \/ h.torn /\ Output(Out[step], h.cell) /\ UNCHANGED <<rejected, verdicts>>
      \/ h.torn /\ UNCHANGED <<len, data, rejected, verdicts>>
  BY <1>3 DEF Filter2_0B_Write
<1>10. Outcome(Out[step], h.cell) /\ verdicts' \subseteq Cells \X BOOLEAN
  <2>1. CASE Decide(Out[step], h.cell) BY <2>1, <1>1, <1>5, DecideOutcome
  <2>2. CASE Output(Out[step], h.cell) /\ UNCHANGED <<rejected, verdicts>>
    BY <2>2, <1>1 DEF Outcome, TypeOK
  <2>3. CASE UNCHANGED <<len, data, rejected, verdicts>>
    BY <2>3, <1>1 DEF Outcome, TypeOK
  <2> QED BY <2>1, <2>2, <2>3, <1>9
<1>11. /\ held' \subseteq [index : Nat, cell : Cells, torn : BOOLEAN]
       /\ \A f \in held' : \/ f \in held
                           \/ \E g \in held : /\ f.cell.tile \in Tiles
                                             /\ f.cell.seed_index \in {g.cell.seed_index, h.cell.seed_index}
  <2>1. CASE held' = held \ {h} BY <2>1, <1>4
  <2>2. ASSUME NEW g \in held \ {h}, NEW cell \in Mixes(g.cell, h.cell),
               held' = (held \ {g, h}) \cup {[index |-> g.index, cell |-> cell, torn |-> TRUE]}
        PROVE  /\ held' \subseteq [index : Nat, cell : Cells, torn : BOOLEAN]
               /\ \A f \in held' : \/ f \in held
                                   \/ \E e \in held : /\ f.cell.tile \in Tiles
                                                     /\ f.cell.seed_index \in {e.cell.seed_index, h.cell.seed_index}
    <3>1. /\ cell.seed_index \in {g.cell.seed_index, h.cell.seed_index}
          /\ cell.tile \in Tiles /\ cell.center \in Centers
          /\ cell = [seed_index |-> cell.seed_index, center |-> cell.center, tile |-> cell.tile]
      BY DEF Mixes
    <3>2. /\ g.cell.seed_index \in 0..(SeedCap - 1) /\ h.cell.seed_index \in 0..(SeedCap - 1)
          /\ g.index \in Nat
      BY <1>4, <1>5 DEF Cells
    <3>3. cell \in Cells BY <3>1, <3>2 DEF Cells
    <3>4. PICK t : t = [index |-> g.index, cell |-> cell, torn |-> TRUE] OBVIOUS
    <3>5. t \in [index : Nat, cell : Cells, torn : BOOLEAN] /\ t.cell = cell
      BY <3>2, <3>3, <3>4
    <3>6. held' = (held \ {g, h}) \cup {t} BY <2>2, <3>4
    <3> QED BY <3>1, <3>5, <3>6, <1>4
  <2>3. \/ held' = held \ {h}
        \/ \E g \in held \ {h} : \E cell \in Mixes(g.cell, h.cell) :
             held' = (held \ {g, h}) \cup {[index |-> g.index, cell |-> cell, torn |-> TRUE]}
    BY DEF Filter2_0B_Write
  <2> QED BY <2>1, <2>2, <2>3
<1>12. ASSUME ~clobbered'
       PROVE  /\ ~clobbered /\ held' = held \ {h} /\ Decide(Out[step], h.cell)
              /\ ~(len' # len /\ <<len[Out[step]], 0>> \in todo)
  <2>1. ~clobbered /\ held' = held \ {h} /\ ~(len' # len /\ <<len[Out[step]], 0>> \in todo)
    BY <1>3, <1>6, <1>12
  <2>2. ~h.torn BY <2>1, <1>1 DEF TornInv
  <2> QED BY <2>1, <2>2, <1>9
<1> QED BY <1>2, <1>5, <1>6, <1>8, <1>10, <1>11, <1>12

\* A verdict keeps types and work items.
LEMMA VerdictBase ==
  ASSUME BaseInv, step \in FilterSteps, NEW cell \in Cells, Outcome(Out[step], cell),
         verdicts' \subseteq Cells \X BOOLEAN, clobbered' \in BOOLEAN, TornInv',
         held' \subseteq [index : Nat, cell : Cells, torn : BOOLEAN],
         todo' \subseteq todo, step # 6 => held' = held,
         UNCHANGED <<step, batchVars, noiseVars>>
  PROVE  BaseInv'
<1>1. TypeOK BY DEF BaseInv
<1>2. Out[step] \in Stages \ {"filter_seeds"} BY FilterFacts
<1>3. /\ len' \in [Stages -> Nat] /\ DataOK'
      /\ rejected' \subseteq (Seeds \cup {NoSeed}) \X Centers \X Tiles
      /\ \A j \in Stages \ {Out[step]} : len'[j] = len[j]
  BY <1>1, <1>2, OutcomeEffect
<1>4. TypeOK'
  <2>1. /\ step' = step /\ start_seed' = start_seed /\ warned' = warned
        /\ buffer_seeds' = buffer_seeds /\ results' = results /\ init_flags' = init_flags
    BY DEF batchVars, noiseVars
  <2> QED BY <1>1, <1>3, <2>1 DEF TypeOK, DataOK
<1>5. NotStarted'
  <2>1. \A t \in 1..14 : step < t /\ Kernels[t] \in Stages => len'[Kernels[t]] = len[Kernels[t]]
    BY <1>3, FilterFacts
  <2> QED BY <2>1, KernelsTable DEF BaseInv, NotStarted
<1>6. ItemsInv'
  <2>1. len'["filter_seeds"] = len["filter_seeds"] /\ len'[In[step]] = len[In[step]]
    BY <1>2, <1>3, FilterFacts, StagesTable
  <2>2. In[5] = "filter_2_0a" BY InTable
  <2> QED BY <2>1, <2>2 DEF BaseInv, ItemsInv, FilterSteps, LateSteps
<1>7. StartInv' BY DEF BaseInv, StartInv, batchVars
<1> QED BY <1>4, <1>5, <1>6, <1>7 DEF BaseInv

\* The next kernel starts with its own work items.
LEMMA AdvanceBase ==
  ASSUME BaseInv, step \in 1..14, held = {}, Advance, UNCHANGED <<start_seed, len, held>>
  PROVE  /\ step' \in 2..15 /\ NotStarted' /\ ItemsInv' /\ StartInv'
         /\ todo' \subseteq Nat \X (Centers \cup Tiles \cup {0})
<1>1. step' = step + 1 /\ step' \in 2..15 BY DEF Advance
<1>2. todo' = IF step < 14 THEN Items(Kernels[step']) ELSE {}
  BY <1>1, KernelsTable DEF Advance
<1>3. NotStarted' BY <1>1, KernelsTable DEF BaseInv, NotStarted
<1>4. StartInv' BY <1>1 DEF BaseInv, StartInv
<1>5. CASE step' = 3
  <2>1. todo' = (0..(len["filter_seeds"] - 1)) \X Centers
    BY <1>1, <1>2, <1>5, ItemsTable
  <2>2. ItemsInv' BY <2>1, <1>5 DEF ItemsInv, FilterSteps, LateSteps
  <2>3. 0..(len["filter_seeds"] - 1) \subseteq Nat BY StagesTable DEF BaseInv, TypeOK
  <2> QED BY <2>1, <2>2, <2>3, <1>1, <1>3, <1>4
<1>6. CASE step' = 5
  <2>1. todo' = (0..(len["filter_2_0a"] - 1)) \X Tiles
    BY <1>1, <1>2, <1>6, ItemsTable
  <2>2. ItemsInv' BY <2>1, <1>6 DEF ItemsInv, FilterSteps, LateSteps
  <2>3. 0..(len["filter_2_0a"] - 1) \subseteq Nat BY StagesTable DEF BaseInv, TypeOK
  <2> QED BY <2>1, <2>2, <2>3, <1>1, <1>3, <1>4
<1>7. CASE step' \in (FilterSteps \ {3, 5}) \cup LateSteps
  <2>0. step < 14 BY <1>1, <1>7 DEF FilterSteps, LateSteps
  <2>1. todo' = (0..(len[In[step']] - 1)) \X {0}
    BY <2>0, <1>2, <1>7, ItemsTable
  <2>2. ItemsInv' BY <2>1, <1>1, <1>7 DEF ItemsInv, FilterSteps, LateSteps
  <2>3. 0..(len[In[step']] - 1) \subseteq Nat
    <3>1. In[step'] \in Stages BY <1>7, FilterFacts, LateFacts
    <3> QED BY <3>1 DEF BaseInv, TypeOK
  <2> QED BY <2>1, <2>2, <2>3, <1>1, <1>3, <1>4
<1>8. CASE step' \notin FilterSteps \cup LateSteps
  <2>1. todo' = {}
    <3>1. step' = 2 \/ step' = 15 BY <1>1, <1>8 DEF FilterSteps, LateSteps
    <3> QED BY <3>1, <1>1, <1>2, ItemsTable
  <2>2. ItemsInv' BY <2>1, <1>1, <1>8 DEF ItemsInv, FilterSteps, LateSteps
  <2> QED BY <2>1, <2>2, <1>1, <1>3, <1>4
<1> QED BY <1>5, <1>6, <1>7, <1>8

\* input.next(): the batch starts with no outputs, and its seeds are seeds.
LEMMA ClaimBase == ASSUME BaseInv, Claim PROVE BaseInv'
<1>1. TypeOK BY DEF BaseInv
<1>2. /\ step = 0 /\ start_seed + BatchSeeds \in Seeds
      /\ start_seed' = start_seed + BatchSeeds /\ step' = 1
      /\ todo' = (0..(BatchSeeds - 1)) \X {0}
      /\ len' = [k \in Stages |-> 0] /\ warned' = {} /\ rejected' = {}
      /\ verdicts' = {} /\ clobbered' = FALSE /\ UNCHANGED <<noiseVars, data, held>>
  BY ItemsTable DEF Claim
<1>3. TypeOK'
  <2>1. 0..(BatchSeeds - 1) \subseteq Nat BY CapAssumption
  <2>2. todo' \subseteq Nat \X (Centers \cup Tiles \cup {0}) BY <2>1, <1>2
  <2>3. step' \in {Undefined} \cup 0..(Last + 1) BY <1>2, KernelsTable
  <2>4. clobbered' \in BOOLEAN BY <1>2
  <2> QED BY <1>1, <1>2, <2>2, <2>3, <2>4 DEF TypeOK, noiseVars
<1>4. NotStarted' BY <1>2 DEF NotStarted
<1>5. ItemsInv' BY <1>2 DEF BaseInv, ItemsInv, FilterSteps, LateSteps
<1>7. TornInv'
  <2>1. held = {} BY <1>2 DEF BaseInv, ItemsInv, LateSteps
  <2> QED BY <2>1, <1>2 DEF TornInv
<1>6. StartInv'
  <2>1. PICK m \in 0..MaxBatches : start_seed = (m - 1) * BatchSeeds
    BY DEF BaseInv, StartInv
  <2>2. m \in Int /\ m - 1 \in Int /\ MaxBatches \in Int /\ (m - 1) + 1 = m /\ (m + 1) - 1 = m
    BY <2>1, CapAssumption
  <2>3. m * BatchSeeds = (m - 1) * BatchSeeds + BatchSeeds BY <2>2, BatchMultiples
  <2>4. start_seed' = m * BatchSeeds BY <1>2, <2>1, <2>3
  <2>5. m * BatchSeeds < MaxBatches * BatchSeeds
    <3>1. m * BatchSeeds \in Int /\ MaxBatches * BatchSeeds \in Int
      BY <2>2, BatchMultiples
    <3>2. m * BatchSeeds \in 0..(MaxBatches * BatchSeeds - 1)
      BY <1>2, <2>4 DEF Seeds
    <3> DEFINE x == m * BatchSeeds
               y == MaxBatches * BatchSeeds
    <3>3. x \in Int /\ y \in Int /\ x \in 0..(y - 1) BY <3>1, <3>2
    <3> HIDE DEF x, y
    <3>4. x < y BY <3>3
    <3> QED BY <3>4 DEF x, y
  <2>6. m < MaxBatches BY <2>2, <2>5, BatchMultiples
  <2>7. m + 1 \in 0..MaxBatches /\ m + 1 # 0 BY <2>1, <2>6, CapAssumption
  <2>8. start_seed' = ((m + 1) - 1) * BatchSeeds BY <2>2, <2>4
  <2> QED BY <2>7, <2>8 DEF StartInv
<1> QED BY <1>3, <1>4, <1>5, <1>6, <1>7 DEF BaseInv

\* The next kernel on the stream starts after its predecessor has finished.
LEMMA KernelEndsBase ==
  ASSUME BaseInv, KernelEnds
  PROVE  /\ BaseInv' /\ step \in FilterSteps \cup LateSteps \cup {1} /\ step' = step + 1
         /\ todo = {} /\ held = {} /\ held' = {} /\ Advance
         /\ init_flags' = IF step = 6 THEN [i \in 0..(SeedCap - 1) |-> 0] ELSE init_flags
         /\ UNCHANGED <<batchVars, buffer_seeds, results, data, len, rejected, clobbered>>
<1>1. TypeOK /\ step \in Int BY StepType DEF BaseInv
<1>2. /\ step \in 1..14 /\ Kernels[step] # "init_seeds" /\ todo = {} /\ held = {} /\ Advance
      /\ held' = held
      /\ UNCHANGED <<batchVars, buffer_seeds, results, data, len, rejected, clobbered>>
  BY <1>1, KernelsTable DEF KernelEnds, Kernel
<1>3. /\ step' \in 2..15 /\ NotStarted' /\ ItemsInv' /\ StartInv'
      /\ todo' \subseteq Nat \X (Centers \cup Tiles \cup {0})
  BY <1>2, AdvanceBase DEF batchVars
<1>4. step \in FilterSteps \cup LateSteps \cup {1}
  BY <1>2, KernelsTable DEF FilterSteps, LateSteps
<1>5. Kernels[step] = "filter_2_0b" <=> step = 6
  BY <1>4, KernelsTable DEF FilterSteps, LateSteps
<1>6. init_flags' = IF step = 6 THEN [i \in 0..(SeedCap - 1) |-> 0] ELSE init_flags
  BY <1>5 DEF KernelEnds, Flags, Kernel
<1>7. TypeOK'
  <2>1. step' \in {Undefined} \cup 0..(Last + 1) BY <1>3, KernelsTable
  <2>2. init_flags' \in [0..(SeedCap - 1) -> 0..4] BY <1>1, <1>6 DEF TypeOK
  <2>3. verdicts' = {} BY <1>2 DEF Advance
  <2> QED BY <2>1, <2>2, <2>3, <1>1, <1>2, <1>3 DEF TypeOK, batchVars
<1>8. TornInv' BY <1>2 DEF TornInv
<1>9. step' = step + 1 BY <1>2 DEF Advance
<1> QED BY <1>2, <1>3, <1>4, <1>6, <1>7, <1>8, <1>9 DEF BaseInv

\* KernelSeed1::kernel runs second and keeps the types.
LEMMA InitSeedsBase ==
  ASSUME BaseInv, InitSeeds
  PROVE  BaseInv' /\ step = 2 /\ step' = 3
<1>1. TypeOK /\ step \in Int BY StepType DEF BaseInv
<1>2. step = 2 BY <1>1, RunningStep DEF InitSeeds
<1>3. held = {} BY <1>2 DEF BaseInv, ItemsInv, LateSteps
<1>4. /\ step' \in 2..15 /\ NotStarted' /\ ItemsInv' /\ StartInv'
      /\ todo' \subseteq Nat \X (Centers \cup Tiles \cup {0})
  BY <1>2, <1>3, AdvanceBase DEF InitSeeds, batchVars
<1>5. results' \in [0..(SeedCap - 1) -> [0..4 -> Seeds \cup {NoSeed}]]
  <2>1. \A i \in 0..(SeedCap - 1) :
          /\ results[i] \in [0..4 -> Seeds \cup {NoSeed}]
          /\ buffer_seeds[i] \in Seeds \cup {NoSeed}
    BY <1>1 DEF TypeOK
  <2> QED BY <2>1 DEF InitSeeds
<1>6. TypeOK'
  <2>1. step' \in {Undefined} \cup 0..(Last + 1) BY <1>4, KernelsTable
  <2>2. verdicts' = {} BY DEF InitSeeds, Advance
  <2> QED BY <2>1, <2>2, <1>1, <1>4, <1>5 DEF InitSeeds, TypeOK, batchVars
<1>7. TornInv' BY <1>3 DEF TornInv, InitSeeds
<1> QED BY <1>2, <1>4, <1>6, <1>7 DEF BaseInv, InitSeeds, Advance

\* The n-th late initialisation has its own place, and n - 1 ran before it.
LEMMA LateStep ==
  ASSUME NEW n \in 1..4, Running(LateKernel(n)), step \in Int
  PROVE  /\ step = 5 + 2 * n /\ InputOf(LateKernel(n)) = In[step]
         /\ Lates(step) = n - 1 /\ Lates(step + 1) = n
<1>1. n = 1 \/ n = 2 \/ n = 3 \/ n = 4 OBVIOUS
<1>2. CASE n = 1
  <2>1. LateKernel(n) = "init_seeds_late_1" BY <1>2 DEF LateKernel
  <2>2. step = 7 BY <2>1, RunningStep
  <2> QED BY <2>1, <2>2, <1>2, InTable, InputTable DEF Lates
<1>3. CASE n = 2
  <2>1. LateKernel(n) = "init_seeds_late_2" BY <1>3 DEF LateKernel
  <2>2. step = 9 BY <2>1, RunningStep
  <2> QED BY <2>1, <2>2, <1>3, InTable, InputTable DEF Lates
<1>4. CASE n = 3
  <2>1. LateKernel(n) = "init_seeds_late_3" BY <1>4 DEF LateKernel
  <2>2. step = 11 BY <2>1, RunningStep
  <2> QED BY <2>1, <2>2, <1>4, InTable, InputTable DEF Lates
<1>5. CASE n = 4
  <2>1. LateKernel(n) = "init_seeds_late_4" BY <1>5 DEF LateKernel
  <2>2. step = 13 BY <2>1, RunningStep
  <2> QED BY <2>1, <2>2, <1>5, InTable, InputTable DEF Lates
<1> QED BY <1>1, <1>2, <1>3, <1>4, <1>5

\* A thread of a late initialisation tries the flag of its input's seed.
LEMMA LateFlagBase ==
  ASSUME BaseInv, NEW n \in 1..4, NEW item \in todo, LateFlag(n, item[1])
  PROVE  /\ BaseInv' /\ step \in LateSteps /\ Lates(step) = n - 1
         /\ item = <<item[1], 0>> /\ item[1] \in Nat /\ item[1] < len[In[step]]
         /\ Entry(In[step], item[1]) \in Cells /\ todo' = todo \ {item}
         /\ LET cell == Entry(In[step], item[1])
            IN  \/ /\ init_flags[cell.seed_index] = n - 1
                   /\ init_flags' = [init_flags EXCEPT ![cell.seed_index] = n]
                   /\ held' = held \cup {[index |-> item[1], cell |-> cell, torn |-> FALSE]}
                \/ /\ init_flags[cell.seed_index] # n - 1
                   /\ UNCHANGED <<init_flags, held>>
         /\ UNCHANGED <<step, batchVars, buffer_seeds, results, data, len, history>>
<1>1. TypeOK /\ DataOK /\ step \in Int BY StepType DEF BaseInv
<1>2. /\ step = 5 + 2 * n /\ InputOf(LateKernel(n)) = In[step] /\ Lates(step) = n - 1
  BY <1>1, LateStep DEF LateFlag
<1>3. step \in LateSteps BY <1>2 DEF LateSteps
<1>4. item = <<item[1], 0>> /\ item[1] \in Nat /\ item[1] < len[In[step]]
  BY <1>3, ItemFacts DEF LateSteps
<1>5. PICK cell : cell = Entry(In[step], item[1]) OBVIOUS
<1>6. /\ item[1] < MaxLen(In[step]) /\ todo' = todo \ {item}
      /\ \/ /\ init_flags[cell.seed_index] = n - 1
            /\ init_flags' = [init_flags EXCEPT ![cell.seed_index] = n]
            /\ held' = held \cup {[index |-> item[1], cell |-> cell, torn |-> FALSE]}
         \/ init_flags[cell.seed_index] # n - 1 /\ UNCHANGED <<init_flags, held>>
      /\ UNCHANGED <<step, batchVars, buffer_seeds, results, data, len, history>>
  BY <1>2, <1>4, <1>5 DEF LateFlag
<1>7. cell \in Cells BY <1>1, <1>3, <1>4, <1>5, <1>6, EntryType, LateFacts
<1>8. /\ init_flags' \in [0..(SeedCap - 1) -> 0..4]
      /\ held' \subseteq [index : Nat, cell : Cells, torn : BOOLEAN]
  <2>1. init_flags \in [0..(SeedCap - 1) -> 0..4] BY <1>1 DEF TypeOK
  <2>2. held \subseteq [index : Nat, cell : Cells, torn : BOOLEAN] BY <1>1 DEF TypeOK
  <2>3. CASE UNCHANGED <<init_flags, held>> BY <2>1, <2>2, <2>3
  <2>4. CASE /\ init_flags' = [init_flags EXCEPT ![cell.seed_index] = n]
             /\ held' = held \cup {[index |-> item[1], cell |-> cell, torn |-> FALSE]}
    <3>0. PICK s : s = cell.seed_index OBVIOUS
    <3>1. init_flags' \in [0..(SeedCap - 1) -> 0..4]
      <4>1. init_flags' = [init_flags EXCEPT ![s] = n] /\ n \in 0..4 BY <3>0, <2>4
      <4> QED BY <4>1, <2>1
    <3>2. [index |-> item[1], cell |-> cell, torn |-> FALSE]
            \in [index : Nat, cell : Cells, torn : BOOLEAN]
      BY <1>4, <1>7
    <3> QED BY <3>1, <3>2, <2>2, <2>4
  <2> QED BY <2>3, <2>4, <1>6
<1>9. TypeOK' BY <1>1, <1>6, <1>8 DEF TypeOK, batchVars, history
<1>10. NotStarted' /\ StartInv' BY <1>6 DEF BaseInv, NotStarted, StartInv, batchVars
<1>11. ItemsInv' BY <1>3, <1>6 DEF BaseInv, ItemsInv, LateSteps, FilterSteps
<1>12. TornInv'
  <2>1. clobbered' = clobbered BY <1>6 DEF history
  <2>2. \A h \in held' : h \in held \/ ~h.torn BY <1>6
  <2> QED BY <2>1, <2>2 DEF BaseInv, TornInv
<1>13. BaseInv' BY <1>9, <1>10, <1>11, <1>12 DEF BaseInv
<1> QED BY <1>2, <1>3, <1>4, <1>5, <1>6, <1>7, <1>13

\* The thread that raised the flag writes the octaves.
LEMMA LateInitBase ==
  ASSUME BaseInv, NEW n \in 1..4, NEW h \in held, LateInit(n, h)
  PROVE  /\ BaseInv' /\ step \in LateSteps /\ Lates(step) = n - 1
         /\ h.cell.seed_index \in 0..(SeedCap - 1) /\ held' = held \ {h}
         /\ results'[h.cell.seed_index][n] = buffer_seeds[h.cell.seed_index]
         /\ \A i \in 0..(SeedCap - 1), g \in 0..4 :
              ~(i = h.cell.seed_index /\ g = n) => results'[i][g] = results[i][g]
         /\ UNCHANGED <<step, batchVars, buffer_seeds, init_flags, data, len, todo, history>>
<1>1. TypeOK /\ step \in Int BY StepType DEF BaseInv
<1>2. step = 5 + 2 * n /\ Lates(step) = n - 1 BY <1>1, LateStep DEF LateInit
<1>3. step \in LateSteps BY <1>2 DEF LateSteps
<1>4. PICK s : s = h.cell.seed_index OBVIOUS
<1>5. s \in 0..(SeedCap - 1)
  <2>1. h \in [index : Nat, cell : Cells, torn : BOOLEAN] BY <1>1 DEF TypeOK
  <2> QED BY <2>1, <1>4 DEF Cells
<1>6. /\ held' = held \ {h}
      /\ results' = [results EXCEPT ![s] = [@ EXCEPT ![n] = buffer_seeds[s]]]
      /\ UNCHANGED <<step, batchVars, buffer_seeds, init_flags, data, len, todo, history>>
  BY <1>4 DEF LateInit
<1>7. PICK V : V = Seeds \cup {NoSeed} OBVIOUS
<1>8. results \in [0..(SeedCap - 1) -> [0..4 -> V]] /\ buffer_seeds[s] \in V
  BY <1>1, <1>5, <1>7 DEF TypeOK
<1>9. PICK row : row = [results[s] EXCEPT ![n] = buffer_seeds[s]] OBVIOUS
<1>10. results[s] \in [0..4 -> V] /\ n \in 0..4 BY <1>5, <1>8
<1>11. /\ row \in [0..4 -> V] /\ row[n] = buffer_seeds[s]
       /\ \A g \in 0..4 : g # n => row[g] = results[s][g]
  BY <1>8, <1>9, <1>10
<1>12. results' = [results EXCEPT ![s] = row] BY <1>6, <1>9
<1>13. /\ results' \in [0..(SeedCap - 1) -> [0..4 -> V]] /\ results'[s] = row
       /\ \A i \in 0..(SeedCap - 1) : i # s => results'[i] = results[i]
  BY <1>5, <1>8, <1>11, <1>12
<1>14. TypeOK' BY <1>1, <1>6, <1>7, <1>13 DEF TypeOK, batchVars, history
<1>15. NotStarted' /\ StartInv' BY <1>6 DEF BaseInv, NotStarted, StartInv, batchVars
<1>16. ItemsInv' BY <1>3, <1>6 DEF BaseInv, ItemsInv, LateSteps, FilterSteps
<1>17. TornInv' BY <1>6 DEF BaseInv, TornInv, history
<1>18. BaseInv' BY <1>14, <1>15, <1>16, <1>17 DEF BaseInv
<1>19. \A i \in 0..(SeedCap - 1), g \in 0..4 :
         ~(i = s /\ g = n) => results'[i][g] = results[i][g]
  BY <1>11, <1>13
<1> QED BY <1>2, <1>3, <1>4, <1>5, <1>6, <1>11, <1>13, <1>18, <1>19

\* KernelFilterSeeds stores seeds of the batch only.
LEMMA FilterSeedBase ==
  ASSUME BaseInv, NEW item \in todo, FilterSeed(item[1])
  PROVE  /\ BaseInv' /\ step = 1 /\ item = <<item[1], 0>>
         /\ item[1] \in 0..(BatchSeeds - 1) /\ start_seed + item[1] \in Seeds
         /\ len["filter_seeds"] \in Nat
<1> DEFINE i == item[1]
<1>1. TypeOK /\ step \in Int BY StepType DEF BaseInv
<1>2. step = 1 BY <1>1, RunningStep DEF FilterSeed
<1>3. item \in (0..(BatchSeeds - 1)) \X {0} BY <1>2 DEF BaseInv, ItemsInv
<1>4. item = <<i, 0>> /\ i \in 0..(BatchSeeds - 1) BY <1>3
<1>5. start_seed + i \in Seeds BY <1>2, <1>4, BatchInSeeds DEF BaseInv
<1>6. len' \in [Stages -> Nat] /\ \A k \in Stages \ {"filter_seeds"} : len'[k] = len[k]
  BY <1>1, StagesTable DEF FilterSeed, TypeOK
<1>7. buffer_seeds' \in [0..(SeedCap - 1) -> Seeds \cup {NoSeed}]
  BY <1>1, <1>5 DEF FilterSeed, TypeOK
<1>8. rejected' \subseteq (Seeds \cup {NoSeed}) \X Centers \X Tiles
  BY <1>1, <1>5 DEF FilterSeed, TypeOK
<1>9. TypeOK' BY <1>1, <1>6, <1>7, <1>8 DEF FilterSeed, TypeOK, batchVars
<1>10. NotStarted'
  <2>1. \A t \in 1..14 : step < t => Kernels[t] # "filter_seeds" BY <1>2, AdvanceFacts
  <2>2. step' = step BY DEF FilterSeed
  <2> QED BY <2>1, <2>2, <1>6, KernelsTable DEF BaseInv, NotStarted
<1>11. ItemsInv' BY <1>2 DEF FilterSeed, BaseInv, ItemsInv, FilterSteps, LateSteps
<1>14. TornInv' BY DEF FilterSeed, BaseInv, TornInv
<1>12. StartInv' BY DEF FilterSeed, BaseInv, StartInv, batchVars
<1>13. len["filter_seeds"] \in Nat BY <1>1, StagesTable DEF TypeOK
<1> QED BY <1>2, <1>4, <1>5, <1>9, <1>10, <1>11, <1>12, <1>13,
           <1>14 DEF BaseInv

\* A warp of filter_2_0b reads an input that exists.
LEMMA ReadBase ==
  ASSUME BaseInv, NEW item \in todo, Filter2_0B_Read(item[1])
  PROVE  /\ BaseInv' /\ step = 6 /\ item = <<item[1], 0>> /\ item[1] \in Nat
         /\ item[1] < len[In[step]] /\ item[1] < MaxLen(In[step])
         /\ Entry(In[step], item[1]) \in Cells
         /\ todo' = todo \ {item}
         /\ held' = held \cup
              {[index |-> item[1], cell |-> Entry(In[step], item[1]), torn |-> FALSE]}
         /\ UNCHANGED <<step, batchVars, noiseVars, data, len, history>>
<1>1. TypeOK /\ DataOK /\ step \in Int
  BY StepType DEF BaseInv
<1>2. step = 6 BY <1>1, RunningStep DEF Filter2_0B_Read
<1>3. step \in FilterSteps BY <1>2 DEF FilterSteps
<1>4. item = <<item[1], 0>> /\ item[1] \in Nat /\ item[1] < len[In[step]]
  BY <1>2, <1>3, ItemFacts
<1>5. In[step] = "filter_gradvecs_2" BY <1>2, InTable
<1>6. item[1] < MaxLen(In[step]) BY <1>5 DEF Filter2_0B_Read
<1>7. Entry(In[step], item[1]) \in Cells BY <1>1, <1>4, <1>5, <1>6, EntryType, StagesTable
<1>8. /\ todo' = todo \ {item}
      /\ held' = held \cup
           {[index |-> item[1], cell |-> Entry(In[step], item[1]), torn |-> FALSE]}
      /\ UNCHANGED <<step, batchVars, noiseVars, data, len, history>>
  BY <1>4, <1>5 DEF Filter2_0B_Read
<1>13. held' \subseteq [index : Nat, cell : Cells, torn : BOOLEAN]
  <2>1. held \subseteq [index : Nat, cell : Cells, torn : BOOLEAN] BY <1>1 DEF TypeOK
  <2>2. PICK c \in Cells : c = Entry(In[step], item[1]) BY <1>7
  <2>3. [index |-> item[1], cell |-> c, torn |-> FALSE]
          \in [index : Nat, cell : Cells, torn : BOOLEAN]
    BY <1>4
  <2> QED BY <2>1, <2>2, <2>3, <1>8
<1>9. TypeOK' BY <1>1, <1>8, <1>13 DEF TypeOK, batchVars, noiseVars, history
<1>10. NotStarted' /\ StartInv' BY <1>8 DEF BaseInv, NotStarted, StartInv, batchVars
<1>11. ItemsInv' BY <1>2, <1>8 DEF BaseInv, ItemsInv, FilterSteps, LateSteps
<1>12. TornInv'
  <2>1. \A h \in held' : h \in held \/ ~h.torn BY <1>8
  <2> QED BY <2>1, <1>8 DEF BaseInv, TornInv, history
<1> QED BY <1>2, <1>4, <1>6, <1>7, <1>8, <1>9, <1>10, <1>11,
           <1>12 DEF BaseInv

\* A kernel reads behind the end only after an overflow.
LEMMA BehindBase ==
  ASSUME BaseInv, ReadBehindEnd
  PROVE  /\ BaseInv' /\ Overflowed /\ Overflowed' /\ step' # 0
         /\ \/ step' = step /\ held' = held /\ init_flags' = init_flags
            \/ step' = Undefined
<1>1. TypeOK /\ step \in Int BY StepType DEF BaseInv
<1>2. step \in 3..14 BY <1>1, KernelsTable DEF ReadBehindEnd
<1>3. step \in FilterSteps \cup LateSteps BY <1>2 DEF FilterSteps, LateSteps
<1>4. \E item \in todo : item[1] >= MaxLen(InputOf(Kernels[step]))
  BY DEF ReadBehindEnd, Kernel
<1>5. len[In[step]] > MaxLen(In[step]) /\ In[step] \in Stages
  <2>1. PICK item \in todo : item[1] >= MaxLen(In[step])
    BY <1>3, <1>4, FilterFacts, LateFacts
  <2>2. item[1] \in Nat /\ item[1] < len[In[step]] BY <1>3, ItemFacts
  <2>3. len[In[step]] \in Nat /\ In[step] \in Stages
    BY <1>1, <1>3, FilterFacts, LateFacts DEF TypeOK
  <2>4. MaxLen(In[step]) \in Nat BY CapAssumption DEF MaxLen
  <2> QED BY <2>1, <2>2, <2>3, <2>4
<1>6. len' = len /\ init_flags' = init_flags BY DEF ReadBehindEnd, noiseVars
<1>7. /\ todo' \subseteq todo /\ held' \subseteq held
      /\ \/ step' = step /\ held' = held
         \/ step' = Undefined /\ todo' = {} /\ held' = {}
  <2>1. PICK behind : \/ todo' = todo \ behind /\ UNCHANGED <<step, held>>
                      \/ step' = Undefined /\ todo' = {} /\ held' = {}
    BY DEF ReadBehindEnd
  <2> QED BY <2>1
<1>8. TypeOK'
  <2>1. step' \in {Undefined} \cup 0..(Last + 1) BY <1>1, <1>7 DEF TypeOK
  <2> QED BY <2>1, <1>1, <1>7 DEF ReadBehindEnd, TypeOK, batchVars, noiseVars, history
<1>9. NotStarted' BY <1>6, <1>7 DEF BaseInv, NotStarted, Undefined
<1>10. ItemsInv'
  BY <1>3, <1>6, <1>7 DEF BaseInv, ItemsInv, Undefined, FilterSteps, LateSteps
<1>11. StartInv'
  <2>1. start_seed' = start_seed /\ step # 0 BY <1>2 DEF ReadBehindEnd, batchVars
  <2> QED BY <2>1 DEF BaseInv, StartInv
<1>12. Overflowed /\ Overflowed' BY <1>5, <1>6 DEF Overflowed
<1>13. step' # 0 BY <1>2, <1>7 DEF Undefined
<1>14. TornInv' BY <1>7 DEF ReadBehindEnd, BaseInv, TornInv, history
<1> QED BY <1>6, <1>7, <1>8, <1>9, <1>10, <1>11, <1>12, <1>13, <1>14 DEF BaseInv

\* The host collects after the last kernel and is ready for the next batch.
LEMMA CollectBase ==
  ASSUME BaseInv, Collect
  PROVE  BaseInv' /\ step = 15 /\ step' = 0
<1>1. TypeOK BY DEF BaseInv
<1>2. step = 15 /\ step' = 0 BY KernelsTable DEF Collect
<1>3. TypeOK'
  <2>1. step' \in {Undefined} \cup 0..(Last + 1) BY <1>2, KernelsTable
  <2>2. warned' \subseteq Stages BY DEF Collect
  <2> QED BY <2>1, <2>2, <1>1 DEF Collect, TypeOK, noiseVars, history
<1>4. NotStarted' BY <1>2 DEF NotStarted
<1>5. ItemsInv' BY <1>2 DEF Collect, BaseInv, ItemsInv, FilterSteps, LateSteps
<1>7. TornInv' BY DEF Collect, BaseInv, TornInv, history
<1>6. StartInv' BY <1>2 DEF Collect, BaseInv, StartInv
<1> QED BY <1>2, <1>3, <1>4, <1>5, <1>6, <1>7 DEF BaseInv

-----------------------------------------------------------------------------
(***************************************************************************)
(* The noise and the candidates of a batch whose buffers do not overflow.  *)
(***************************************************************************)
\* A stage that has not overflowed has its outputs in its buffer.
LEMMA NoOverflow ==
  ASSUME TypeOK, ~Overflowed, NEW k \in Stages
  PROVE  len[k] \in Nat /\ len[k] <= MaxLen(k) /\ MaxLen(k) \in Nat
<1>1. len[k] \in Nat BY DEF TypeOK
<1>2. MaxLen(k) \in Nat BY CapAssumption DEF MaxLen
<1> QED BY <1>1, <1>2 DEF Overflowed

\* Once a stage has overflowed, the batch stays so.
LEMMA OverflowStays ==
  ASSUME TypeOK, ~Overflowed', \A k \in Stages : len'[k] \in Nat /\ len[k] <= len'[k]
  PROVE  ~Overflowed
<1> SUFFICES ASSUME NEW k \in Stages, len[k] > MaxLen(k) PROVE len'[k] > MaxLen(k)
  BY DEF Overflowed
<1>1. len[k] \in Nat /\ len'[k] \in Nat /\ len[k] <= len'[k] BY DEF TypeOK
<1>2. MaxLen(k) \in Nat BY CapAssumption DEF MaxLen
<1> QED BY <1>1, <1>2

\* Different cells of a stage stand for different candidates: no seed is in
\* the buffer twice.
LEMMA CoversDisjoint ==
  ASSUME SeedsInv, len["filter_seeds"] \in Nat, NEW a \in Cells, NEW b \in Cells, a # b,
         a.seed_index < len["filter_seeds"], b.seed_index < len["filter_seeds"],
         a.tile = NoTile <=> b.tile = NoTile
  PROVE  Covers(a) \cap Covers(b) = {}
<1> SUFFICES ASSUME NEW x \in Covers(a), x \in Covers(b) PROVE FALSE
  OBVIOUS
<1>1. /\ x[1] = buffer_seeds[a.seed_index] /\ x[1] = buffer_seeds[b.seed_index]
      /\ x[2] = a.center /\ x[2] = b.center
      /\ x[3] \in (IF a.tile = NoTile THEN Tiles ELSE {a.tile})
      /\ x[3] \in (IF b.tile = NoTile THEN Tiles ELSE {b.tile})
  BY DEF Covers
<1>2. a.seed_index \in Nat /\ b.seed_index \in Nat BY CapAssumption DEF Cells
<1>3. a.seed_index = b.seed_index
  <2>1. /\ a.seed_index \in 0..(len["filter_seeds"] - 1)
        /\ b.seed_index \in 0..(len["filter_seeds"] - 1)
    BY <1>2
  <2> QED BY <1>1, <2>1 DEF SeedsInv
<1>4. a.tile = b.tile BY <1>1
<1>5. /\ a = [seed_index |-> a.seed_index, center |-> a.center, tile |-> a.tile]
      /\ b = [seed_index |-> b.seed_index, center |-> b.center, tile |-> b.tile]
  BY DEF Cells
<1>6. a = b BY <1>1, <1>3, <1>4, <1>5
<1> QED BY <1>6

\* What is known of a batch between Claim and Collect.
Sound == SeedsInv /\ NoiseInv /\ InputInv /\ OutputInv /\ LateInv

\* The facts about a batch that runs and has not overflowed.
LEMMA SoundNow ==
  ASSUME IInv, step \in 1..15, ~Overflowed
  PROVE  Sound
  BY KernelsTable DEF IInv, BatchInv, Sound

\* A verdict on a cell of the running stage keeps all that.
LEMMA VerdictSound ==
  ASSUME IInv, ~Overflowed', step \in FilterSteps,
         NEW cell \in Cells, ~Overflowed => CellOf(Out[step], cell), Outcome(Out[step], cell),
         todo' \subseteq todo,
         ~Overflowed => \A h \in held' : CellOf("filter_gradvecs_2", h.cell),
         UNCHANGED <<step, batchVars, noiseVars>>
  PROVE  Sound' /\ ~Overflowed
<1> DEFINE k == Out[step]
           j == In[step]
<1>1. TypeOK /\ DataOK /\ step \in 1..14 /\ step >= 3
  BY FilterFacts DEF IInv, BaseInv, TypeOK, DataOK
<1>2. k \in Stages \ {"filter_seeds"} /\ j \in Stages /\ j # k BY FilterFacts
<1>3. /\ len' \in [Stages -> Nat] /\ DataOK'
      /\ \A i \in Stages \ {k} : len'[i] = len[i]
      /\ len'[k] \in {len[k], len[k] + 1}
      /\ \A b \in {"buffer_1", "buffer_2"} \ {Memory(k)} : data'[b] = data[b]
      /\ \A i \in DOMAIN data[Memory(k)] :
           data'[Memory(k)][i] = IF len' # len /\ i = len[k] THEN cell
                                                             ELSE data[Memory(k)][i]
  BY <1>1, <1>2, OutcomeEffect
<1>4. len \in [Stages -> Nat] BY <1>1 DEF TypeOK
<1>5. ~Overflowed
  <2>1. \A i \in Stages : len'[i] \in Nat /\ len[i] <= len'[i] BY <1>2, <1>3, <1>4
  <2> QED BY <2>1, <1>1, OverflowStays
<1>6. Sound BY <1>1, <1>5, SoundNow
<1>7. /\ start_seed' = start_seed /\ buffer_seeds' = buffer_seeds /\ results' = results
      /\ init_flags' = init_flags /\ step' = step
  BY DEF batchVars, noiseVars
<1>8. len'["filter_seeds"] = len["filter_seeds"] /\ len'[j] = len[j]
  BY <1>2, <1>3, StagesTable
<1>9. \A i : Live(i)' <=> Live(i) BY <1>7, <1>8 DEF Live
<1>10. \A i, c : CellOf(i, c)' <=> CellOf(i, c) BY <1>9 DEF CellOf
<1>12. SeedsInv' BY <1>1, <1>6, <1>7, <1>8 DEF Sound, SeedsInv
<1>13. NoiseInv' BY <1>6, <1>7, <1>8 DEF Sound, NoiseInv
<1>14. \A i \in Stages \ {"filter_seeds"}, m \in Nat :
         m < len[i] => /\ m \in DOMAIN data[Memory(i)] /\ Entry(i, m) \in Cells
  <2> TAKE i \in Stages \ {"filter_seeds"}, m \in Nat
  <2>1. len[i] \in Nat /\ len[i] <= MaxLen(i) /\ MaxLen(i) \in Nat
    BY <1>1, <1>5, NoOverflow
  <2> QED BY <2>1, <1>1, EntryType
<1>15. k \in Stages /\ len[k] \in Nat /\ len'[k] \in Nat /\ len'[k] <= MaxLen(k)
  <2>1. MaxLen(k) \in Nat BY CapAssumption DEF MaxLen
  <2>2. ~(len'[k] > MaxLen(k)) BY <1>2 DEF Overflowed
  <2> QED BY <2>1, <2>2, <1>2, <1>3, <1>4
<1>16. CellOf(k, cell) BY <1>5
<1>17. InputInv'
  <2>1. \A h \in held' : CellOf("filter_gradvecs_2", h.cell)'
    BY <1>5, <1>10
  <2>2. ASSUME step >= 4, NEW m \in 0..(len[j] - 1)
        PROVE  CellOf(j, data'[Memory(j)][m])
    <3>0. j # "filter_seeds" BY <2>2, <1>1, InTable DEF FilterSteps
    <3>1. m \in Nat /\ m < len[j] BY <2>2, <1>2, <1>4
    <3>2. CellOf(j, data[Memory(j)][m])
      BY <2>2, <1>6 DEF Sound, InputInv, Entry
    <3>3. CASE step # 6
      <4>1. Memory(j) # Memory(k) BY <2>2, <3>3, FilterFacts
      <4>2. data'[Memory(j)] = data[Memory(j)] BY <4>1, <1>3 DEF Memory
      <4> QED BY <3>2, <4>2
    <3>4. CASE step = 6
      <4>1. Memory(j) = Memory(k) BY <3>4, FilterFacts
      <4>2. m \in DOMAIN data[Memory(k)] BY <4>1, <3>0, <3>1, <1>2, <1>14
      <4>3. data'[Memory(j)][m] \in {cell, data[Memory(j)][m]} BY <4>1, <4>2, <1>3
      <4>4. CellOf(j, cell) BY <1>16, <3>4, InTable, OutTable DEF CellOf
      <4> QED BY <4>3, <4>4, <3>2
    <3> QED BY <3>3, <3>4
  <2> QED BY <2>1, <2>2, <1>7, <1>8, <1>10 DEF InputInv, Entry
<1>18. OutputInv'
  <2>1. ASSUME NEW m \in 0..(len'[k] - 1)
        PROVE  CellOf(k, data'[Memory(k)][m])
    <3>1. m \in Nat /\ m < MaxLen(k) /\ m < len'[k]
      <4>1. MaxLen(k) \in Nat BY CapAssumption DEF MaxLen
      <4> QED BY <4>1, <1>15
    <3>2. m \in DOMAIN data[Memory(k)] BY <3>1, <1>1, <1>2, EntryType
    <3>3. CASE m < len[k]
      <4>1. CellOf(k, data[Memory(k)][m])
        BY <3>1, <3>3, <1>1, <1>6, <1>15 DEF Sound, OutputInv, Entry
      <4>2. data'[Memory(k)][m] = data[Memory(k)][m] BY <3>1, <3>2, <3>3, <1>3, <1>15
      <4> QED BY <4>1, <4>2
    <3>4. CASE ~(m < len[k])
      <4>1. len' # len /\ m = len[k] BY <3>1, <3>4, <1>3, <1>15
      <4> QED BY <4>1, <3>2, <1>3, <1>16
    <3> QED BY <3>3, <3>4
  <2> QED BY <2>1, <1>7, <1>10 DEF OutputInv, Entry
<1>19. LateInv' BY <1>7 DEF LateInv, FilterSteps, LateSteps
<1> QED BY <1>5, <1>12, <1>13, <1>17, <1>18, <1>19 DEF Sound

\* The cell of a work item belongs to the running stage.
LEMMA ItemCellOf ==
  ASSUME IInv, ~Overflowed, NEW item \in todo, step \in FilterSteps
  PROVE  CellOf(Out[step], ItemCell(item))
<1>1. BaseInv /\ step \in 1..14 /\ step >= 3 BY FilterFacts DEF IInv
<1>2. Sound BY <1>1, SoundNow
<1>3. item[1] \in Nat /\ item[1] < len[In[step]] /\ (step = 5 => item[2] \in Tiles)
  BY <1>1, ItemFacts
<1>4. len[In[step]] \in Nat BY <1>1, FilterFacts DEF BaseInv, TypeOK
<1>5. item[1] \in 0..(len[In[step]] - 1) BY <1>3, <1>4
<1>6. CASE step = 3
  <2>1. In[3] = "filter_seeds" /\ Out[3] = "filter_gradvecs_1" BY InTable, OutTable
  <2>2. results[item[1]][0] = buffer_seeds[item[1]]
    BY <2>1, <1>2, <1>5, <1>6 DEF Sound, NoiseInv
  <2>3. Lates(step) = 0 BY <1>6 DEF Lates
  <2>4. Live(item[1]) BY <2>1, <2>2, <2>3, <1>3, <1>6 DEF Live
  <2> QED BY <2>1, <2>4, <1>6 DEF CellOf, ItemCell
<1>7. CASE step # 3
  <2>1. CellOf(In[step], Entry(In[step], item[1]))
    BY <1>1, <1>2, <1>5, <1>7 DEF Sound, InputInv
  <2>2. CASE step = 5
    <3>1. Out[5] = "filter_gradvecs_2" BY OutTable
    <3>2. ItemCell(item) = TileCell(Entry(In[5], item[1]), item[2]) BY <2>2 DEF ItemCell
    <3>3. item[2] # NoTile BY <1>3, <2>2, CapAssumption
    <3>4. Entry(In[5], item[1]) \in Cells
      <4>1. In[5] \in Stages \ {"filter_seeds"} BY InTable, StagesTable
      <4>2. len[In[5]] <= MaxLen(In[5]) /\ MaxLen(In[5]) \in Nat
        BY <4>1, <1>1, NoOverflow DEF BaseInv
      <4>3. DataOK BY <1>1 DEF BaseInv, TypeOK, DataOK
      <4> QED BY <4>1, <4>2, <4>3, <1>3, <1>4, <2>2, EntryType
    <3>5. ItemCell(item).seed_index = Entry(In[5], item[1]).seed_index
          /\ ItemCell(item).tile = item[2]
      BY <3>2, <3>4 DEF TileCell, Cells
    <3> QED BY <3>1, <3>3, <3>5, <2>1, <2>2 DEF CellOf
  <2>3. CASE step # 5
    <3>1. ItemCell(item) = Entry(In[step], item[1]) BY <1>7, <2>3 DEF ItemCell
    <3>2. In[step] \in {"filter_gradvecs_1", "filter_2_0a"} <=>
          Out[step] \in {"filter_gradvecs_1", "filter_2_0a"}
      BY <1>7, <2>3, FilterFacts
    <3> QED BY <3>1, <3>2, <2>1 DEF CellOf
  <2> QED BY <2>2, <2>3
<1> QED BY <1>6, <1>7

\* A filter that reads one buffer and writes the other.
LEMMA JudgeItemSound ==
  ASSUME IInv, ~Overflowed', NEW item \in todo,
         \/ GradVecs1(item[1], item[2]) \/ GradVecs2(item[1], item[2])
         \/ Filter2_0A(item[1])
         \/ \E k \in {"filter_2a", "filter_2b", "filter_2c", "filter_2d"} :
              Filter2(k, item[1])
  PROVE  Sound'
<1>1. /\ step \in FilterSteps
      /\ ItemCell(item) \in Cells /\ Decide(Out[step], ItemCell(item))
      /\ todo' = todo \ {item}
      /\ UNCHANGED <<step, batchVars, noiseVars, held, clobbered>>
  BY JudgeItem DEF IInv
<1>2. ~Overflowed => CellOf(Out[step], ItemCell(item)) BY <1>1, ItemCellOf
<1>3. Outcome(Out[step], ItemCell(item)) BY <1>1, DecideOutcome DEF IInv, BaseInv
<1>4. ASSUME ~Overflowed PROVE \A h \in held' : CellOf("filter_gradvecs_2", h.cell)
  BY <1>1, <1>4, FilterFacts, SoundNow DEF Sound, InputInv
<1> QED BY <1>1, <1>2, <1>3, <1>4, VerdictSound

\* filter_2_0b, where it writes: what it leaves to another warp is, if torn, a
\* cell with the seed of an input.
LEMMA JudgeHeldSound ==
  ASSUME IInv, ~Overflowed', NEW h \in held, Filter2_0B_Write(h)
  PROVE  Sound'
<1>1. /\ step = 6 /\ h.cell \in Cells /\ Outcome(Out[step], h.cell)
      /\ \A f \in held' : \/ f \in held
                          \/ \E g \in held : /\ f.cell.tile \in Tiles
                                            /\ f.cell.seed_index \in {g.cell.seed_index, h.cell.seed_index}
      /\ UNCHANGED <<step, batchVars, noiseVars, todo>>
  BY JudgeHeld DEF IInv
<1>2. ~Overflowed => \A g \in held : CellOf("filter_gradvecs_2", g.cell)
  BY <1>1, SoundNow DEF Sound, InputInv
<1>3. ~Overflowed => CellOf(Out[step], h.cell)
  BY <1>1, <1>2, OutTable DEF CellOf
<1>4. ASSUME ~Overflowed, NEW f \in held' PROVE CellOf("filter_gradvecs_2", f.cell)
  <2>1. CASE f \in held BY <2>1, <1>2, <1>4
  <2>2. ASSUME NEW g \in held, f.cell.tile \in Tiles,
               f.cell.seed_index \in {g.cell.seed_index, h.cell.seed_index}
        PROVE  CellOf("filter_gradvecs_2", f.cell)
    <3>1. Live(f.cell.seed_index) BY <2>2, <1>2, <1>4 DEF CellOf
    <3>2. f.cell.tile # NoTile BY <2>2, CapAssumption
    <3> QED BY <3>1, <3>2 DEF CellOf
  <2> QED BY <2>1, <2>2, <1>1
<1>5. step \in FilterSteps BY <1>1 DEF FilterSteps
<1> QED BY <1>1, <1>3, <1>4, <1>5, VerdictSound

\* filter_2_0b, where it reads: the warp holds a cell of the stage before.
LEMMA ReadSound ==
  ASSUME IInv, ~Overflowed', NEW item \in todo, Filter2_0B_Read(item[1])
  PROVE  Sound'
<1>1. /\ step = 6 /\ item[1] \in Nat /\ item[1] < len[In[step]]
      /\ todo' = todo \ {item}
      /\ held' = held \cup
           {[index |-> item[1], cell |-> Entry(In[step], item[1]), torn |-> FALSE]}
      /\ UNCHANGED <<step, batchVars, noiseVars, data, len, history>>
  BY ReadBase DEF IInv
<1>2. /\ start_seed' = start_seed /\ buffer_seeds' = buffer_seeds /\ results' = results
      /\ init_flags' = init_flags
  BY <1>1 DEF batchVars, noiseVars
<1>3. Sound
  <2>1. ~Overflowed BY <1>1 DEF Overflowed
  <2> QED BY <2>1, <1>1, SoundNow
<1>4. CellOf("filter_gradvecs_2", Entry(In[step], item[1]))
  <2>1. In[6] = "filter_gradvecs_2" BY InTable
  <2>2. len[In[step]] \in Nat BY <2>1, <1>1, StagesTable DEF IInv, BaseInv, TypeOK
  <2>3. item[1] \in 0..(len[In[step]] - 1) BY <2>2, <1>1
  <2> QED BY <2>1, <2>3, <1>1, <1>3 DEF Sound, InputInv
<1>5. \A k, c : CellOf(k, c)' <=> CellOf(k, c) BY <1>1, <1>2 DEF CellOf, Live
<1>6. SeedsInv' /\ NoiseInv' BY <1>1, <1>2, <1>3 DEF Sound, SeedsInv, NoiseInv
<1>7. OutputInv'
  BY <1>1, <1>2, <1>3, <1>5 DEF Sound, OutputInv, Entry
<1>8. InputInv'
  <2>1. \A h \in held' : CellOf("filter_gradvecs_2", h.cell)
    BY <1>1, <1>3, <1>4 DEF Sound, InputInv
  <2> QED BY <2>1, <1>1, <1>3, <1>5 DEF Sound, InputInv, Entry
<1>9. LateInv' BY <1>1 DEF LateInv, LateSteps
<1> QED BY <1>6, <1>7, <1>8, <1>9 DEF Sound

\* The outputs of a kernel that has ended are the inputs of the next one; after
\* a late initialisation their seeds have one group of octaves more.
LEMMA KernelEndsSound ==
  ASSUME IInv, ~Overflowed', KernelEnds
  PROVE  Sound'
<1>1. /\ step \in FilterSteps \cup LateSteps \cup {1} /\ step' = step + 1
      /\ todo = {} /\ held = {} /\ held' = {} /\ Advance
      /\ init_flags' = IF step = 6 THEN [i \in 0..(SeedCap - 1) |-> 0] ELSE init_flags
      /\ UNCHANGED <<batchVars, buffer_seeds, results, data, len, rejected, clobbered>>
  BY KernelEndsBase DEF IInv
<1>2. step \in 1..14 BY <1>1, FilterFacts, LateFacts
<1>3. start_seed' = start_seed BY <1>1 DEF batchVars
<1>4. Sound /\ ~Overflowed /\ TypeOK /\ DataOK
  <2>1. ~Overflowed BY <1>1 DEF Overflowed
  <2> QED BY <2>1, <1>2, SoundNow, StepType DEF IInv, BaseInv
<1>5. SeedsInv' BY <1>1, <1>2, <1>3, <1>4 DEF Sound, SeedsInv
<1>6. NoiseInv' \/ step = 1
  <2>1. step # 1 => step >= 3 BY <1>1, FilterFacts, LateFacts
  <2> QED BY <2>1, <1>1, <1>2, <1>4 DEF Sound, NoiseInv
<1>7. \A k, m : Entry(k, m)' = Entry(k, m) BY <1>1 DEF Entry
<1>8. step' \in FilterSteps => OutputInv'
  <2> SUFFICES ASSUME step' \in FilterSteps PROVE OutputInv'
    OBVIOUS
  <2>1. Out[step'] = Kernels[step'] /\ Kernels[step'] \in Stages /\ step' \in 1..14
    BY FilterFacts
  <2>2. len[Out[step']] = 0
    BY <2>1, <1>1, <1>2, KernelsTable DEF IInv, BaseInv, NotStarted
  <2> QED BY <2>2, <1>1 DEF OutputInv
<1>9. CASE step = 1
  BY <1>1, <1>5, <1>9 DEF Sound, NoiseInv, InputInv, OutputInv, LateInv, LateSteps
<1>10. CASE step \in FilterSteps
  <2>0. step >= 3 /\ step \notin LateSteps
    BY <1>10, FilterFacts DEF FilterSteps, LateSteps
  <2>1. Lates(step') = Lates(step) /\ In[step'] = Out[step] /\ Out[step] \in Stages \ {"filter_seeds"}
    BY <1>1, <1>2, <1>10, AdvanceFacts, FilterFacts
  <2>2. \A i : Live(i) => Live(i)'
    <3>1. step = 6 => Lates(step) = 0 BY DEF Lates
    <3> QED BY <3>1, <2>0, <2>1, <1>1 DEF Live
  <2>3. \A k, c : CellOf(k, c) => CellOf(k, c)' BY <2>2 DEF CellOf
  <2>4. \A m \in 0..(len[Out[step]] - 1) : CellOf(Out[step], Entry(Out[step], m))
    BY <2>0, <1>4 DEF Sound, OutputInv
  <2>5. InputInv'
    BY <2>1, <2>3, <2>4, <1>1, <1>7 DEF InputInv
  <2>6. OutputInv'
    <3>1. CASE step' \notin FilterSteps
      <4>1. Out[step'] = Out[step] BY <3>1, <1>1, <1>2, AdvanceFacts
      <4> QED BY <4>1, <2>3, <2>4, <1>1, <1>7 DEF OutputInv
    <3> QED BY <3>1, <1>8
  <2>7. LateInv'
    <3> SUFFICES ASSUME step' \in LateSteps, NEW m \in 0..(len[In[step']] - 1)
                 PROVE  /\ init_flags'[Entry(In[step'], m).seed_index] = Lates(step')
                        /\ <<m, 0>> \in todo'
      BY <1>1, <1>7 DEF LateInv
    <3>1. <<m, 0>> \in todo'
      <4>1. step < 14 BY <1>1, <1>2 DEF LateSteps
      <4>2. todo' = Items(Kernels[step']) BY <4>1, <1>1, KernelsTable DEF Advance
      <4> QED BY <4>2, ItemsTable
    <3>2. Live(Entry(In[step'], m).seed_index) BY <2>1, <2>4 DEF CellOf
    <3>3. CASE step = 6
      <4>1. len[Out[step]] \in Nat /\ len[Out[step]] <= MaxLen(Out[step]) /\ MaxLen(Out[step]) \in Nat
        BY <2>1, <1>4, NoOverflow
      <4>2. m \in Nat /\ m < MaxLen(Out[step]) BY <4>1, <2>1
      <4>3. Entry(Out[step], m) \in Cells BY <4>2, <2>1, <1>4, EntryType
      <4>4. Entry(Out[step], m).seed_index \in 0..(SeedCap - 1) BY <4>3 DEF Cells
      <4>5. Lates(step') = 0 BY <3>3, <2>1 DEF Lates
      <4> QED BY <4>4, <4>5, <3>1, <3>3, <2>1, <1>1
    <3>4. CASE step # 6
      <4>1. Lates(step) > 0 BY <3>4, <1>1, <1>10 DEF FilterSteps, LateSteps, Lates
      <4> QED BY <4>1, <3>1, <3>2, <3>4, <2>0, <2>1, <1>1 DEF Live
    <3> QED BY <3>3, <3>4
  <2> QED BY <2>0, <2>5, <2>6, <2>7, <1>5, <1>6 DEF Sound
<1>11. CASE step \in LateSteps
  <2>1. /\ step' \in FilterSteps /\ In[step'] = In[step] /\ step >= 4
        /\ Lates(step') = Lates(step) + 1 /\ Lates(step) \in 0..3
    BY <1>1, <1>11, LateFacts DEF LateSteps
  <2>2. \A m \in 0..(len[In[step]] - 1) : CellOf(In[step], Entry(In[step], m))'
    <3> TAKE m \in 0..(len[In[step]] - 1)
    <3>1. PICK c : c = Entry(In[step], m) OBVIOUS
    <3>2. CellOf(In[step], c) BY <3>1, <2>1, <1>4 DEF Sound, InputInv
    <3>3. /\ init_flags[c.seed_index] = Lates(step) + 1
          /\ results[c.seed_index][Lates(step) + 1] = buffer_seeds[c.seed_index]
      BY <3>1, <1>1, <1>4, <1>11 DEF Sound, LateInv, Reached
    <3>4. Live(c.seed_index)'
      <4>1. step # 6 BY <1>11 DEF LateSteps
      <4>2. \A g \in 0..Lates(step') : g \in 0..Lates(step) \/ g = Lates(step) + 1 BY <2>1
      <4> QED BY <4>1, <4>2, <3>2, <3>3, <2>1, <1>1 DEF CellOf, Live
    <3>5. Entry(In[step], m)' = c BY <3>1, <2>1, <1>1 DEF Entry
    <3> QED BY <3>2, <3>4, <3>5, <2>1 DEF CellOf
  <2>3. InputInv' BY <2>1, <2>2, <1>1 DEF InputInv
  <2>4. LateInv' BY <2>1 DEF LateInv, FilterSteps, LateSteps
  <2>5. step # 1 BY <1>11 DEF LateSteps
  <2> QED BY <2>1, <2>3, <2>4, <2>5, <1>5, <1>6, <1>8 DEF Sound
<1> QED BY <1>1, <1>9, <1>10, <1>11

\* init_seeds computes the first octaves of every seed in the buffer.
LEMMA InitSeedsSound ==
  ASSUME IInv, ~Overflowed', InitSeeds
  PROVE  Sound'
<1>1. step = 2 /\ step' = 3 BY InitSeedsBase DEF IInv
<1>2. TypeOK /\ held' = {} /\ len' = len /\ start_seed' = start_seed
      /\ buffer_seeds' = buffer_seeds
  BY <1>1 DEF IInv, BaseInv, ItemsInv, InitSeeds, batchVars, LateSteps
<1>3. ~Overflowed BY <1>2 DEF Overflowed
<1>4. Sound BY <1>1, <1>3, SoundNow
<1>5. SeedsInv' BY <1>1, <1>2, <1>4 DEF Sound, SeedsInv
<1>6. NoiseInv'
  <2>1. /\ len["filter_seeds"] \in Nat
        /\ \A m \in 0..(len["filter_seeds"] - 1) : m \in 0..(SeedCap - 1) /\ m < len["filter_seeds"]
    <3>1. len["filter_seeds"] \in Nat /\ len["filter_seeds"] <= SeedCap
      BY <1>2, <1>3, NoOverflow, StagesTable DEF MaxLen
    <3> QED BY <3>1, CapAssumption
  <2>2. \A m \in 0..(SeedCap - 1) : results[m] \in [0..4 -> Seeds \cup {NoSeed}]
    BY <1>2 DEF TypeOK
  <2>3. \A m \in 0..(len["filter_seeds"] - 1) : results'[m] = [results[m] EXCEPT ![0] = buffer_seeds[m]]
    BY <2>1 DEF InitSeeds
  <2>4. \A m \in 0..(len["filter_seeds"] - 1) : results'[m][0] = buffer_seeds[m]
    <3> TAKE m \in 0..(len["filter_seeds"] - 1)
    <3>1. results[m] \in [0..4 -> Seeds \cup {NoSeed}] BY <2>1, <2>2
    <3>2. DOMAIN results[m] = 0..4 /\ 0 \in 0..4 BY <3>1
    <3>3. results'[m] = [results[m] EXCEPT ![0] = buffer_seeds[m]] BY <2>3
    <3> QED BY <3>2, <3>3
  <2> QED BY <2>4, <1>2 DEF NoiseInv
<1>7. InputInv' BY <1>1, <1>2 DEF InputInv
<1>8. OutputInv'
  <2>1. Out[3] = Kernels[3] /\ Kernels[3] \in Stages BY OutTable, KernelsTable, StagesTable
  <2>2. len[Out[3]] = 0 BY <2>1, <1>1, KernelsTable DEF IInv, BaseInv, NotStarted
  <2> QED BY <2>2, <1>1, <1>2 DEF OutputInv
<1>9. LateInv' BY <1>1 DEF LateInv, LateSteps
<1> QED BY <1>5, <1>6, <1>7, <1>8, <1>9 DEF Sound

\* A thread tries the flag of its input's seed: if it is still down, the thread
\* raises it and goes on, otherwise another one has.
LEMMA LateFlagSound ==
  ASSUME IInv, ~Overflowed', NEW n \in 1..4, NEW item \in todo, LateFlag(n, item[1])
  PROVE  Sound'
<1>0. PICK cell : cell = Entry(In[step], item[1]) OBVIOUS
<1>1. /\ step \in LateSteps /\ Lates(step) = n - 1
      /\ item = <<item[1], 0>> /\ item[1] \in Nat /\ item[1] < len[In[step]]
      /\ cell \in Cells /\ todo' = todo \ {item}
      /\ \/ /\ init_flags[cell.seed_index] = n - 1
            /\ init_flags' = [init_flags EXCEPT ![cell.seed_index] = n]
            /\ held' = held \cup {[index |-> item[1], cell |-> cell, torn |-> FALSE]}
         \/ init_flags[cell.seed_index] # n - 1 /\ UNCHANGED <<init_flags, held>>
      /\ UNCHANGED <<step, batchVars, buffer_seeds, results, data, len, history>>
  BY <1>0, LateFlagBase DEF IInv
<1>2. start_seed' = start_seed BY <1>1 DEF batchVars
<1>3. ~Overflowed BY <1>1 DEF Overflowed
<1>4. /\ step \in 3..14 /\ step >= 4 /\ In[step] \in Stages /\ step \notin FilterSteps
      /\ In[step] \notin {"filter_gradvecs_1", "filter_2_0a"}
  BY <1>1, LateFacts DEF LateSteps
<1>5. Sound /\ TypeOK BY <1>3, <1>4, SoundNow DEF IInv, BaseInv
<1>6. \A k, c : CellOf(k, c)' <=> CellOf(k, c) BY <1>1 DEF CellOf, Live
<1>7. \A k, m : Entry(k, m)' = Entry(k, m) BY <1>1 DEF Entry
<1>8. SeedsInv' /\ NoiseInv' BY <1>1, <1>2, <1>4, <1>5 DEF Sound, SeedsInv, NoiseInv
<1>9. OutputInv' BY <1>1, <1>5, <1>6, <1>7 DEF Sound, OutputInv
<1>10. len[In[step]] \in Nat BY <1>4, <1>5 DEF TypeOK
<1>11. InputInv'
  <2>1. item[1] \in 0..(len[In[step]] - 1) BY <1>1, <1>10
  <2>2. CellOf("filter_gradvecs_2", cell)
    BY <2>1, <1>0, <1>4, <1>5 DEF Sound, InputInv, CellOf
  <2>3. \A h \in held' : h \in held \/ h.cell = cell BY <1>1
  <2> QED BY <2>2, <2>3, <1>1, <1>5, <1>6, <1>7 DEF Sound, InputInv
<1>12. LateInv'
  <2> SUFFICES ASSUME NEW m \in 0..(len[In[step]] - 1), NEW c, c = Entry(In[step], m)
               PROVE  \/ init_flags'[c.seed_index] = n - 1 /\ <<m, 0>> \in todo'
                      \/ Reached(n, c.seed_index)'
    BY <1>1, <1>7 DEF LateInv
  <2>1. \/ init_flags[c.seed_index] = n - 1 /\ <<m, 0>> \in todo
        \/ Reached(n, c.seed_index)
    BY <1>1, <1>5 DEF Sound, LateInv
  <2>2. \A h \in held : h \in held' BY <1>1
  <2>3. init_flags \in [0..(SeedCap - 1) -> 0..4] /\ cell.seed_index \in 0..(SeedCap - 1)
    BY <1>1, <1>5 DEF TypeOK, Cells
  <2>4. CASE UNCHANGED <<init_flags, held>> /\ init_flags[cell.seed_index] # n - 1
    <3>1. CASE Reached(n, c.seed_index) BY <3>1, <2>4, <1>1 DEF Reached
    <3>2. CASE init_flags[c.seed_index] = n - 1 /\ <<m, 0>> \in todo
      <4>1. <<m, 0>> # item
        <5>1. ASSUME <<m, 0>> = item PROVE FALSE
          <6>1. m = item[1] BY <5>1, <1>1
          <6> QED BY <6>1, <3>2, <2>4, <1>0
        <5> QED BY <5>1
      <4> QED BY <4>1, <3>2, <2>4, <1>1
    <3> QED BY <3>1, <3>2, <2>1
  <2>5. CASE /\ init_flags[cell.seed_index] = n - 1
             /\ init_flags' = [init_flags EXCEPT ![cell.seed_index] = n]
             /\ held' = held \cup {[index |-> item[1], cell |-> cell, torn |-> FALSE]}
    <3>1. PICK s : s = cell.seed_index OBVIOUS
    <3>2. /\ init_flags'[s] = n
          /\ \A i : i # s => init_flags'[i] = init_flags[i]
      BY <3>1, <2>3, <2>5
    <3>3. \E h \in held' : h.cell.seed_index = s
      <4>1. PICK h : h = [index |-> item[1], cell |-> cell, torn |-> FALSE] OBVIOUS
      <4>2. h \in held' /\ h.cell = cell BY <4>1, <2>5
      <4> QED BY <4>2, <3>1
    <3>4. CASE c.seed_index = s BY <3>2, <3>3, <3>4 DEF Reached
    <3>5. CASE c.seed_index # s
      <4>1. init_flags'[c.seed_index] = init_flags[c.seed_index] BY <3>2, <3>5
      <4>2. CASE Reached(n, c.seed_index) BY <4>1, <4>2, <2>2, <1>1 DEF Reached
      <4>3. CASE init_flags[c.seed_index] = n - 1 /\ <<m, 0>> \in todo
        <5>1. <<m, 0>> # item
          <6>1. ASSUME <<m, 0>> = item PROVE FALSE
            <7>1. m = item[1] BY <6>1, <1>1
            <7> QED BY <7>1, <3>1, <3>5, <1>0
          <6> QED BY <6>1
        <5> QED BY <5>1, <4>1, <4>3, <1>1
      <4> QED BY <4>2, <4>3, <2>1
    <3> QED BY <3>4, <3>5
  <2> QED BY <2>4, <2>5, <1>1
<1> QED BY <1>8, <1>9, <1>11, <1>12 DEF Sound

\* The thread that raised the flag writes the octaves of this group only.
LEMMA LateInitSound ==
  ASSUME IInv, ~Overflowed', NEW n \in 1..4, NEW h \in held, LateInit(n, h)
  PROVE  Sound'
<1>0. PICK s : s = h.cell.seed_index OBVIOUS
<1>1. /\ step \in LateSteps /\ Lates(step) = n - 1
      /\ s \in 0..(SeedCap - 1) /\ held' = held \ {h}
      /\ results'[s][n] = buffer_seeds[s]
      /\ \A i \in 0..(SeedCap - 1), g \in 0..4 :
           ~(i = s /\ g = n) => results'[i][g] = results[i][g]
      /\ UNCHANGED <<step, batchVars, buffer_seeds, init_flags, data, len, todo, history>>
  BY <1>0, LateInitBase DEF IInv
<1>2. start_seed' = start_seed BY <1>1 DEF batchVars
<1>3. ~Overflowed BY <1>1 DEF Overflowed
<1>4. /\ step \in 3..14 /\ step >= 4 /\ In[step] \in Stages \ {"filter_seeds"}
      /\ Out[step] = In[step]
  BY <1>1, LateFacts DEF LateSteps
<1>5. Sound /\ TypeOK /\ DataOK BY <1>3, <1>4, SoundNow, StepType DEF IInv, BaseInv
<1>6. \A i \in 0..(SeedCap - 1) : Live(i) => Live(i)'
  <2> SUFFICES ASSUME NEW i \in 0..(SeedCap - 1), Live(i) PROVE Live(i)'
    OBVIOUS
  <2>1. \A g \in 0..(n - 1) : g \in 0..4 /\ g # n OBVIOUS
  <2>2. \A g \in 0..(n - 1) : results'[i][g] = results[i][g] BY <2>1, <1>1
  <2> QED BY <2>2, <1>1 DEF Live
<1>7. \A k, c : c \in Cells /\ CellOf(k, c) => CellOf(k, c)'
  BY <1>6 DEF CellOf, Cells
<1>8. \A k, m : Entry(k, m)' = Entry(k, m) BY <1>1 DEF Entry
<1>9. SeedsInv' BY <1>1, <1>2, <1>4, <1>5 DEF Sound, SeedsInv
<1>10. NoiseInv'
  <2>1. \A m \in 0..(len["filter_seeds"] - 1) : m \in 0..(SeedCap - 1)
    <3>1. len["filter_seeds"] \in Nat /\ len["filter_seeds"] <= SeedCap
      BY <1>3, <1>5, NoOverflow, StagesTable DEF MaxLen
    <3> QED BY <3>1, CapAssumption
  <2>2. 0 \in 0..4 /\ 0 # n OBVIOUS
  <2>3. \A m \in 0..(len["filter_seeds"] - 1) : results'[m][0] = results[m][0]
    BY <2>1, <2>2, <1>1
  <2> QED BY <2>3, <1>1, <1>4, <1>5 DEF Sound, NoiseInv
<1>11. ASSUME NEW m \in 0..(len[In[step]] - 1)
       PROVE  Entry(In[step], m) \in Cells /\ CellOf(In[step], Entry(In[step], m))'
  <2>1. len[In[step]] \in Nat /\ len[In[step]] <= MaxLen(In[step]) /\ MaxLen(In[step]) \in Nat
    BY <1>3, <1>4, <1>5, NoOverflow
  <2>2. m \in Nat /\ m < MaxLen(In[step]) BY <2>1
  <2>3. PICK c : c = Entry(In[step], m) OBVIOUS
  <2>4. c \in Cells BY <2>2, <2>3, <1>4, <1>5, EntryType
  <2>5. CellOf(In[step], c) BY <2>3, <1>4, <1>5 DEF Sound, InputInv
  <2>8. PICK k : k = In[step] OBVIOUS
  <2>9. CellOf(k, c) BY <2>5, <2>8
  <2>10. CellOf(k, c)' BY <2>4, <2>9, <1>7
  <2>6. CellOf(In[step], c)' BY <2>8, <2>10, <1>1
  <2>7. Entry(In[step], m)' = c BY <2>3, <1>1 DEF Entry
  <2> QED BY <2>3, <2>4, <2>6, <2>7, <1>1 DEF CellOf
<1>12. InputInv'
  <2>1. \A g \in held : g.cell \in Cells
    <3>1. \A g \in held : g \in [index : Nat, cell : Cells, torn : BOOLEAN]
      BY <1>5 DEF TypeOK
    <3> QED BY <3>1
  <2>2. \A g \in held' : CellOf("filter_gradvecs_2", g.cell)'
    BY <2>1, <1>1, <1>5, <1>7 DEF Sound, InputInv
  <2> QED BY <2>2, <1>1, <1>11 DEF InputInv
<1>13. OutputInv' BY <1>1, <1>4, <1>11 DEF OutputInv
<1>14. LateInv'
  <2>1. ASSUME NEW i \in 0..(SeedCap - 1), Reached(n, i) PROVE Reached(n, i)'
    <3>0. n \in 0..4 OBVIOUS
    <3>1. CASE i = s BY <3>1, <2>1, <1>1 DEF Reached
    <3>2. CASE i # s
      <4>1. results'[i][n] = results[i][n] BY <3>0, <3>2, <1>1
      <4>2. \A g \in held : g.cell.seed_index = i => g \in held' BY <3>2, <1>0, <1>1
      <4> QED BY <4>1, <4>2, <2>1, <1>1 DEF Reached
    <3> QED BY <3>1, <3>2
  <2> SUFFICES ASSUME NEW m \in 0..(len[In[step]] - 1), NEW c, c = Entry(In[step], m)
               PROVE  \/ init_flags'[c.seed_index] = n - 1 /\ <<m, 0>> \in todo'
                      \/ Reached(n, c.seed_index)'
    BY <1>1, <1>8 DEF LateInv
  <2>2. c.seed_index \in 0..(SeedCap - 1) BY <1>11 DEF Cells
  <2>3. \/ init_flags[c.seed_index] = n - 1 /\ <<m, 0>> \in todo
        \/ Reached(n, c.seed_index)
    BY <1>1, <1>5 DEF Sound, LateInv
  <2> QED BY <2>1, <2>2, <2>3, <1>1
<1> QED BY <1>9, <1>10, <1>12, <1>13, <1>14 DEF Sound

\* KernelFilterSeeds puts no seed into the buffer twice.
LEMMA FilterSeedSound ==
  ASSUME IInv, ~Overflowed', NEW item \in todo, FilterSeed(item[1])
  PROVE  Sound'
<1> DEFINE i == item[1]
           n == len["filter_seeds"]
<1>1. /\ step = 1 /\ item = <<i, 0>> /\ i \in 0..(BatchSeeds - 1)
      /\ start_seed + i \in Seeds /\ n \in Nat /\ BaseInv'
  BY FilterSeedBase DEF IInv
<1>2. TypeOK /\ start_seed \in Int /\ BatchSeeds \in Nat
  <2>1. start_seed \in Nat BY <1>1, BatchInSeeds DEF IInv, BaseInv
  <2> QED BY <2>1, CapAssumption DEF IInv, BaseInv
<1>3. step' = 1 /\ start_seed' = start_seed /\ todo' = todo \ {<<i, 0>>} /\ held' = held
  BY <1>1 DEF FilterSeed, batchVars
<1>4. \A k \in Stages : len'[k] \in Nat /\ len[k] <= len'[k]
  <2>1. len \in [Stages -> Nat] BY <1>2 DEF TypeOK
  <2>2. len' = len \/ len' = [len EXCEPT !["filter_seeds"] = len["filter_seeds"] + 1]
    BY <1>1 DEF FilterSeed
  <2>3. "filter_seeds" \in Stages BY StagesTable
  <2> QED BY <2>1, <2>2, <2>3
<1>5. ~Overflowed BY <1>2, <1>4, OverflowStays
<1>6. SeedsInv BY <1>1, <1>5, SoundNow DEF Sound
<1>7. held = {} BY <1>1 DEF IInv, BaseInv, ItemsInv, LateSteps
<1>8. SeedsInv'
  <2>1. CASE UNCHANGED <<len, buffer_seeds>>
    BY <2>1, <1>1, <1>3, <1>6 DEF SeedsInv
  <2>2. CASE /\ len' = [len EXCEPT !["filter_seeds"] = @ + 1]
             /\ buffer_seeds' = [m \in 0..(SeedCap - 1) |->
                  IF m = n THEN start_seed + i ELSE buffer_seeds[m]]
    <3>1. len'["filter_seeds"] = n + 1 BY <2>2, <1>2, StagesTable DEF TypeOK
    <3>2. n + 1 <= SeedCap
      <4>1. ~(len'["filter_seeds"] > MaxLen("filter_seeds")) BY StagesTable DEF Overflowed
      <4> QED BY <4>1, <3>1, <1>1, CapAssumption DEF MaxLen
    <3>3. /\ \A m \in 0..(n - 1) : buffer_seeds'[m] = buffer_seeds[m]
          /\ buffer_seeds'[n] = start_seed + i
      BY <3>2, <2>2, <1>1, CapAssumption
    <3>4. \A m \in 0..n : m = n \/ m \in 0..(n - 1) BY <1>1
    <3>5. \A m \in 0..(n - 1) : /\ buffer_seeds[m] \in start_seed..(start_seed + BatchSeeds - 1)
                                /\ <<buffer_seeds[m] - start_seed, 0>> \notin todo
      BY <1>1, <1>6 DEF SeedsInv
    <3>6. \A m \in 0..(n - 1) : buffer_seeds[m] # start_seed + i
      <4> TAKE m \in 0..(n - 1)
      <4>1. (start_seed + i) - start_seed = i BY <1>1, <1>2
      <4> QED BY <4>1, <3>5, <1>1
    <3>7. /\ start_seed + i \in start_seed..(start_seed + BatchSeeds - 1)
          /\ (start_seed + i) - start_seed = i
      BY <1>1, <1>2
    <3>8. \A m \in 0..n : /\ buffer_seeds'[m] \in start_seed..(start_seed + BatchSeeds - 1)
                          /\ <<buffer_seeds'[m] - start_seed, 0>> \notin todo'
      <4> TAKE m \in 0..n
      <4>1. CASE m = n BY <4>1, <3>3, <3>7, <1>3
      <4>2. CASE m \in 0..(n - 1) BY <4>2, <3>3, <3>5, <1>3
      <4> QED BY <4>1, <4>2, <3>4
    <3>9. \A m, p \in 0..n : m # p => buffer_seeds'[m] # buffer_seeds'[p]
      BY <3>3, <3>4, <3>6, <1>6 DEF SeedsInv
    <3>10. 0..(len'["filter_seeds"] - 1) = 0..n BY <3>1, <1>1
    <3> QED BY <3>8, <3>9, <3>10, <1>3 DEF SeedsInv
  <2> QED BY <2>1, <2>2 DEF FilterSeed
<1> QED BY <1>3, <1>7, <1>8 DEF Sound, NoiseInv, InputInv, OutputInv, LateInv, LateSteps

\* A batch starts with nothing to be said about.
LEMMA ClaimSound ==
  ASSUME IInv, Claim
  PROVE  Sound'
<1>1. step' = 1 /\ len'["filter_seeds"] = 0 /\ held' = {}
  BY StagesTable DEF Claim, IInv, BaseInv, ItemsInv, LateSteps
<1>2. 0..(len'["filter_seeds"] - 1) = {} BY <1>1
<1> QED BY <1>1, <1>2 DEF Sound, SeedsInv, NoiseInv, InputInv, OutputInv, LateInv, LateSteps

\* What Collect pushes are the candidates of the last stage's cells, with seeds
\* of the batch that KernelFilterSeeds let through.
LEMMA CollectEffect ==
  ASSUME IInv, ~Overflowed, Collect
  PROVE  LET n == len["filter_2d"]
             cell(i) == Entry("filter_2d", i - 1)
         IN  /\ n \in Nat /\ pushed' = [i \in 1..n |->
                  <<buffer_seeds[cell(i).seed_index], cell(i).center, cell(i).tile>>]
             /\ \A i \in 1..n :
                  /\ cell(i) \in Cells /\ CellOf("filter_2d", cell(i))
                  /\ i - 1 \in 0..(n - 1)
                  /\ Covers(cell(i)) = {pushed'[i]}
                  /\ \E m \in 0..(len["filter_seeds"] - 1) : pushed'[i][1] = buffer_seeds[m]
                  /\ pushed'[i] \in (start_seed..(start_seed + BatchSeeds - 1)) \X Centers \X Tiles
<1> DEFINE n == len["filter_2d"]
           cell(i) == Entry("filter_2d", i - 1)
           out(i) == <<buffer_seeds[cell(i).seed_index], cell(i).center, cell(i).tile>>
<1>1. step = 15 /\ TypeOK /\ DataOK BY CollectBase DEF IInv, BaseInv, TypeOK, DataOK
<1>2. Sound BY <1>1, SoundNow
<1>3. n \in Nat /\ n <= MaxLen("filter_2d") /\ MaxLen("filter_2d") \in Nat
  BY <1>1, NoOverflow, StagesTable
<1>4. HostLen("filter_2d") = n BY <1>3 DEF HostLen
<1>5. pushed' = [i \in 1..n |-> out(i)] BY <1>4 DEF Collect, Entry, Memory
<1>6. ASSUME NEW i \in 1..n
      PROVE  /\ cell(i) \in Cells /\ CellOf("filter_2d", cell(i)) /\ i - 1 \in 0..(n - 1)
             /\ Covers(cell(i)) = {out(i)}
             /\ \E m \in 0..(len["filter_seeds"] - 1) : out(i)[1] = buffer_seeds[m]
             /\ out(i) \in (start_seed..(start_seed + BatchSeeds - 1)) \X Centers \X Tiles
  <2>1. i - 1 \in Nat /\ i - 1 < n /\ i - 1 < MaxLen("filter_2d") /\ i - 1 \in 0..(n - 1)
    BY <1>3
  <2>2. cell(i) \in Cells BY <2>1, <1>1, EntryType, StagesTable
  <2>3. CellOf("filter_2d", cell(i))
    BY <2>1, <1>1, <1>2, OutTable DEF Sound, OutputInv
  <2>4. cell(i).tile # NoTile /\ cell(i).seed_index < len["filter_seeds"]
    BY <2>3 DEF CellOf, Live
  <2>5. /\ cell(i).seed_index \in Nat /\ cell(i).center \in Centers
        /\ cell(i).tile \in Tiles \cup {NoTile}
    BY <2>2, CapAssumption DEF Cells
  <2>6. len["filter_seeds"] \in Nat BY <1>1, StagesTable DEF TypeOK
  <2> HIDE DEF cell
  <2>7. cell(i).seed_index \in 0..(len["filter_seeds"] - 1) BY <2>4, <2>5, <2>6
  <2>8. buffer_seeds[cell(i).seed_index] \in start_seed..(start_seed + BatchSeeds - 1)
    BY <2>7, <1>2 DEF Sound, SeedsInv
  <2>9. Covers(cell(i)) = {out(i)} BY <2>4 DEF Covers
  <2>10. out(i) \in (start_seed..(start_seed + BatchSeeds - 1)) \X Centers \X Tiles
    BY <2>4, <2>5, <2>8
  <2>11. \E m \in 0..(len["filter_seeds"] - 1) : out(i)[1] = buffer_seeds[m] BY <2>7
  <2> QED BY <2>1, <2>2, <2>3, <2>9, <2>10, <2>11 DEF cell
<1>7. \A i \in 1..n : pushed'[i] = out(i) BY <1>5
<1> QED BY <1>3, <1>5, <1>6, <1>7

\* A step that neither collects a batch nor waits for one leaves no batch
\* at its end.
LEMMA NotCollected ==
  ASSUME step' # 0
  PROVE  OwnSeeds'
  BY DEF OwnSeeds

\* Outside the late initialisations, and where no thread has raised a flag, there
\* is nothing to say of the flags.
LEMMA NoFlags ==
  ASSUME step' \notin LateSteps \/ held' = {}
  PROVE  FlagInv'
  BY DEF FlagInv

\* Of the threads with the same seed only the first finds the flag down.
LEMMA LateFlagFlags ==
  ASSUME IInv, NEW n \in 1..4, NEW item \in todo, LateFlag(n, item[1])
  PROVE  FlagInv'
<1>0. PICK cell : cell = Entry(In[step], item[1]) OBVIOUS
<1>1. /\ step \in LateSteps /\ Lates(step) = n - 1 /\ cell \in Cells /\ step' = step
      /\ \/ /\ init_flags[cell.seed_index] = n - 1
            /\ init_flags' = [init_flags EXCEPT ![cell.seed_index] = n]
            /\ held' = held \cup {[index |-> item[1], cell |-> cell, torn |-> FALSE]}
         \/ init_flags[cell.seed_index] # n - 1 /\ UNCHANGED <<init_flags, held>>
  BY <1>0, LateFlagBase DEF IInv
<1>2. /\ \A h \in held : init_flags[h.cell.seed_index] = n
      /\ \A g, h \in held : g.cell.seed_index = h.cell.seed_index => g = h
  BY <1>1 DEF IInv, BatchInv, FlagInv
<1>3. init_flags \in [0..(SeedCap - 1) -> 0..4] /\ cell.seed_index \in 0..(SeedCap - 1)
  BY <1>1 DEF IInv, BaseInv, TypeOK, Cells
<1>4. CASE UNCHANGED <<init_flags, held>> BY <1>1, <1>2, <1>4 DEF FlagInv
<1>5. CASE /\ init_flags[cell.seed_index] = n - 1
           /\ init_flags' = [init_flags EXCEPT ![cell.seed_index] = n]
           /\ held' = held \cup {[index |-> item[1], cell |-> cell, torn |-> FALSE]}
  <2>1. PICK s : s = cell.seed_index OBVIOUS
  <2>2. PICK new : new = [index |-> item[1], cell |-> cell, torn |-> FALSE] OBVIOUS
  <2>3. held' = held \cup {new} /\ new.cell.seed_index = s BY <2>1, <2>2, <1>5
  <2>4. init_flags'[s] = n /\ \A i : i # s => init_flags'[i] = init_flags[i]
    BY <2>1, <1>3, <1>5
  <2>5. \A h \in held : h.cell.seed_index # s BY <2>1, <1>2, <1>5
  <2>6. \A h \in held' : init_flags'[h.cell.seed_index] = n BY <2>3, <2>4, <2>5, <1>2
  <2>7. \A g, h \in held' : g.cell.seed_index = h.cell.seed_index => g = h
    BY <2>3, <2>5, <1>2
  <2> QED BY <2>6, <2>7, <1>1 DEF FlagInv
<1> QED BY <1>1, <1>4, <1>5

\* Before the first batch nothing is known, and nothing needs to be.
LEMMA InitIInv == Init => IInv
<1> SUFFICES ASSUME Init PROVE IInv
  OBVIOUS
<1>1. BaseInv BY InitBase
<1>2. step = 0 /\ pushed = << >> /\ held = {} BY DEF Init
<1>3. OwnSeeds /\ FlagInv BY <1>2 DEF OwnSeeds, FlagInv
<1> QED BY <1>1, <1>2, <1>3 DEF IInv, BatchInv

\* Every step keeps the invariant.
LEMMA NextIInv == IInv /\ [Next]_vars => IInv'
<1> SUFFICES ASSUME IInv, [Next]_vars PROVE IInv'
  OBVIOUS
<1> USE DEF IInv
<1>0. ASSUME BaseInv', step' # 0, ~Overflowed' => Sound', FlagInv' PROVE IInv'
  BY <1>0, NotCollected DEF BatchInv, Sound
<1>a. 0 \notin LateSteps /\ 1 \notin LateSteps /\ 3 \notin LateSteps /\ 6 \notin LateSteps
  BY DEF LateSteps
<1>1. CASE UNCHANGED vars
  <2> USE <1>1 DEF vars, batchVars, noiseVars, history
  <2>1. BaseInv' BY DEF BaseInv, TypeOK, NotStarted, ItemsInv, StartInv, TornInv
  <2>2. Overflowed' <=> Overflowed BY DEF Overflowed
  <2>3. OwnSeeds' BY <2>2 DEF BatchInv, OwnSeeds
  <2>4. SeedsInv => SeedsInv' BY DEF SeedsInv
  <2>5. NoiseInv => NoiseInv' BY DEF NoiseInv
  <2>6. InputInv => InputInv' BY DEF InputInv, CellOf, Live, Entry
  <2>7. OutputInv => OutputInv' BY DEF OutputInv, CellOf, Live, Entry
  <2>8. LateInv => LateInv' BY DEF LateInv, Reached, Entry
  <2>9. FlagInv' BY DEF BatchInv, FlagInv
  <2> QED BY <2>1, <2>2, <2>3, <2>4, <2>5, <2>6, <2>7, <2>8, <2>9 DEF BatchInv
<1>2. CASE Claim
  <2>1. step' # 0 /\ step' = 1 BY <1>2 DEF Claim
  <2>2. FlagInv' BY <2>1, <1>a, NoFlags
  <2> QED BY <1>0, <1>2, <2>1, <2>2, ClaimBase, ClaimSound
<1>3. CASE KernelEnds
  <2>1. BaseInv' /\ step \in FilterSteps \cup LateSteps \cup {1} /\ step' = step + 1 /\ held' = {}
    BY <1>3, KernelEndsBase
  <2>2. step' # 0 BY <2>1, FilterFacts, LateFacts
  <2>3. FlagInv' BY <2>1, NoFlags
  <2> QED BY <1>0, <1>3, <2>1, <2>2, <2>3, KernelEndsSound
<1>4. CASE InitSeeds
  <2>1. BaseInv' /\ step' # 0 /\ step' = 3 BY <1>4, InitSeedsBase
  <2>2. FlagInv' BY <2>1, <1>a, NoFlags
  <2> QED BY <1>0, <1>4, <2>1, <2>2, InitSeedsSound
<1>5. CASE Collect
  <2>1. BaseInv' /\ step' = 0 BY <1>5, CollectBase
  <2>2. len' = len /\ start_seed' = start_seed /\ buffer_seeds' = buffer_seeds
    BY <1>5 DEF Collect, noiseVars
  <2>3. ASSUME ~Overflowed', NEW i \in 1..Len(pushed')
        PROVE  /\ pushed'[i][1] \in start_seed..(start_seed + BatchSeeds - 1)
               /\ \E m \in 0..(len["filter_seeds"] - 1) : pushed'[i][1] = buffer_seeds[m]
    <3>1. ~Overflowed BY <2>2, <2>3 DEF Overflowed
    <3>2. PICK n : n = len["filter_2d"] OBVIOUS
    <3>3. /\ n \in Nat /\ \E f : pushed' = [m \in 1..n |-> f[m]]
      <4> DEFINE f == [m \in 1..n |-> <<buffer_seeds[Entry("filter_2d", m - 1).seed_index],
             Entry("filter_2d", m - 1).center, Entry("filter_2d", m - 1).tile>>]
      <4>1. n \in Nat /\ pushed' = f BY <1>5, <3>1, <3>2, CollectEffect
      <4>2. f = [m \in 1..n |-> f[m]] OBVIOUS
      <4> QED BY <4>1, <4>2
    <3>4. Len(pushed') = n BY <3>3
    <3>5. /\ \E m \in 0..(len["filter_seeds"] - 1) : pushed'[i][1] = buffer_seeds[m]
          /\ pushed'[i] \in (start_seed..(start_seed + BatchSeeds - 1)) \X Centers \X Tiles
      BY <1>5, <2>3, <3>1, <3>2, <3>4, CollectEffect
    <3> QED BY <3>5
  <2>4. OwnSeeds' BY <2>2, <2>3 DEF OwnSeeds
  <2>5. FlagInv' BY <2>1, <1>a, NoFlags
  <2> QED BY <2>1, <2>4, <2>5 DEF BatchInv
<1>6. CASE ReadBehindEnd
  <2>1. /\ BaseInv' /\ Overflowed' /\ step' # 0
        /\ \/ step' = step /\ held' = held /\ init_flags' = init_flags
           \/ step' = Undefined
    BY <1>6, BehindBase
  <2>2. FlagInv'
    <3>1. CASE step' = step /\ held' = held /\ init_flags' = init_flags
      BY <3>1 DEF BatchInv, FlagInv
    <3>2. CASE step' = Undefined
      <4>1. step' \notin LateSteps BY <3>2 DEF Undefined, LateSteps
      <4> QED BY <4>1, NoFlags
    <3> QED BY <3>1, <3>2, <2>1
  <2> QED BY <1>0, <2>1, <2>2
<1>7. ASSUME NEW n \in 1..4, NEW item \in todo, LateFlag(n, item[1]) PROVE IInv'
  <2>1. BaseInv' /\ step \in LateSteps /\ step' = step BY <1>7, LateFlagBase
  <2>2. step' # 0 BY <2>1, <1>a
  <2> QED BY <1>0, <1>7, <2>1, <2>2, LateFlagSound, LateFlagFlags
<1>12. ASSUME NEW n \in 1..4, NEW h \in held, LateInit(n, h) PROVE IInv'
  <2>1. /\ BaseInv' /\ step \in LateSteps /\ step' = step
        /\ held' = held \ {h} /\ init_flags' = init_flags
    BY <1>12, LateInitBase
  <2>2. step' # 0 BY <2>1, <1>a
  <2>3. FlagInv' BY <2>1 DEF BatchInv, FlagInv
  <2> QED BY <1>0, <1>12, <2>1, <2>2, <2>3, LateInitSound
<1>8. ASSUME NEW h \in held, Filter2_0B_Write(h) PROVE IInv'
  <2>1. /\ step = 6 /\ h.cell \in Cells /\ Outcome(Out[step], h.cell)
        /\ verdicts' \subseteq Cells \X BOOLEAN /\ clobbered' \in BOOLEAN
        /\ held' \subseteq [index : Nat, cell : Cells, torn : BOOLEAN]
        /\ ~clobbered' => ~clobbered /\ held' = held \ {h}
        /\ UNCHANGED <<step, batchVars, noiseVars, todo>>
    BY <1>8, JudgeHeld
  <2>2. TornInv' BY <2>1 DEF BaseInv, TornInv
  <2>3. step \in FilterSteps BY <2>1 DEF FilterSteps
  <2>4. BaseInv' BY <2>1, <2>2, <2>3, VerdictBase
  <2>5. step' # 0 /\ step' = 6 BY <2>1
  <2>6. FlagInv' BY <2>5, <1>a, NoFlags
  <2> QED BY <1>0, <1>8, <2>4, <2>5, <2>6, JudgeHeldSound
<1>9. ASSUME NEW item \in todo, FilterSeed(item[1]) PROVE IInv'
  <2>1. BaseInv' /\ step = 1 /\ step' = step BY <1>9, FilterSeedBase DEF FilterSeed
  <2>2. FlagInv' BY <2>1, <1>a, NoFlags
  <2> QED BY <1>0, <1>9, <2>1, <2>2, FilterSeedSound
<1>10. ASSUME NEW item \in todo, Filter2_0B_Read(item[1]) PROVE IInv'
  <2>1. BaseInv' /\ step = 6 /\ step' = step BY <1>10, ReadBase DEF Filter2_0B_Read
  <2>2. FlagInv' BY <2>1, <1>a, NoFlags
  <2> QED BY <1>0, <1>10, <2>1, <2>2, ReadSound
<1>11. ASSUME NEW item \in todo,
              \/ GradVecs1(item[1], item[2]) \/ GradVecs2(item[1], item[2])
              \/ Filter2_0A(item[1])
              \/ \E k \in {"filter_2a", "filter_2b", "filter_2c", "filter_2d"} :
                   Filter2(k, item[1])
       PROVE  IInv'
  <2>1. /\ step \in FilterSteps
        /\ ItemCell(item) \in Cells /\ Decide(Out[step], ItemCell(item))
        /\ todo' = todo \ {item}
        /\ UNCHANGED <<step, batchVars, noiseVars, held, clobbered>>
    BY <1>11, JudgeItem
  <2>2. /\ clobbered' \in BOOLEAN /\ TornInv' /\ TypeOK
        /\ held' \subseteq [index : Nat, cell : Cells, torn : BOOLEAN]
    BY <2>1 DEF BaseInv, TypeOK, TornInv
  <2>6. Outcome(Out[step], ItemCell(item)) /\ verdicts' \subseteq Cells \X BOOLEAN
    BY <2>1, <2>2, DecideOutcome
  <2>3. BaseInv' BY <2>1, <2>2, <2>6, VerdictBase
  <2>7. FlagInv'
    <3>1. step' \notin LateSteps BY <2>1 DEF FilterSteps, LateSteps
    <3> QED BY <3>1, NoFlags
  <2>4. step' # 0 BY <2>1, FilterFacts
  <2>5. ~Overflowed' => Sound' BY <1>11, JudgeItemSound
  <2> QED BY <1>0, <2>3, <2>4, <2>5, <2>7
<1> QED BY <1>1, <1>2, <1>3, <1>4, <1>5, <1>6, <1>7, <1>8, <1>9, <1>10, <1>11,
           <1>12 DEF Next

\* Between Claim and Collect the octaves, the cells and the outputs of a
\* batch are its own, and so are the seeds it pushes.
THEOREM BatchInvariant == Spec => []IInv
<1>1. Init => IInv BY InitIInv
<1>2. IInv /\ [Next]_vars => IInv' BY NextIInv
<1> QED BY <1>1, <1>2, PTL DEF Spec

\* The types of the buffers, for any sizes.
THEOREM TypeCorrect == Spec => []TypeOK
<1>1. IInv => TypeOK BY DEF IInv, BaseInv
<1> QED BY <1>1, BatchInvariant, PTL

\* Of the threads of a late initialisation that compete for the flag of a seed,
\* one goes on to write its octaves.
THEOREM OneThreadInitialises == Spec => []OneInitialiser
<1>1. IInv => OneInitialiser
  <2> SUFFICES ASSUME IInv, NEW n \in 1..4, Running(LateKernel(n)), NEW g \in held, NEW h \in held,
                      g.cell.seed_index = h.cell.seed_index
               PROVE  g = h
    BY DEF OneInitialiser
  <2>1. step \in Int BY StepType DEF IInv, BaseInv
  <2>2. step = 5 + 2 * n BY <2>1, LateStep
  <2>3. step \in LateSteps BY <2>2 DEF LateSteps
  <2> QED BY <2>3 DEF IInv, BatchInv, FlagInv
<1> QED BY <1>1, BatchInvariant, PTL

\* The groups of octaves a filter samples have been initialised before it.
LEMMA GroupsInitialised ==
  ASSUME NEW s \in FilterSteps, NEW o \in Octaves(Kernels[s])
  PROVE  Group(o) \in 0..Lates(s) /\ (s = 3 => Group(o) = 0)
<1>1. \/ s = 3 \/ s = 4 \/ s = 5 \/ s = 6 \/ s = 8 \/ s = 10 \/ s = 12 \/ s = 14
  BY DEF FilterSteps
<1> USE KernelsTable DEF Octaves, Group, Lates
<1>2. CASE s = 3 BY <1>2
<1>3. CASE s = 4 BY <1>3
<1>4. CASE s = 5 BY <1>4
<1>5. CASE s = 6 BY <1>5
<1>6. CASE s = 8 BY <1>6
<1>7. CASE s = 10 BY <1>7
<1>8. CASE s = 12 BY <1>8
<1>9. CASE s = 14 BY <1>9
<1> QED BY <1>1, <1>2, <1>3, <1>4, <1>5, <1>6, <1>7, <1>8, <1>9

\* No filter samples an octave that was not computed for the seed in this
\* batch: every late initialisation reaches all the seeds that are left.
THEOREM NoStaleOctaves == Spec => []OctavesFresh
<1>1. IInv => OctavesFresh
  <2> SUFFICES ASSUME IInv, ~Overflowed, NEW i \in Judged, NEW o \in Octaves(Kernel)
               PROVE  results[i][Group(o)] = buffer_seeds[i]
    BY DEF OctavesFresh
  <2>1. step \in 1..14
    BY KernelsTable DEF Judged, IInv, BaseInv, TypeOK, Undefined
  <2>2. Sound BY <2>1, SoundNow
  <2>3. step \in FilterSteps
    <3>1. Kernels[step] \in Stages /\ Kernels[step] # "filter_seeds"
      BY <2>1, StagesTable DEF Judged, Kernel
    <3> QED BY <2>1, <3>1, AdvanceFacts, KernelsTable
  <2>4. Group(o) \in 0..Lates(step) /\ (step = 3 => Group(o) = 0)
    BY <2>3, GroupsInitialised DEF Kernel
  <2>5. step # 3 => Kernels[step] # "filter_gradvecs_1"
    BY <2>3, KernelsTable DEF FilterSteps
  <2>6. CASE step = 3
    <3>1. \E item \in todo : i = item[1]
      BY <2>1, <2>6, KernelsTable DEF Judged, Kernel
    <3>2. i \in Nat /\ i < len["filter_seeds"]
      BY <3>1, <2>3, <2>6, ItemFacts, InTable DEF IInv
    <3>3. len["filter_seeds"] \in Nat BY StagesTable DEF IInv, BaseInv, TypeOK
    <3>4. results[i][0] = buffer_seeds[i]
      BY <3>2, <3>3, <2>2, <2>6 DEF Sound, NoiseInv
    <3> QED BY <3>4, <2>4, <2>6
  <2>7. CASE step # 3
    <3>1. Live(i)
      <4>1. i \in {data[Memory(In[step])][item[1]].seed_index : item \in todo}
                  \cup {h.cell.seed_index : h \in held}
        <5>1. InputOf(Kernels[step]) = In[step] BY <2>3, FilterFacts
        <5>2. Kernels[step] \in Stages \ {"filter_seeds"} BY <2>3, FilterFacts
        <5> QED BY <5>1, <5>2, <2>1, <2>5, <2>7, KernelsTable DEF Judged, Kernel
      <4>2. CASE \E h \in held : i = h.cell.seed_index
        BY <4>2, <2>2 DEF Sound, InputInv, CellOf
      <4>3. ASSUME NEW item \in todo, i = data[Memory(In[step])][item[1]].seed_index
            PROVE  Live(i)
        <5>1. item[1] \in Nat /\ item[1] < len[In[step]] BY <2>3, ItemFacts DEF IInv
        <5>2. len[In[step]] \in Nat BY <2>3, FilterFacts DEF IInv, BaseInv, TypeOK
        <5>3. item[1] \in 0..(len[In[step]] - 1) /\ step >= 4
          BY <5>1, <5>2, <2>3, <2>7 DEF FilterSteps
        <5> QED BY <5>3, <4>3, <2>2 DEF Sound, InputInv, CellOf, Entry
      <4> QED BY <4>1, <4>2, <4>3
    <3> QED BY <3>1, <2>4 DEF Live
  <2> QED BY <2>6, <2>7
<1> QED BY <1>1, BatchInvariant, PTL

-----------------------------------------------------------------------------
(***************************************************************************)
(* The second inductive invariant: no survivor is lost on its way through  *)
(* the chain, and none is on it twice.                                     *)
(***************************************************************************)
\* Until the positions are tried: the seed of a survivor waits for
\* KernelFilterSeeds or is in buffer_seeds ...
SeedsCovered ==
  \A x \in Survivors :
    \/ step = 1 /\ <<x[1] - start_seed, 0>> \in todo
    \/ \E m \in 0..(len["filter_seeds"] - 1) : buffer_seeds[m] = x[1]

\* ... and the seed of a rejected candidate neither waits nor is there.
SeedsAlive ==
  \A x \in rejected :
    /\ ~(step = 1 /\ <<x[1] - start_seed, 0>> \in todo)
    /\ \A m \in 0..(len["filter_seeds"] - 1) : buffer_seeds[m] # x[1]

\* What a filter has still to judge.
Waiting == IF step \in FilterSteps THEN todo ELSE {}
Holding == IF step \in FilterSteps THEN held ELSE {}

IsOutput(cell) == \E m \in 0..(len[Out[step]] - 1) : cell = Entry(Out[step], m)

\* From then on: a survivor belongs to a cell that is waiting to be judged,
\* held by a warp, or among the outputs.
Covered ==
  \A x \in Survivors :
    \/ \E item \in Waiting : x \in Covers(ItemCell(item))
    \/ \E h \in Holding : x \in Covers(h.cell)
    \/ \E m \in 0..(len[Out[step]] - 1) : x \in Covers(Entry(Out[step], m))

\* Those cells are all different.
Unique ==
  /\ \A m, n \in 0..(len[Out[step]] - 1) :
       m # n => Entry(Out[step], m) # Entry(Out[step], n)
  /\ \A item \in Waiting : ~IsOutput(ItemCell(item))
  /\ \A h \in Holding : ~IsOutput(h.cell)
  /\ \A item \in Waiting, h \in Holding : ItemCell(item) # h.cell
  /\ \A i, j \in Waiting : i # j => ItemCell(i) # ItemCell(j)
  /\ \A g, h \in Holding : g # h => g.cell # h.cell

\* No filter has rejected a candidate of theirs.
Alive ==
  /\ \A item \in Waiting : Covers(ItemCell(item)) \cap rejected = {}
  /\ \A h \in Holding : Covers(h.cell) \cap rejected = {}
  /\ \A m \in 0..(len[Out[step]] - 1) : Covers(Entry(Out[step], m)) \cap rejected = {}

CompleteInv ==
  /\ step \in 1..2 /\ ~Overflowed => SeedsCovered /\ SeedsAlive
  /\ step \in 3..(Last + 1) /\ ~Overflowed /\ ~clobbered => Covered /\ Unique /\ Alive
  /\ CompleteUnlessDisturbed

CInv == IInv /\ CompleteInv

-----------------------------------------------------------------------------
(***************************************************************************)
(* A verdict.                                                              *)
(***************************************************************************)
\* A verdict only adds to the outputs.
LEMMA VerdictOverflow ==
  ASSUME TypeOK, ~Overflowed', NEW k \in Stages \ {"filter_seeds"}, NEW cell \in Cells,
         Outcome(k, cell)
  PROVE  ~Overflowed
<1>1. /\ len' \in [Stages -> Nat]
      /\ \A j \in Stages \ {k} : len'[j] = len[j]
      /\ len'[k] \in {len[k], len[k] + 1}
  BY OutcomeEffect
<1>2. len \in [Stages -> Nat] BY DEF TypeOK
<1>3. \A i \in Stages : len'[i] \in Nat /\ len[i] <= len'[i] BY <1>1, <1>2
<1> QED BY <1>3, OverflowStays

\* A verdict appends the cell behind the outputs there are, or it leaves the
\* outputs alone and rejects the cell's candidates.
LEMMA OutputEffect ==
  ASSUME TypeOK, ~Overflowed', NEW k \in Stages \ {"filter_seeds"}, NEW cell \in Cells,
         Decide(k, cell)
  PROVE  /\ len[k] \in Nat
         /\ \A m \in 0..(len[k] - 1) : data'[Memory(k)][m] = Entry(k, m)
         /\ \/ /\ len'[k] = len[k] + 1 /\ rejected' = rejected
               /\ data'[Memory(k)][len[k]] = cell
            \/ len' = len /\ rejected' = rejected \cup Covers(cell)
<1>0. Outcome(k, cell) BY DecideOutcome
<1>1. /\ len' \in [Stages -> Nat]
      /\ \A j \in Stages \ {k} : len'[j] = len[j]
      /\ len'[k] \in {len[k], len[k] + 1}
      /\ \A i \in DOMAIN data[Memory(k)] :
           data'[Memory(k)][i] = IF len' # len /\ i = len[k] THEN cell
                                                             ELSE data[Memory(k)][i]
  BY <1>0, OutcomeEffect
<1>2. len \in [Stages -> Nat] /\ DataOK BY DEF TypeOK, DataOK
<1>3. ~Overflowed BY <1>0, VerdictOverflow
<1>4. len[k] \in Nat /\ len[k] <= MaxLen(k) /\ MaxLen(k) \in Nat
  BY <1>3, NoOverflow
<1>5. ASSUME NEW m \in 0..(len[k] - 1)
      PROVE  data'[Memory(k)][m] = Entry(k, m)
  <2>1. m \in Nat /\ m < MaxLen(k) /\ m # len[k] BY <1>4
  <2>2. m \in DOMAIN data[Memory(k)] BY <2>1, <1>2, EntryType
  <2> QED BY <2>1, <2>2, <1>1 DEF Entry
<1>6. CASE Output(k, cell) /\ UNCHANGED rejected
  <2>1. len' = [len EXCEPT ![k] = @ + 1] BY <1>6 DEF Output
  <2>2. len'[k] = len[k] + 1 /\ len' # len BY <2>1, <1>2, <1>4
  <2>3. len[k] < MaxLen(k)
    <3>1. ~(len'[k] > MaxLen(k)) BY DEF Overflowed
    <3> QED BY <3>1, <2>2, <1>4
  <2>4. len[k] \in DOMAIN data[Memory(k)] BY <2>3, <1>2, <1>4, EntryType
  <2> QED BY <2>2, <2>4, <1>1, <1>4, <1>5, <1>6
<1>7. CASE rejected' = rejected \cup Covers(cell) /\ UNCHANGED <<len, data>>
  BY <1>4, <1>5, <1>7
<1> QED BY <1>6, <1>7, DecideOutcome

\* The cells a running filter has to do with are cells of its stage.
LEMMA StageCells ==
  ASSUME IInv, ~Overflowed, step \in FilterSteps
  PROVE  /\ \A item \in todo : ItemCell(item) \in Cells /\ CellOf(Out[step], ItemCell(item))
         /\ \A h \in held : h.cell \in Cells /\ CellOf(Out[step], h.cell)
         /\ \A m \in 0..(len[Out[step]] - 1) :
              /\ Entry(Out[step], m) \in Cells
              /\ CellOf(Out[step], Entry(Out[step], m))
<1>1. BaseInv /\ TypeOK /\ DataOK /\ step \in 1..14 /\ step >= 3
  BY FilterFacts, StepType DEF IInv, BaseInv
<1>2. Sound BY <1>1, SoundNow
<1>3. ASSUME NEW k \in Stages \ {"filter_seeds"}, NEW m \in 0..(len[k] - 1)
      PROVE  Entry(k, m) \in Cells
  <2>1. len[k] \in Nat /\ len[k] <= MaxLen(k) /\ MaxLen(k) \in Nat BY <1>1, NoOverflow
  <2>2. m \in Nat /\ m < MaxLen(k) BY <2>1
  <2> QED BY <2>2, <1>1, EntryType
<1>4. ASSUME NEW item \in todo PROVE ItemCell(item) \in Cells
  <2>1. /\ item[1] \in Nat /\ item[1] < len[In[step]]
        /\ step = 3 => item[2] \in Centers
        /\ step = 5 => item[2] \in Tiles
    BY <1>1, ItemFacts
  <2>2. len[In[step]] \in Nat /\ In[step] \in Stages BY <1>1, FilterFacts DEF TypeOK
  <2>3. item[1] \in 0..(len[In[step]] - 1) BY <2>1, <2>2
  <2>4. CASE step = 3
    <3>1. len[In[step]] <= SeedCap BY <2>4, <1>1, InTable, StagesTable, NoOverflow DEF MaxLen
    <3>2. item[1] \in 0..(SeedCap - 1) BY <3>1, <2>1, <2>2, CapAssumption
    <3> QED BY <3>2, <2>1, <2>4 DEF ItemCell, Cells
  <2>5. CASE step # 3
    <3>1. In[step] # "filter_seeds" BY <2>5, InTable DEF FilterSteps
    <3>2. Entry(In[step], item[1]) \in Cells BY <3>1, <2>2, <2>3, <1>3
    <3>3. CASE step = 5
      <4>1. ItemCell(item) = TileCell(Entry(In[step], item[1]), item[2])
        BY <3>3 DEF ItemCell
      <4> QED BY <4>1, <3>2, <3>3, <2>1 DEF TileCell, Cells
    <3>4. CASE step # 5 BY <3>2, <3>4, <2>5 DEF ItemCell
    <3> QED BY <3>3, <3>4
  <2> QED BY <2>4, <2>5
<1>5. ASSUME NEW h \in held PROVE h.cell \in Cells /\ CellOf(Out[step], h.cell)
  <2>1. h \in [index : Nat, cell : Cells, torn : BOOLEAN] BY <1>1 DEF TypeOK
  <2>2. step = 6 BY <1>1 DEF BaseInv, ItemsInv, FilterSteps, LateSteps
  <2>3. CellOf("filter_gradvecs_2", h.cell) BY <1>2 DEF Sound, InputInv
  <2> QED BY <2>1, <2>2, <2>3, OutTable DEF CellOf
<1>6. \A item \in todo : CellOf(Out[step], ItemCell(item)) BY ItemCellOf
<1>7. ASSUME NEW m \in 0..(len[Out[step]] - 1)
      PROVE  Entry(Out[step], m) \in Cells /\ CellOf(Out[step], Entry(Out[step], m))
  BY <1>1, <1>2, <1>3, FilterFacts DEF Sound, OutputInv
<1> QED BY <1>4, <1>5, <1>6, <1>7

\* They stand for different candidates.
LEMMA StageDisjoint ==
  ASSUME IInv, ~Overflowed, step \in FilterSteps, NEW a \in Cells, NEW b \in Cells, a # b,
         CellOf(Out[step], a), CellOf(Out[step], b)
  PROVE  Covers(a) \cap Covers(b) = {}
<1>1. SeedsInv BY FilterFacts, SoundNow DEF Sound
<1>2. len["filter_seeds"] \in Nat BY StagesTable DEF IInv, BaseInv, TypeOK
<1>3. /\ a.seed_index < len["filter_seeds"] /\ b.seed_index < len["filter_seeds"]
      /\ a.tile = NoTile <=> b.tile = NoTile
  BY DEF CellOf, Live
<1> QED BY <1>1, <1>2, <1>3, CoversDisjoint

\* A verdict on a waiting cell loses no survivor and doubles none, if it
\* takes this cell from the waiting ones and leaves the others as they were.
LEMMA VerdictTrack ==
  ASSUME IInv, ~Overflowed', step \in FilterSteps, NEW cell \in Cells,
         Decide(Out[step], cell), UNCHANGED <<step, batchVars, noiseVars>>,
         todo' \subseteq todo, held' \subseteq held,
         \A i \in todo' : ItemCell(i)' = ItemCell(i),
         \A i \in todo : i \in todo' \/ ItemCell(i) = cell,
         \A h \in held : h \in held' \/ h.cell = cell,
         \A i \in todo' : ItemCell(i) # cell,
         \A h \in held' : h.cell # cell,
         CellOf(Out[step], cell), Covers(cell) \cap rejected = {},
         ~IsOutput(cell), Covered, Unique, Alive
  PROVE  Covered' /\ Unique' /\ Alive'
<1>0. PICK k : k = Out[step] OBVIOUS
<1>1. k \in Stages \ {"filter_seeds"} BY <1>0, FilterFacts
<1>2. TypeOK BY DEF IInv, BaseInv
<1>3. /\ len[k] \in Nat
      /\ \A m \in 0..(len[k] - 1) : data'[Memory(k)][m] = Entry(k, m)
      /\ \/ /\ len'[k] = len[k] + 1 /\ rejected' = rejected
            /\ data'[Memory(k)][len[k]] = cell
         \/ len' = len /\ rejected' = rejected \cup Covers(cell)
  BY <1>0, <1>1, <1>2, OutputEffect
<1>4. PICK new : new = [m \in Nat |-> data'[Memory(k)][m]] OBVIOUS
<1>5. \A m \in Nat : Entry(k, m)' = new[m] BY <1>4 DEF Entry
<1>6. k = Out[step]' /\ step' = step BY <1>0
<1>15. Waiting = todo /\ Holding = held /\ Waiting' = todo' /\ Holding' = held'
  BY <1>6 DEF Waiting, Holding
<1>16. ~Overflowed
  <2>1. Outcome(Out[step], cell) BY <1>2, DecideOutcome
  <2> QED BY <2>1, <1>0, <1>1, <1>2, VerdictOverflow
<1>17. ASSUME NEW c \in Cells, CellOf(Out[step], c), c # cell, Covers(c) \cap rejected = {}
       PROVE  Covers(c) \cap (rejected \cup Covers(cell)) = {}
  BY <1>16, <1>17, StageDisjoint
<1>18. /\ \A i \in todo' : /\ ItemCell(i) \in Cells /\ CellOf(Out[step], ItemCell(i))
                           /\ Covers(ItemCell(i)) \cap rejected = {}
       /\ \A h \in held' : /\ h.cell \in Cells /\ CellOf(Out[step], h.cell)
                           /\ Covers(h.cell) \cap rejected = {}
       /\ \A m \in 0..(len[k] - 1) : /\ Entry(k, m) \in Cells /\ CellOf(Out[step], Entry(k, m))
                                     /\ Covers(Entry(k, m)) \cap rejected = {}
  BY <1>0, <1>15, <1>16, StageCells DEF Alive
<1>7. /\ buffer_seeds' = buffer_seeds /\ start_seed' = start_seed
  BY DEF batchVars, noiseVars
<1>8. \A c : Covers(c)' = Covers(c) BY <1>7 DEF Covers
<1>9. PICK n \in Nat : n = len'[k] BY <1>3
<1>10. \A m \in 0..(len[k] - 1) : new[m] = Entry(k, m) /\ m \in Nat BY <1>3, <1>4
<1>11. ~ \E m \in 0..(len[k] - 1) : cell = Entry(k, m) BY <1>0 DEF IsOutput
<1>12. CASE n = len[k] + 1 /\ rejected' = rejected /\ new[len[k]] = cell
  <2>0. \A m \in 0..(n - 1) : m \in Nat /\ (m \in 0..(len[k] - 1) \/ m = len[k])
        /\ len[k] \in 0..(n - 1) /\ \A q \in 0..(len[k] - 1) : q \in 0..(n - 1)
    BY <1>3, <1>12
  <2>1. Survivors' = Survivors BY <1>7, <1>12 DEF Survivors
  <2>2. \A c : IsOutput(c)' <=> IsOutput(c) \/ c = cell
    <3>1. \A c : IsOutput(c)' <=> \E m \in 0..(n - 1) : c = new[m]
      BY <2>0, <1>5, <1>6, <1>9 DEF IsOutput
    <3>2. \A c : IsOutput(c) <=> \E m \in 0..(len[k] - 1) : c = new[m]
      BY <1>0, <1>10 DEF IsOutput
    <3> QED BY <3>1, <3>2, <2>0, <1>3, <1>12
  <2>3. Covered'
    <3>1. \A x \in Survivors :
            \/ \E item \in todo' : x \in Covers(ItemCell(item))
            \/ \E h \in held' : x \in Covers(h.cell)
            \/ \E m \in 0..(n - 1) : x \in Covers(new[m])
      <4> TAKE x \in Survivors
      <4>1. x \in Covers(cell) => \E m \in 0..(n - 1) : x \in Covers(new[m])
        BY <2>0, <1>3, <1>12
      <4>2. CASE \E item \in todo : x \in Covers(ItemCell(item)) BY <4>1, <4>2
      <4>3. CASE \E h \in held : x \in Covers(h.cell) BY <4>1, <4>3
      <4>4. CASE \E m \in 0..(len[k] - 1) : x \in Covers(Entry(k, m))
        BY <4>4, <2>0, <1>10, <1>12, <1>3
      <4> QED BY <4>2, <4>3, <4>4, <1>0, <1>15 DEF Covered
    <3> QED BY <3>1, <2>0, <2>1, <1>5, <1>6, <1>8, <1>9, <1>15 DEF Covered
  <2>4. Unique'
    <3>1. \A m, q \in 0..(n - 1) : m # q => new[m] # new[q]
      <4>1. \A m, q \in 0..(len[k] - 1) : m # q => Entry(k, m) # Entry(k, q)
        BY <1>0 DEF Unique
      <4> QED BY <4>1, <2>0, <1>10, <1>11, <1>12
    <3>2. \A m, q \in 0..(len[Out[step]] - 1)' :
            m # q => Entry(Out[step], m)' # Entry(Out[step], q)'
      BY <3>1, <2>0, <1>5, <1>6, <1>9
    <3>3. /\ \A i \in todo' : ~IsOutput(ItemCell(i))'
          /\ \A h \in held' : ~IsOutput(h.cell)'
      BY <2>2, <1>15 DEF Unique, IsOutput
    <3> QED BY <3>2, <3>3, <1>15 DEF Unique
  <2>5. Alive'
    <3>1. \A m \in 0..(n - 1) : Covers(new[m]) \cap rejected = {}
      BY <2>0, <1>10, <1>12, <1>18
    <3>2. \A m \in 0..(len[Out[step]] - 1)' : (Covers(Entry(Out[step], m)) \cap rejected = {})'
      BY <3>1, <2>0, <1>5, <1>6, <1>8, <1>9, <1>12
    <3> QED BY <3>2, <1>8, <1>12, <1>15, <1>18 DEF Alive
  <2> QED BY <2>3, <2>4, <2>5
<1>13. CASE len' = len /\ rejected' = rejected \cup Covers(cell)
  <2>0. n = len[k] BY <1>9, <1>13
  <2>1. Survivors' = Survivors \ Covers(cell) BY <1>7, <1>13 DEF Survivors
  <2>2. \A c : IsOutput(c)' <=> IsOutput(c)
    BY <2>0, <1>0, <1>5, <1>6, <1>9, <1>10 DEF IsOutput
  <2>3. Covered'
    <3>1. \A x \in Survivors \ Covers(cell) :
            \/ \E item \in todo' : x \in Covers(ItemCell(item))
            \/ \E h \in held' : x \in Covers(h.cell)
            \/ \E m \in 0..(n - 1) : x \in Covers(new[m])
      <4> TAKE x \in Survivors \ Covers(cell)
      <4>2. CASE \E item \in todo : x \in Covers(ItemCell(item)) BY <4>2
      <4>3. CASE \E h \in held : x \in Covers(h.cell) BY <4>3
      <4>4. CASE \E m \in 0..(len[k] - 1) : x \in Covers(Entry(k, m))
        BY <4>4, <2>0, <1>10
      <4> QED BY <4>2, <4>3, <4>4, <1>0, <1>15 DEF Covered
    <3> QED BY <3>1, <2>0, <2>1, <1>3, <1>5, <1>6, <1>8, <1>9, <1>10, <1>15 DEF Covered
  <2>4. Unique'
    <3>1. \A m, q \in 0..(n - 1) : m # q => new[m] # new[q]
      BY <2>0, <1>0, <1>10 DEF Unique
    <3>2. \A m, q \in 0..(len[Out[step]] - 1)' :
            m # q => Entry(Out[step], m)' # Entry(Out[step], q)'
      BY <3>1, <2>0, <1>5, <1>6, <1>9, <1>10
    <3>3. /\ \A i \in todo' : ~IsOutput(ItemCell(i))'
          /\ \A h \in held' : ~IsOutput(h.cell)'
      BY <2>2, <1>15 DEF Unique, IsOutput
    <3> QED BY <3>2, <3>3, <1>15 DEF Unique
  <2>5. Alive'
    <3>1. \A m \in 0..(n - 1) : Covers(new[m]) \cap rejected' = {}
      BY <2>0, <1>10, <1>11, <1>13, <1>17, <1>18
    <3>2. \A m \in 0..(len[Out[step]] - 1)' : (Covers(Entry(Out[step], m)) \cap rejected = {})'
      BY <3>1, <2>0, <1>5, <1>6, <1>8, <1>9, <1>10
    <3>3. \A i \in todo' : Covers(ItemCell(i)) \cap rejected' = {} BY <1>13, <1>17, <1>18
    <3>4. \A h \in held' : Covers(h.cell) \cap rejected' = {} BY <1>13, <1>17, <1>18
    <3> QED BY <3>2, <3>3, <3>4, <1>8, <1>15 DEF Alive
  <2> QED BY <2>3, <2>4, <2>5
<1>14. len'[k] = len[k] + 1 /\ data'[Memory(k)][len[k]] = cell => new[len[k]] = cell
  BY <1>3, <1>4
<1> QED BY <1>3, <1>9, <1>12, <1>13, <1>14

\* A filter that reads one buffer and writes the other: the inputs that wait
\* are not disturbed.
LEMMA JudgeItemTrack ==
  ASSUME IInv, ~Overflowed', NEW item \in todo, Covered, Unique, Alive,
         \/ GradVecs1(item[1], item[2]) \/ GradVecs2(item[1], item[2])
         \/ Filter2_0A(item[1])
         \/ \E k \in {"filter_2a", "filter_2b", "filter_2c", "filter_2d"} :
              Filter2(k, item[1])
  PROVE  Covered' /\ Unique' /\ Alive'
<1>1. /\ step \in FilterSteps \ {6}
      /\ ItemCell(item) \in Cells /\ Decide(Out[step], ItemCell(item))
      /\ todo' = todo \ {item}
      /\ UNCHANGED <<step, batchVars, noiseVars, held, clobbered>>
  BY JudgeItem DEF IInv
<1>2. held = {} /\ TypeOK
  BY <1>1 DEF IInv, BaseInv, ItemsInv, FilterSteps, LateSteps
<1>3. \A i : ItemCell(i)' = ItemCell(i)
  <2>1. CASE step = 3 BY <2>1, <1>1 DEF ItemCell
  <2>2. CASE step # 3
    <3>1. Memory(In[step]) # Memory(Out[step]) /\ Out[step] \in Stages \ {"filter_seeds"}
      BY <2>2, <1>1, FilterFacts
    <3>2. data'[Memory(In[step])] = data[Memory(In[step])]
      BY <3>1, <1>1, <1>2, DecideOutcome, OutcomeEffect DEF Memory
    <3> QED BY <3>2, <2>2, <1>1 DEF ItemCell, Entry
  <2> QED BY <2>1, <2>2
<1>4. PICK cell \in Cells : cell = ItemCell(item) BY <1>1
<1>5. /\ \A i \in todo' : ItemCell(i) # cell
      /\ \A i \in todo : i \in todo' \/ ItemCell(i) = cell
      /\ ~IsOutput(cell) /\ Decide(Out[step], cell) /\ Covers(cell) \cap rejected = {}
  BY <1>1, <1>4 DEF Unique, Alive, Waiting
<1>6. CellOf(Out[step], cell)
  <2>1. Outcome(Out[step], cell) BY <1>2, <1>5, DecideOutcome
  <2>2. ~Overflowed BY <2>1, <1>1, <1>2, FilterFacts, VerdictOverflow
  <2> QED BY <2>2, <1>1, <1>4, ItemCellOf
<1> QED BY <1>1, <1>2, <1>3, <1>5, <1>6, VerdictTrack

\* filter_2_0b writes where it reads; an input that waits is disturbed only if
\* `clobbered' says so.
LEMMA JudgeHeldTrack ==
  ASSUME IInv, ~Overflowed', ~clobbered', NEW h \in held, Covered, Unique, Alive,
         Filter2_0B_Write(h)
  PROVE  Covered' /\ Unique' /\ Alive'
<1>1. /\ step = 6 /\ h.cell \in Cells /\ Decide(Out[step], h.cell) /\ held' = held \ {h}
      /\ Outcome(Out[step], h.cell) /\ ~(len' # len /\ <<len[Out[step]], 0>> \in todo)
      /\ UNCHANGED <<step, batchVars, noiseVars, todo>>
  BY JudgeHeld DEF IInv
<1>2. step \in FilterSteps /\ TypeOK /\ DataOK
  BY <1>1 DEF FilterSteps, IInv, BaseInv, TypeOK, DataOK
<1>3. ~Overflowed BY <1>1, <1>2, FilterFacts, VerdictOverflow
<1>4. ASSUME NEW i \in todo PROVE ItemCell(i)' = ItemCell(i)
  <2>1. i = <<i[1], 0>> /\ i[1] \in Nat /\ i[1] < len[In[step]]
    BY <1>1, <1>2, ItemFacts DEF IInv
  <2>2. /\ In[step] \in Stages \ {"filter_seeds"} /\ Out[step] \in Stages \ {"filter_seeds"}
        /\ Memory(In[step]) = Memory(Out[step])
    BY <1>1, InTable, OutTable, StagesTable DEF Memory
  <2>3. i[1] \in DOMAIN data[Memory(Out[step])]
    <3>1. len[In[step]] \in Nat /\ len[In[step]] <= MaxLen(In[step]) /\ MaxLen(In[step]) \in Nat
      BY <2>2, <1>2, <1>3, NoOverflow
    <3> QED BY <3>1, <2>1, <2>2, <1>2, EntryType
  <2>4. data'[Memory(Out[step])][i[1]] =
          IF len' # len /\ i[1] = len[Out[step]] THEN h.cell ELSE data[Memory(Out[step])][i[1]]
    BY <2>2, <2>3, <1>1, <1>2, OutcomeEffect
  <2>5. ~(len' # len /\ i[1] = len[Out[step]]) BY <2>1, <1>1
  <2>6. data'[Memory(Out[step])][i[1]] = data[Memory(Out[step])][i[1]] BY <2>4, <2>5
  <2> QED BY <2>2, <2>6, <1>1 DEF ItemCell, Entry
<1>5. PICK cell \in Cells : cell = h.cell BY <1>1
<1>6. /\ \A i \in todo' : ItemCell(i) # cell
      /\ \A g \in held' : g.cell # cell
      /\ \A g \in held : g \in held' \/ g.cell = cell
      /\ ~IsOutput(cell) /\ Decide(Out[step], cell) /\ Covers(cell) \cap rejected = {}
  BY <1>1, <1>2, <1>5 DEF Unique, Alive, Waiting, Holding
<1>7. CellOf(Out[step], cell) BY <1>2, <1>3, <1>5, StageCells
<1> QED BY <1>1, <1>2, <1>4, <1>6, <1>7, VerdictTrack

\* A warp that reads its input takes the cell over from the work item.
LEMMA ReadTrack ==
  ASSUME IInv, NEW item \in todo, Covered, Unique, Alive, Filter2_0B_Read(item[1])
  PROVE  Covered' /\ Unique' /\ Alive'
<1>1. /\ step = 6 /\ item[1] \in Nat
      /\ todo' = todo \ {item}
      /\ held' = held \cup
           {[index |-> item[1], cell |-> Entry(In[step], item[1]), torn |-> FALSE]}
      /\ UNCHANGED <<step, batchVars, noiseVars, data, len, history>>
  BY ReadBase DEF IInv
<1>2. start_seed' = start_seed /\ buffer_seeds' = buffer_seeds /\ rejected' = rejected
  BY <1>1 DEF batchVars, noiseVars, history
<1>12. Waiting = todo /\ Holding = held /\ Waiting' = todo' /\ Holding' = held'
  BY <1>1 DEF Waiting, Holding, FilterSteps
<1>3. PICK h : h = [index |-> item[1], cell |-> Entry(In[step], item[1]), torn |-> FALSE]
  OBVIOUS
<1>4. held' = held \cup {h} /\ h.cell = ItemCell(item) BY <1>1, <1>3 DEF ItemCell
<1>5. \A i : ItemCell(i)' = ItemCell(i) BY <1>1 DEF ItemCell, Entry
<1>6. \A c : IsOutput(c)' <=> IsOutput(c) BY <1>1 DEF IsOutput, Entry
<1>7. Survivors' = Survivors BY <1>1, <1>2 DEF Survivors
<1>8. \A c : Covers(c)' = Covers(c) BY <1>2 DEF Covers
<1>9. \A m : Entry(Out[step], m)' = Entry(Out[step], m) BY <1>1 DEF Entry
<1>10. Covered'
  <2>1. ASSUME NEW x \in Survivors
        PROVE  \/ \E i \in todo' : x \in Covers(ItemCell(i))
               \/ \E g \in held' : x \in Covers(g.cell)
               \/ \E m \in 0..(len[Out[step]] - 1) : x \in Covers(Entry(Out[step], m))
    <3>1. CASE \E i \in todo : x \in Covers(ItemCell(i)) BY <3>1, <1>1, <1>4
    <3>2. CASE \E g \in held : x \in Covers(g.cell) BY <3>2, <1>4
    <3> QED BY <3>1, <3>2, <1>12 DEF Covered
  <2> QED BY <2>1, <1>1, <1>5, <1>7, <1>8, <1>9, <1>12 DEF Covered
<1>11. Unique'
  <2>1. \A m, n \in 0..(len[Out[step]] - 1)' :
          m # n => Entry(Out[step], m)' # Entry(Out[step], n)'
    BY <1>1, <1>9, <1>12 DEF Unique
  <2>2. /\ \A i \in todo' : ~IsOutput(ItemCell(i))'
        /\ \A g \in held' : ~IsOutput(g.cell)'
    BY <1>1, <1>4, <1>5, <1>6, <1>12 DEF Unique, IsOutput
  <2>3. \A i \in todo', g \in held' : ItemCell(i)' # g.cell BY <1>1, <1>4, <1>5, <1>12 DEF Unique
  <2>4. \A i, j \in todo' : i # j => ItemCell(i)' # ItemCell(j)' BY <1>1, <1>5, <1>12 DEF Unique
  <2>5. \A f, g \in held' : f # g => f.cell # g.cell BY <1>4, <1>12 DEF Unique
  <2> QED BY <2>1, <2>2, <2>3, <2>4, <2>5, <1>12 DEF Unique
<1>13. Alive'
  <2>1. \A i \in todo' : Covers(ItemCell(i)) \cap rejected = {} BY <1>1, <1>12 DEF Alive
  <2>2. \A g \in held' : Covers(g.cell) \cap rejected = {} BY <1>4, <1>12 DEF Alive
  <2>3. \A m \in 0..(len[Out[step]] - 1) : Covers(Entry(Out[step], m)) \cap rejected = {}
    BY DEF Alive
  <2> QED BY <2>1, <2>2, <2>3, <1>1, <1>2, <1>5, <1>8, <1>9, <1>12 DEF Alive
<1> QED BY <1>10, <1>11, <1>13

-----------------------------------------------------------------------------
(***************************************************************************)
(* The next kernel starts.                                                 *)
(***************************************************************************)
\* What the last kernel put out is what the next one is to judge: each output
\* becomes a work item, or one for each tile around it.
LEMMA StartTrack ==
  ASSUME IInv, ~Overflowed, step \in 3..14, todo = {}, held = {},
         Covered, Unique, Alive,
         Advance, UNCHANGED <<batchVars, buffer_seeds, data, len, held, rejected>>
  PROVE  Covered' /\ Unique' /\ Alive'
<1>1. step' = step + 1 /\ step' \in 4..15 /\ held' = {} BY DEF Advance
<1>2. todo' = IF step' < 15 THEN Items(Kernels[step']) ELSE {}
  BY <1>1, KernelsTable DEF Advance
<1>3. /\ In[step'] = Out[step] /\ Out[step] \in Stages
      /\ step' \notin FilterSteps => Out[step'] = Out[step]
  BY <1>1, AdvanceFacts
<1>4. TypeOK /\ BaseInv /\ Sound BY SoundNow DEF IInv, BaseInv
<1>5. Survivors' = Survivors BY DEF Survivors, batchVars
<1>6. \A c : Covers(c)' = Covers(c) BY DEF Covers
<1>7. \A k, m : Entry(k, m)' = Entry(k, m) BY DEF Entry
<1>8. PICK n \in Nat : n = len[Out[step]] BY <1>3, <1>4 DEF TypeOK
<1>9. PICK e : e = [m \in 0..(n - 1) |-> Entry(Out[step], m)] OBVIOUS
<1>10. \A m \in 0..(n - 1) : e[m] = Entry(Out[step], m) BY <1>9
<1>11. \A x \in Survivors : \E m \in 0..(n - 1) : x \in Covers(e[m])
  BY <1>8, <1>10 DEF Covered, Waiting, Holding
<1>15. \A m \in 0..(n - 1) : Covers(e[m]) \cap rejected = {}
  BY <1>8, <1>10 DEF Alive
<1>12. \A m, q \in 0..(n - 1) : m # q => e[m] # e[q]
  BY <1>8, <1>10 DEF Unique
<1>13. CASE step' \notin FilterSteps
  <2>1. Waiting' = {} /\ Holding' = {} BY <1>13 DEF Waiting, Holding
  <2>2. /\ \A m : Entry(Out[step], m)' = Entry(Out[step], m)
        /\ 0..(len[Out[step]] - 1)' = 0..(n - 1)
    BY <1>3, <1>7, <1>8, <1>13 DEF Entry
  <2>3. Covered' BY <2>1, <2>2, <1>5, <1>6, <1>10, <1>11 DEF Covered
  <2>4. Unique'
    <3>1. \A m, q \in 0..(n - 1) :
            m # q => Entry(Out[step], m)' # Entry(Out[step], q)'
      BY <2>2, <1>10, <1>12
    <3>2. 0..(len[Out[step]]' - 1) = 0..(n - 1) BY <2>2
    <3>3. \A m, q \in 0..(len[Out[step]]' - 1) :
            m # q => Entry(Out[step], m)' # Entry(Out[step], q)'
      BY <3>1, <3>2
    <3> QED BY <3>3, <2>1 DEF Unique
  <2>5. Alive' BY <2>1, <2>2, <1>6, <1>10, <1>15 DEF Alive
  <2> QED BY <2>3, <2>4, <2>5
<1>14. CASE step' \in FilterSteps
  <2>1. step' \in 1..14 /\ Kernels[step'] = Out[step'] /\ Out[step'] \in Stages
    BY <1>14, FilterFacts
  <2>2. len'[Out[step']] = 0
    BY <2>1, <1>1, <1>4, KernelsTable DEF BaseInv, NotStarted
  <2>3. 0..(len[Out[step]] - 1)' = {} BY <2>2
  <2>4. \A c : ~IsOutput(c)' BY <2>3 DEF IsOutput
  <2>5. \A m \in 0..(n - 1) : Entry(In[step], m)' = e[m] /\ m \in Nat
    BY <1>3, <1>7, <1>10 DEF Entry
  <2>6. ASSUME \A x \in Survivors : \E i \in todo' : x \in Covers(ItemCell(i)'),
               \A i, j \in todo' : i # j => ItemCell(i)' # ItemCell(j)',
               \A i \in todo' : \E m \in 0..(n - 1) : Covers(ItemCell(i)') \subseteq Covers(e[m])
        PROVE  Covered' /\ Unique' /\ Alive'
    <3>0. Waiting' = todo' /\ Holding' = {} BY <1>1, <1>14 DEF Waiting, Holding
    <3>1. Covered' BY <3>0, <2>6, <1>5, <1>6 DEF Covered
    <3>2. Unique' BY <3>0, <2>6, <2>3, <2>4 DEF Unique
    <3>3. \A i \in todo' : Covers(ItemCell(i)') \cap rejected = {} BY <2>6, <1>15
    <3>4. Alive' BY <3>0, <3>3, <2>3, <1>6 DEF Alive
    <3> QED BY <3>1, <3>2, <3>4
  <2>7. CASE step' # 5
    <3>1. todo' = (0..(n - 1)) \X {0}
      <4>1. step' \in FilterSteps \ {3, 5} BY <2>7, <1>1, <1>14
      <4> QED BY <4>1, <2>1, <1>2, <1>3, <1>8, ItemsTable
    <3>2. \A i \in todo' : /\ i[1] \in 0..(n - 1) /\ ItemCell(i)' = e[i[1]]
                           /\ i = <<i[1], 0>>
      <4> TAKE i \in todo'
      <4>1. i[1] \in 0..(n - 1) /\ i = <<i[1], 0>> BY <3>1
      <4>2. ItemCell(i)' = Entry(In[step], i[1])' BY <2>7, <1>1 DEF ItemCell
      <4> QED BY <4>1, <4>2, <2>5
    <3>3. \A x \in Survivors : \E i \in todo' : x \in Covers(ItemCell(i)')
      <4> TAKE x \in Survivors
      <4>1. PICK m \in 0..(n - 1) : x \in Covers(e[m]) BY <1>11
      <4>2. PICK i : i = <<m, 0>> OBVIOUS
      <4>3. i \in todo' /\ i[1] = m BY <4>2, <3>1
      <4> QED BY <4>1, <4>3, <3>2
    <3>4. \A i, j \in todo' : i # j => ItemCell(i)' # ItemCell(j)' BY <3>2, <1>12
    <3>5. \A i \in todo' : \E m \in 0..(n - 1) : Covers(ItemCell(i)') \subseteq Covers(e[m])
      BY <3>2
    <3> QED BY <3>3, <3>4, <3>5, <2>6
  <2>8. CASE step' = 5
    <3>1. todo' = (0..(n - 1)) \X Tiles
      <4>1. In[5] = "filter_2_0a" BY InTable
      <4> QED BY <4>1, <2>8, <1>2, <1>3, <1>8, ItemsTable
    <3>2. \A m \in 0..(n - 1) : e[m] \in Cells /\ e[m].tile = NoTile
      <4> TAKE m \in 0..(n - 1)
      <4>1. step = 4 /\ Out[4] = "filter_2_0a" BY <2>8, <1>1, OutTable
      <4>2. CellOf(Out[step], Entry(Out[step], m))
        BY <4>1, <1>4, <1>8 DEF Sound, OutputInv
      <4>3. Entry(Out[step], m) \in Cells
        <5>1. n <= MaxLen(Out[step]) /\ MaxLen(Out[step]) \in Nat
          BY <1>3, <1>4, <1>8, NoOverflow
        <5>2. DataOK BY <1>4 DEF TypeOK, DataOK
        <5>3. m \in Nat /\ m < MaxLen(Out[step]) BY <5>1
        <5> QED BY <5>2, <5>3, <4>1, StagesTable, EntryType
      <4> QED BY <4>1, <4>2, <4>3, <1>10 DEF CellOf
    <3>3. \A i \in todo' : /\ i[1] \in 0..(n - 1) /\ i[2] \in Tiles /\ i = <<i[1], i[2]>>
                           /\ ItemCell(i)' = [e[i[1]] EXCEPT !.tile = i[2]]
      <4> TAKE i \in todo'
      <4>1. i[1] \in 0..(n - 1) /\ i[2] \in Tiles /\ i = <<i[1], i[2]>> BY <3>1
      <4>2. ItemCell(i)' = TileCell(Entry(In[step], i[1])', i[2])
        BY <2>8, <1>1 DEF ItemCell, TileCell, Entry
      <4> QED BY <4>1, <4>2, <2>5 DEF TileCell
    <3>4. \A m \in 0..(n - 1), t \in Tiles :
            LET c == [e[m] EXCEPT !.tile = t]
            IN  /\ c.seed_index = e[m].seed_index /\ c.center = e[m].center /\ c.tile = t
                /\ e[m] = [seed_index |-> e[m].seed_index, center |-> e[m].center,
                           tile |-> NoTile]
      BY <3>2 DEF Cells
    <3>5. \A x \in Survivors : \E i \in todo' : x \in Covers(ItemCell(i)')
      <4> TAKE x \in Survivors
      <4>1. PICK m \in 0..(n - 1) : x \in Covers(e[m]) BY <1>11
      <4>2. x \in {buffer_seeds[e[m].seed_index]} \X {e[m].center} \X Tiles
        BY <4>1, <3>2 DEF Covers
      <4>3. /\ x = <<buffer_seeds[e[m].seed_index], e[m].center, x[3]>> /\ x[3] \in Tiles
        BY <4>2
      <4>4. PICK i : i = <<m, x[3]>> OBVIOUS
      <4>5. i \in todo' /\ i[1] = m /\ i[2] = x[3] BY <4>3, <4>4, <3>1
      <4>6. PICK c : c = ItemCell(i)' OBVIOUS
      <4>7. /\ c.seed_index = e[m].seed_index /\ c.center = e[m].center /\ c.tile = x[3]
        BY <4>3, <4>5, <4>6, <3>3, <3>4
      <4>8. x[3] # NoTile BY <4>3, CapAssumption
      <4>9. x \in Covers(c) BY <4>3, <4>7, <4>8 DEF Covers
      <4> QED BY <4>5, <4>6, <4>9
    <3>6. \A i, j \in todo' : i # j => ItemCell(i)' # ItemCell(j)'
      <4> SUFFICES ASSUME NEW i \in todo', NEW j \in todo', ItemCell(i)' = ItemCell(j)'
                   PROVE  i = j
        OBVIOUS
      <4>1. PICK c : c = ItemCell(i)' /\ c = ItemCell(j)' OBVIOUS
      <4>0. /\ i[1] \in 0..(n - 1) /\ i[2] \in Tiles /\ c = [e[i[1]] EXCEPT !.tile = i[2]]
            /\ j[1] \in 0..(n - 1) /\ j[2] \in Tiles /\ c = [e[j[1]] EXCEPT !.tile = j[2]]
        BY <4>1, <3>3
      <4>2. /\ c.seed_index = e[i[1]].seed_index /\ c.center = e[i[1]].center /\ c.tile = i[2]
            /\ c.seed_index = e[j[1]].seed_index /\ c.center = e[j[1]].center /\ c.tile = j[2]
        BY <4>0, <3>4
      <4>3. e[i[1]] = e[j[1]]
        <5>1. /\ e[i[1]] = [seed_index |-> c.seed_index, center |-> c.center, tile |-> NoTile]
              /\ e[j[1]] = [seed_index |-> c.seed_index, center |-> c.center, tile |-> NoTile]
          BY <4>0, <4>2, <3>4
        <5> QED BY <5>1
      <4>4. i[1] = j[1] BY <4>3, <3>3, <1>12
      <4> QED BY <4>2, <4>4, <3>3
    <3>7. \A i \in todo' : \E m \in 0..(n - 1) : Covers(ItemCell(i)') \subseteq Covers(e[m])
      <4> TAKE i \in todo'
      <4>1. PICK c : c = ItemCell(i)' OBVIOUS
      <4>2. PICK m \in 0..(n - 1) : m = i[1] BY <3>3
      <4>3. c = [e[m] EXCEPT !.tile = i[2]] /\ i[2] \in Tiles BY <4>1, <4>2, <3>3
      <4>4. c.seed_index = e[m].seed_index /\ c.center = e[m].center /\ c.tile \in Tiles
        BY <4>3, <3>4
      <4>5. c.tile # NoTile /\ e[m].tile = NoTile BY <4>4, <3>2, CapAssumption
      <4>6. Covers(c) \subseteq Covers(e[m]) BY <4>4, <4>5 DEF Covers
      <4> QED BY <4>1, <4>6
    <3> QED BY <3>5, <3>6, <3>7, <2>6
  <2> QED BY <2>7, <2>8
<1> QED BY <1>13, <1>14

\* KernelFilterGradVecs1 gets the seeds in the buffer: each position around
\* each of them becomes a work item.
LEMMA InitSeedsTrack ==
  ASSUME IInv, ~Overflowed, SeedsCovered, SeedsAlive, InitSeeds
  PROVE  Covered' /\ Unique' /\ Alive'
<1>1. step = 2 /\ step' = 3 BY InitSeedsBase DEF IInv
<1>2. /\ TypeOK /\ held' = {} /\ len' = len /\ start_seed' = start_seed
      /\ buffer_seeds' = buffer_seeds /\ rejected' = rejected
  BY <1>1 DEF IInv, BaseInv, ItemsInv, InitSeeds, batchVars, LateSteps
<1>3. PICK n \in Nat : n = len["filter_seeds"] BY <1>2, StagesTable DEF TypeOK
<1>4. todo' = (0..(n - 1)) \X Centers
  <2>1. todo' = Items(Kernels[3]) BY <1>1, KernelsTable DEF InitSeeds, Advance
  <2> QED BY <2>1, <1>3, ItemsTable
<1>5. len'[Out[3]] = 0
  <2>1. Out[3] = Kernels[3] /\ Kernels[3] \in Stages BY OutTable, KernelsTable, StagesTable
  <2> QED BY <2>1, <1>1, <1>2, KernelsTable DEF IInv, BaseInv, NotStarted
<1>6. 0..(len'[Out[step']] - 1) = {} BY <1>1, <1>5
<1>7. \A i \in todo' : /\ i = <<i[1], i[2]>> /\ i[2] \in Centers
                       /\ ItemCell(i)' = [seed_index |-> i[1], center |-> i[2], tile |-> NoTile]
  BY <1>1, <1>4 DEF ItemCell
<1>8. Survivors' = Survivors BY <1>2 DEF Survivors
<1>9. \A c : Covers(c)' = Covers(c) BY <1>2 DEF Covers
<1>10. \A x \in Survivors : \E i \in todo' : x \in Covers(ItemCell(i)')
  <2> TAKE x \in Survivors
  <2>1. x = <<x[1], x[2], x[3]>> /\ x[2] \in Centers /\ x[3] \in Tiles BY DEF Survivors
  <2>2. PICK m \in 0..(n - 1) : buffer_seeds[m] = x[1] BY <1>1, <1>3 DEF SeedsCovered
  <2>3. PICK i : i = <<m, x[2]>> OBVIOUS
  <2>4. i \in todo' /\ i[1] = m /\ i[2] = x[2] BY <2>1, <2>3, <1>4
  <2>5. PICK c : c = ItemCell(i)' OBVIOUS
  <2>6. c.seed_index = m /\ c.center = x[2] /\ c.tile = NoTile BY <2>4, <2>5, <1>7
  <2>7. x \in Covers(c) BY <2>1, <2>2, <2>6 DEF Covers
  <2> QED BY <2>4, <2>5, <2>7
<1>11. \A i, j \in todo' : i # j => ItemCell(i)' # ItemCell(j)'
  <2> SUFFICES ASSUME NEW i \in todo', NEW j \in todo', ItemCell(i)' = ItemCell(j)'
               PROVE  i = j
    OBVIOUS
  <2>1. PICK c : c = ItemCell(i)' /\ c = ItemCell(j)' OBVIOUS
  <2>2. c.seed_index = i[1] /\ c.center = i[2] /\ c.seed_index = j[1] /\ c.center = j[2]
    BY <2>1, <1>7
  <2> QED BY <2>2, <1>7
<1>14. Waiting' = todo' /\ Holding' = {} BY <1>1, <1>2 DEF Waiting, Holding, FilterSteps
<1>12. Covered' BY <1>8, <1>9, <1>10, <1>14 DEF Covered
<1>13. Unique' BY <1>6, <1>11, <1>14 DEF Unique, IsOutput
<1>15. \A i \in todo' : Covers(ItemCell(i)') \cap rejected = {}
  <2> SUFFICES ASSUME NEW i \in todo', NEW x \in rejected, NEW c, c = ItemCell(i)', x \in Covers(c)
               PROVE  FALSE
    OBVIOUS
  <2>1. c.seed_index = i[1] /\ i[1] \in 0..(n - 1) BY <1>4, <1>7
  <2>2. x[1] = buffer_seeds[i[1]] BY <2>1 DEF Covers
  <2> QED BY <2>1, <2>2, <1>3 DEF SeedsAlive
<1>16. Alive' BY <1>2, <1>6, <1>9, <1>14, <1>15 DEF Alive
<1> QED BY <1>12, <1>13, <1>16

\* At the start every seed of the batch waits for KernelFilterSeeds.
LEMMA ClaimTrack ==
  ASSUME IInv, Claim
  PROVE  SeedsCovered' /\ SeedsAlive'
<1>1. step' = 1 /\ rejected' = {} /\ todo' = (0..(BatchSeeds - 1)) \X {0}
  BY ItemsTable DEF Claim
<1>2. start_seed' \in Int /\ BatchSeeds \in Nat
  <2>1. start_seed' \in Seeds BY DEF Claim
  <2>2. MaxBatches * BatchSeeds \in Int BY BatchMultiples, CapAssumption
  <2> QED BY <2>1, <2>2, CapAssumption DEF Seeds
<1> SUFFICES ASSUME NEW x \in Survivors' PROVE <<x[1] - start_seed', 0>> \in todo'
  BY <1>1 DEF SeedsCovered, SeedsAlive
<1>3. x[1] \in start_seed'..(start_seed' + BatchSeeds - 1) BY DEF Survivors
<1>4. x[1] - start_seed' \in 0..(BatchSeeds - 1) BY <1>2, <1>3
<1> QED BY <1>1, <1>4

\* KernelFilterSeeds stores a seed or rejects all its candidates.
LEMMA FilterSeedTrack ==
  ASSUME IInv, ~Overflowed', NEW item \in todo, ~Overflowed => SeedsCovered /\ SeedsAlive,
         FilterSeed(item[1])
  PROVE  SeedsCovered' /\ SeedsAlive'
<1>0. PICK i, n : i = item[1] /\ n = len["filter_seeds"] OBVIOUS
<1>1. /\ step = 1 /\ item = <<i, 0>> /\ i \in 0..(BatchSeeds - 1)
      /\ start_seed + i \in Seeds /\ n \in Nat
  BY <1>0, FilterSeedBase DEF IInv
<1>2. TypeOK /\ start_seed \in Int
  <2>1. start_seed \in Nat BY <1>1, BatchInSeeds DEF IInv, BaseInv
  <2> QED BY <2>1 DEF IInv, BaseInv
<1>3. step' = 1 /\ start_seed' = start_seed /\ todo' = todo \ {<<i, 0>>}
  BY <1>0, <1>1 DEF FilterSeed, batchVars
<1>4. \A k \in Stages : len'[k] \in Nat /\ len[k] <= len'[k]
  <2>1. len \in [Stages -> Nat] BY <1>2 DEF TypeOK
  <2>2. len' = len \/ len' = [len EXCEPT !["filter_seeds"] = len["filter_seeds"] + 1]
    BY <1>1 DEF FilterSeed
  <2>3. "filter_seeds" \in Stages BY StagesTable
  <2> QED BY <2>1, <2>2, <2>3
<1>5. ~Overflowed BY <1>2, <1>4, OverflowStays
<1>6. \A x \in Survivors :
        \/ <<x[1] - start_seed, 0>> \in todo
        \/ \E m \in 0..(n - 1) : buffer_seeds[m] = x[1]
  BY <1>0, <1>1, <1>5 DEF SeedsCovered
<1>7. ASSUME NEW x, x[1] \in Int, <<x[1] - start_seed, 0>> \in todo \ todo'
      PROVE  x[1] = start_seed + i
  <2>1. <<x[1] - start_seed, 0>> = <<i, 0>> BY <1>3, <1>7
  <2>2. x[1] - start_seed = i BY <2>1
  <2> QED BY <2>2, <1>1, <1>2, <1>7
<1>8. \A x \in Survivors : x[1] \in Int BY <1>2, CapAssumption DEF Survivors
<1>11. \A x \in rejected :
         /\ x[1] \in Int /\ <<x[1] - start_seed, 0>> \notin todo
         /\ \A m \in 0..(n - 1) : buffer_seeds[m] # x[1]
  <2>1. \A x \in rejected : x[1] \in Seeds \cup {NoSeed} BY <1>2 DEF TypeOK
  <2>2. MaxBatches * BatchSeeds \in Int BY BatchMultiples, CapAssumption
  <2>3. Seeds \cup {NoSeed} \subseteq Int BY <2>2 DEF Seeds, NoSeed
  <2> QED BY <2>1, <2>3, <1>0, <1>1, <1>5 DEF SeedsAlive
<1>12. (start_seed + i) - start_seed = i /\ <<i, 0>> \in todo BY <1>1, <1>2
<1>9. CASE /\ len' = [len EXCEPT !["filter_seeds"] = @ + 1]
           /\ buffer_seeds' = [m \in 0..(SeedCap - 1) |->
                IF m = n THEN start_seed + i ELSE buffer_seeds[m]]
           /\ UNCHANGED rejected
  <2>1. len'["filter_seeds"] = n + 1 BY <1>0, <1>9, <1>2, StagesTable DEF TypeOK
  <2>2. n + 1 <= SeedCap
    <3>1. ~(len'["filter_seeds"] > MaxLen("filter_seeds")) BY StagesTable DEF Overflowed
    <3> QED BY <3>1, <2>1, <1>1, CapAssumption DEF MaxLen
  <2>3. /\ \A m \in 0..(n - 1) : buffer_seeds'[m] = buffer_seeds[m]
        /\ buffer_seeds'[n] = start_seed + i
    BY <2>2, <1>1, <1>9, CapAssumption
  <2>4. n \in 0..n /\ \A m \in 0..(n - 1) : m \in 0..n BY <1>1
  <2>5. Survivors' = Survivors BY <1>3, <1>9 DEF Survivors
  <2>6. \A x \in Survivors :
          \/ <<x[1] - start_seed, 0>> \in todo'
          \/ \E m \in 0..n : buffer_seeds'[m] = x[1]
    <3> TAKE x \in Survivors
    <3>1. CASE \E m \in 0..(n - 1) : buffer_seeds[m] = x[1] BY <3>1, <2>3, <2>4
    <3>2. CASE <<x[1] - start_seed, 0>> \in todo
      <4>1. CASE <<x[1] - start_seed, 0>> \in todo' BY <4>1
      <4>2. CASE <<x[1] - start_seed, 0>> \notin todo'
        <5>1. x[1] = start_seed + i BY <4>2, <3>2, <1>7, <1>8
        <5> QED BY <5>1, <2>3, <2>4
      <4> QED BY <4>1, <4>2
    <3> QED BY <3>1, <3>2, <1>6
  <2>7. len'["filter_seeds"] - 1 = n BY <2>1, <1>1
  <2>8. \A x \in Survivors' :
          \/ step' = 1 /\ <<x[1] - start_seed', 0>> \in todo'
          \/ \E m \in 0..(len'["filter_seeds"] - 1) : buffer_seeds'[m] = x[1]
    BY <2>5, <2>6, <2>7, <1>3
  <2>9. ASSUME NEW x \in rejected, NEW m \in 0..n PROVE buffer_seeds'[m] # x[1]
    <3>1. x[1] # start_seed + i BY <1>11, <1>12
    <3>2. m = n \/ m \in 0..(n - 1) BY <1>1
    <3> QED BY <3>1, <3>2, <2>3, <1>11
  <2>10. SeedsAlive' BY <2>7, <2>9, <1>3, <1>9, <1>11 DEF SeedsAlive
  <2> QED BY <2>8, <2>10 DEF SeedsCovered
<1>10. CASE /\ rejected' = rejected \cup ({start_seed + i} \X Centers \X Tiles)
            /\ UNCHANGED <<len, buffer_seeds>>
  <2>1. Survivors' \subseteq Survivors BY <1>3, <1>10 DEF Survivors
  <2>2. \A x \in Survivors' : x[1] # start_seed + i
    <3> SUFFICES ASSUME NEW x \in Survivors', x[1] = start_seed + i PROVE FALSE
      OBVIOUS
    <3>1. x = <<x[1], x[2], x[3]>> /\ x[2] \in Centers /\ x[3] \in Tiles
      BY <2>1 DEF Survivors
    <3>2. x \in {start_seed + i} \X Centers \X Tiles BY <3>1
    <3>3. x \notin rejected' BY DEF Survivors
    <3> QED BY <3>2, <3>3, <1>10
  <2>3. \A x \in Survivors' :
          \/ <<x[1] - start_seed, 0>> \in todo'
          \/ \E m \in 0..(n - 1) : buffer_seeds[m] = x[1]
    BY <2>1, <2>2, <1>6, <1>7, <1>8
  <2>4. ASSUME NEW x \in rejected' \ rejected
        PROVE  /\ <<x[1] - start_seed, 0>> \notin todo'
               /\ \A m \in 0..(n - 1) : buffer_seeds[m] # x[1]
    <3>1. x[1] = start_seed + i BY <2>4, <1>10
    <3>2. <<x[1] - start_seed, 0>> \notin todo' BY <3>1, <1>3, <1>12
    <3>3. \A m \in 0..(n - 1) : <<buffer_seeds[m] - start_seed, 0>> \notin todo
      <4>1. SeedsInv BY <1>1, <1>5, SoundNow DEF Sound
      <4> QED BY <4>1, <1>0, <1>1 DEF SeedsInv
    <3> QED BY <3>1, <3>2, <3>3, <1>12
  <2>5. SeedsAlive' BY <2>4, <1>0, <1>3, <1>10, <1>11 DEF SeedsAlive
  <2>6. SeedsCovered' BY <2>3, <1>0, <1>3, <1>10 DEF SeedsCovered
  <2> QED BY <2>5, <2>6
<1> QED BY <1>0, <1>9, <1>10 DEF FilterSeed

\* The late initialisations leave the cells alone.
LEMMA LateTrack ==
  ASSUME step \in LateSteps, Covered, Unique, Alive,
         UNCHANGED <<step, batchVars, buffer_seeds, data, len, history>>
  PROVE  Covered' /\ Unique' /\ Alive'
<1>1. step \notin FilterSteps BY DEF LateSteps, FilterSteps
<1>2. Waiting = {} /\ Holding = {} /\ Waiting' = {} /\ Holding' = {}
  BY <1>1 DEF Waiting, Holding
<1>3. start_seed' = start_seed /\ rejected' = rejected BY DEF batchVars, history
<1>4. Survivors' = Survivors BY <1>3 DEF Survivors
<1>5. \A c : Covers(c)' = Covers(c) BY DEF Covers
<1>6. \A m : Entry(Out[step], m)' = Entry(Out[step], m) BY DEF Entry
<1>7. Covered' BY <1>2, <1>4, <1>5, <1>6 DEF Covered
<1>8. Unique' BY <1>2, <1>6 DEF Unique
<1>9. Alive' BY <1>2, <1>3, <1>5, <1>6 DEF Alive
<1> QED BY <1>7, <1>8, <1>9

-----------------------------------------------------------------------------
(***************************************************************************)
(* The end of the batch.                                                   *)
(***************************************************************************)
\* Collect pushes each survivor once.
LEMMA CollectComplete ==
  ASSUME IInv, ~Overflowed, Covered, Unique, Alive, Collect
  PROVE  Complete'
<1> DEFINE cell(i) == Entry("filter_2d", i - 1)
<1>1. PICK n \in Nat : n = len["filter_2d"] BY CollectEffect
<1>2. PICK p : p = pushed' OBVIOUS
<1>3. \E f : p = [i \in 1..n |-> f[i]]
  <2> DEFINE f == [i \in 1..n |->
        <<buffer_seeds[cell(i).seed_index], cell(i).center, cell(i).tile>>]
  <2>1. p = f BY <1>1, <1>2, CollectEffect
  <2>2. f = [i \in 1..n |-> f[i]] OBVIOUS
  <2> QED BY <2>1, <2>2
<1>4. Len(p) = n /\ DOMAIN p = 1..n /\ p = [i \in 1..n |-> p[i]] BY <1>3
<1>5. \A i \in 1..n : /\ cell(i) \in Cells /\ CellOf("filter_2d", cell(i))
                      /\ i - 1 \in 0..(n - 1)
                      /\ Covers(cell(i)) = {p[i]}
                      /\ p[i] \in (start_seed..(start_seed + BatchSeeds - 1)) \X Centers \X Tiles
  BY <1>1, <1>2, CollectEffect
<1>6. /\ step = 15 /\ Out[15] = "filter_2d" /\ todo = {} /\ held = {} /\ TypeOK
      /\ Survivors' = Survivors
  <2>1. step = 15 BY CollectBase DEF IInv
  <2>2. todo = {} /\ held = {} BY <2>1 DEF IInv, BaseInv, ItemsInv, FilterSteps, LateSteps
  <2>3. Survivors' = Survivors BY DEF Collect, Survivors, history
  <2> QED BY <2>1, <2>2, <2>3, OutTable DEF IInv, BaseInv
<1>11. \A i \in 1..n : p[i] \in Survivors
  <2> TAKE i \in 1..n
  <2>1. Covers(cell(i)) \cap rejected = {} BY <1>1, <1>5, <1>6 DEF Alive
  <2> HIDE DEF cell
  <2> QED BY <2>1, <1>5 DEF Survivors
<1>7. \A x \in Survivors : \E i \in 1..n : x = p[i]
  <2> TAKE x \in Survivors
  <2>1. PICK m \in 0..(n - 1) : x \in Covers(Entry("filter_2d", m))
    BY <1>1, <1>6 DEF Covered, Waiting, Holding
  <2>2. m + 1 \in 1..n /\ (m + 1) - 1 = m BY <2>1
  <2>3. x \in Covers(cell(m + 1)) BY <2>1, <2>2
  <2> HIDE DEF cell
  <2> QED BY <2>2, <2>3, <1>5
<1>8. \A i, j \in 1..n : p[i] = p[j] => i = j
  <2> SUFFICES ASSUME NEW i \in 1..n, NEW j \in 1..n, p[i] = p[j], i # j PROVE FALSE
    OBVIOUS
  <2>1. i - 1 \in 0..(n - 1) /\ j - 1 \in 0..(n - 1) /\ i - 1 # j - 1 OBVIOUS
  <2>2. cell(i) # cell(j) BY <2>1, <1>1, <1>6 DEF Unique
  <2>3. Sound BY <1>6, SoundNow
  <2>4. len["filter_seeds"] \in Nat BY <1>6, StagesTable DEF TypeOK
  <2> HIDE DEF cell
  <2>5. Covers(cell(i)) \cap Covers(cell(j)) = {}
    BY <2>2, <2>3, <2>4, <1>5, CoversDisjoint DEF Sound, CellOf, Live
  <2> QED BY <2>5, <1>5
<1> HIDE DEF cell
<1>9. Survivors = {p[i] : i \in 1..n} BY <1>7, <1>11
<1>10. Cardinality(Survivors) = n
  <2>1. p \in Bijection(1..n, Survivors)
    <3>1. p \in [1..n -> Survivors] BY <1>4, <1>11
    <3>2. p \in Injection(1..n, Survivors) BY <3>1, <1>8 DEF Injection, IsInjective
    <3>3. p \in Surjection(1..n, Survivors) BY <3>1, <1>7 DEF Surjection
    <3> QED BY <3>2, <3>3 DEF Bijection
  <2>2. ExistsBijection(1..n, Survivors) BY <2>1 DEF ExistsBijection
  <2>3. IsFiniteSet(1..n) /\ Cardinality(1..n) = n BY FS_Interval
  <2>4. Cardinality(Survivors) = Cardinality(1..n)
    <3>1. PICK T : T = Survivors OBVIOUS
    <3> QED BY <3>1, <2>2, <2>3, FS_Bijection
  <2> QED BY <2>3, <2>4
<1> QED BY <1>2, <1>4, <1>6, <1>9, <1>10 DEF Complete

\* At the beginning no batch has been collected.
LEMMA InitComplete == Init => CompleteInv
<1> SUFFICES ASSUME Init PROVE CompleteInv
  OBVIOUS
<1>1. step = 0 /\ start_seed < 0 BY CapAssumption DEF Init
<1>2. ~(start_seed >= 0) BY <1>1, CapAssumption DEF Init
<1> QED BY <1>1, <1>2 DEF CompleteInv, CompleteUnlessDisturbed

\* Every step keeps the survivors covered, each by one cell.
LEMMA NextComplete == CInv /\ [Next]_vars => CompleteInv'
<1> SUFFICES ASSUME CInv, [Next]_vars PROVE CompleteInv'
  OBVIOUS
<1>a. IInv /\ BaseInv /\ CompleteInv BY DEF CInv, IInv
<1>b. ASSUME step' \in 1..2, ~Overflowed' => SeedsCovered' /\ SeedsAlive' PROVE CompleteInv'
  BY <1>b DEF CompleteInv, CompleteUnlessDisturbed
<1>c. ASSUME step' \in 3..15, ~Overflowed' /\ ~clobbered' => Covered' /\ Unique' /\ Alive'
      PROVE  CompleteInv'
  BY <1>c DEF CompleteInv, CompleteUnlessDisturbed
<1>d. ASSUME step \in 3..15, ~Overflowed, ~clobbered PROVE Covered /\ Unique /\ Alive
  BY <1>a, <1>d, KernelsTable DEF CompleteInv
<1>1. CASE UNCHANGED vars
  <2> USE <1>1 DEF vars, batchVars, noiseVars, history
  <2>1. Overflowed' <=> Overflowed BY DEF Overflowed
  <2>2. Survivors' = Survivors BY DEF Survivors
  <2>3. CompleteUnlessDisturbed'
    BY <1>a, <2>1, <2>2 DEF CompleteInv, CompleteUnlessDisturbed, Complete
  <2>4. SeedsCovered /\ SeedsAlive => SeedsCovered' /\ SeedsAlive'
    BY <2>2 DEF SeedsCovered, SeedsAlive
  <2>5. /\ \A cell : Covers(cell)' = Covers(cell)
        /\ \A item : ItemCell(item)' = ItemCell(item)
        /\ \A n : Entry(Out[step], n)' = Entry(Out[step], n)
        /\ Waiting' = Waiting /\ Holding' = Holding
    BY DEF Covers, ItemCell, Entry, Waiting, Holding
  <2>6. Covered => Covered' BY <2>2, <2>5 DEF Covered
  <2>7. Unique => Unique' BY <2>5 DEF Unique, IsOutput, Entry
  <2>8. Alive => Alive' BY <2>5 DEF Alive
  <2> QED BY <1>a, <2>1, <2>3, <2>4, <2>6, <2>7, <2>8 DEF CompleteInv
<1>2. CASE Claim
  <2>1. step' = 1 /\ SeedsCovered' /\ SeedsAlive' BY <1>2, <1>a, ClaimTrack DEF Claim
  <2> QED BY <2>1, <1>b
<1>3. CASE KernelEnds
  <2>1. /\ step \in FilterSteps \cup LateSteps \cup {1} /\ step' = step + 1
        /\ todo = {} /\ held = {} /\ held' = {} /\ Advance
        /\ UNCHANGED <<batchVars, buffer_seeds, results, data, len, rejected, clobbered>>
    BY <1>3, <1>a, KernelEndsBase
  <2>2. Overflowed' <=> Overflowed BY <2>1 DEF Overflowed
  <2>3. CASE step = 1
    <3>1. ~Overflowed => SeedsCovered /\ SeedsAlive BY <2>3, <1>a DEF CompleteInv
    <3>2. SeedsCovered /\ SeedsAlive => SeedsCovered' /\ SeedsAlive'
      BY <2>1, <2>3 DEF SeedsCovered, SeedsAlive, Survivors, batchVars
    <3> QED BY <3>1, <3>2, <2>1, <2>2, <2>3, <1>b
  <2>4. CASE step \in FilterSteps \cup LateSteps
    <3>1. step \in 3..14 BY <2>4, FilterFacts, LateFacts
    <3>2. ASSUME ~Overflowed', ~clobbered' PROVE Covered' /\ Unique' /\ Alive'
      <4>1. ~Overflowed /\ ~clobbered BY <2>1, <2>2, <3>2
      <4>2. Covered /\ Unique /\ Alive BY <4>1, <3>1, <1>d
      <4>3. UNCHANGED <<batchVars, buffer_seeds, data, len, held, rejected>>
        BY <2>1
      <4> QED BY <4>1, <4>2, <4>3, <3>1, <2>1, <1>a, StartTrack
    <3>3. step' \in 3..15 BY <3>1, <2>1
    <3> QED BY <3>2, <3>3, <1>c
  <2> QED BY <2>1, <2>3, <2>4
<1>4. CASE InitSeeds
  <2>1. step = 2 /\ step' = 3 BY <1>4, <1>a, InitSeedsBase
  <2>2. Overflowed' <=> Overflowed BY <1>4 DEF InitSeeds, Overflowed
  <2>3. ~Overflowed => SeedsCovered /\ SeedsAlive BY <2>1, <1>a DEF CompleteInv
  <2>4. ~Overflowed => Covered' /\ Unique' /\ Alive' BY <2>3, <1>4, <1>a, InitSeedsTrack
  <2> QED BY <2>1, <2>2, <2>4, <1>c
<1>5. CASE Collect
  <2>1. step = 15 /\ step' = 0 BY <1>5, <1>a, CollectBase
  <2>2. (Overflowed' <=> Overflowed) /\ clobbered' = clobbered
    BY <1>5 DEF Collect, Overflowed, history
  <2>3. ~Overflowed /\ ~clobbered => Complete'
    <3>1. ~Overflowed /\ ~clobbered => Covered /\ Unique /\ Alive BY <2>1, <1>d
    <3> QED BY <3>1, <1>5, <1>a, CollectComplete
  <2> QED BY <2>1, <2>2, <2>3 DEF CompleteInv, CompleteUnlessDisturbed
<1>6. CASE ReadBehindEnd
  <2>1. Overflowed' /\ step' # 0 BY <1>6, <1>a, BehindBase
  <2> QED BY <2>1 DEF CompleteInv, CompleteUnlessDisturbed
<1>7. ASSUME step \in LateSteps, UNCHANGED <<step, batchVars, buffer_seeds, data, len, history>>
      PROVE  CompleteInv'
  <2>1. Overflowed' <=> Overflowed BY <1>7 DEF Overflowed
  <2>2. step \in 3..14 /\ step' \in 3..15 /\ clobbered' = clobbered
    BY <1>7, LateFacts DEF history
  <2>3. ~Overflowed /\ ~clobbered => Covered' /\ Unique' /\ Alive' BY <2>2, <1>7, <1>d, LateTrack
  <2> QED BY <2>1, <2>2, <2>3, <1>c
<1>12. ASSUME NEW n \in 1..4, NEW item \in todo, LateFlag(n, item[1]) PROVE CompleteInv'
  BY <1>7, <1>12, <1>a, LateFlagBase
<1>13. ASSUME NEW n \in 1..4, NEW h \in held, LateInit(n, h) PROVE CompleteInv'
  BY <1>7, <1>13, <1>a, LateInitBase
<1>8. ASSUME NEW h \in held, Filter2_0B_Write(h) PROVE CompleteInv'
  <2>1. /\ step = 6 /\ h.cell \in Cells /\ Outcome(Out[step], h.cell) /\ step' = step
        /\ ~clobbered' => ~clobbered
    BY <1>8, <1>a, JudgeHeld
  <2>2. ASSUME ~Overflowed', ~clobbered' PROVE Covered' /\ Unique' /\ Alive'
    <3>1. ~clobbered BY <2>1, <2>2
    <3>2. ~Overflowed
      <4>1. TypeOK /\ Out[step] \in Stages \ {"filter_seeds"}
        BY <2>1, <1>a, OutTable, StagesTable DEF BaseInv
      <4> QED BY <4>1, <2>1, <2>2, VerdictOverflow
    <3>3. Covered /\ Unique /\ Alive BY <3>1, <3>2, <2>1, <1>d
    <3> QED BY <3>3, <2>2, <1>8, <1>a, JudgeHeldTrack
  <2> QED BY <2>1, <2>2, <1>c
<1>9. ASSUME NEW item \in todo, FilterSeed(item[1]) PROVE CompleteInv'
  <2>1. step = 1 /\ step' = 1 BY <1>9, <1>a, FilterSeedBase DEF FilterSeed
  <2>2. ~Overflowed => SeedsCovered /\ SeedsAlive BY <2>1, <1>a DEF CompleteInv
  <2>3. ~Overflowed' => SeedsCovered' /\ SeedsAlive' BY <2>2, <1>9, <1>a, FilterSeedTrack
  <2> QED BY <2>1, <2>3, <1>b
<1>10. ASSUME NEW item \in todo, Filter2_0B_Read(item[1]) PROVE CompleteInv'
  <2>1. step = 6 /\ UNCHANGED <<step, len, clobbered>> BY <1>10, <1>a, ReadBase DEF history
  <2>2. Overflowed' <=> Overflowed BY <2>1 DEF Overflowed
  <2>3. ~Overflowed /\ ~clobbered => Covered' /\ Unique' /\ Alive'
    <3>1. ~Overflowed /\ ~clobbered => Covered /\ Unique /\ Alive BY <2>1, <1>d
    <3> QED BY <3>1, <1>10, <1>a, ReadTrack
  <2> QED BY <2>1, <2>2, <2>3, <1>c
<1>11. ASSUME NEW item \in todo,
              \/ GradVecs1(item[1], item[2]) \/ GradVecs2(item[1], item[2])
              \/ Filter2_0A(item[1])
              \/ \E k \in {"filter_2a", "filter_2b", "filter_2c", "filter_2d"} :
                   Filter2(k, item[1])
       PROVE  CompleteInv'
  <2>1. /\ step \in FilterSteps /\ ItemCell(item) \in Cells
        /\ Decide(Out[step], ItemCell(item)) /\ UNCHANGED <<step, clobbered>>
    BY <1>11, <1>a, JudgeItem
  <2>2. step \in 3..14 /\ Out[step] \in Stages \ {"filter_seeds"} BY <2>1, FilterFacts
  <2>3. ASSUME ~Overflowed', ~clobbered' PROVE Covered' /\ Unique' /\ Alive'
    <3>0. TypeOK /\ Outcome(Out[step], ItemCell(item)) BY <1>a, <2>1, DecideOutcome DEF BaseInv
    <3>1. ~Overflowed BY <2>1, <2>2, <2>3, <3>0, VerdictOverflow
    <3>2. Covered /\ Unique /\ Alive BY <3>1, <2>1, <2>2, <2>3, <1>d
    <3> QED BY <3>2, <2>3, <1>11, <1>a, JudgeItemTrack
  <2>4. step' \in 3..15 BY <2>1, <2>2
  <2> QED BY <2>3, <2>4, <1>c
<1> QED BY <1>1, <1>2, <1>3, <1>4, <1>5, <1>6, <1>7, <1>8, <1>9, <1>10, <1>11,
           <1>12, <1>13 DEF Next

\* While a batch runs, every candidate no filter has rejected is on its way
\* through the chain in one cell, unless a buffer overflowed or filter_2_0b
\* overwrote an input that had not been read.
THEOREM ChainInvariant == Spec => []CInv
<1>1. Init => CInv BY InitIInv, InitComplete DEF CInv
<1>2. CInv /\ [Next]_vars => CInv' BY NextIInv, NextComplete DEF CInv
<1> QED BY <1>1, <1>2, PTL DEF Spec

\* A batch pushes every candidate that passes all filters, and pushes it
\* once, unless a buffer overflowed or filter_2_0b overwrote an input that
\* had not been read: the two ways the code can lose one are the only ones.
THEOREM SurvivorsPushedOnce == Spec => []CompleteUnlessDisturbed
<1>1. CInv => CompleteUnlessDisturbed BY DEF CInv, CompleteInv
<1> QED BY <1>1, ChainInvariant, PTL

\* A batch without an overflow pushes seeds of its own, which KernelFilterSeeds
\* let through, also where filter_2_0b overwrote its inputs; where it did not,
\* no filter has rejected what is pushed.
THEOREM PushedAreSurvivors == Spec => []NoFalseCandidates
<1>1. CInv => NoFalseCandidates
  <2> SUFFICES ASSUME CInv, step = 0, ~Overflowed, ~clobbered, NEW n \in 1..Len(pushed)
               PROVE  pushed[n] \in Survivors
    BY DEF NoFalseCandidates, CInv, IInv, BatchInv, OwnSeeds
  <2>1. PICK m \in 0..MaxBatches :
          start_seed = (m - 1) * BatchSeeds /\ (m = 0 => pushed = << >>)
    BY DEF CInv, IInv, BaseInv, StartInv
  <2>2. m # 0
    <3>1. ASSUME m = 0 PROVE FALSE
      <4>1. Len(pushed) = 0 BY <2>1, <3>1
      <4> QED BY <4>1
    <3> QED BY <3>1
  <2>3. start_seed >= 0
    <3>1. m - 1 \in Int /\ 0 <= m - 1 BY <2>1, <2>2, CapAssumption
    <3>2. (m - 1) * BatchSeeds \in Int /\ 0 <= (m - 1) * BatchSeeds BY <3>1, BatchMultiples
    <3>3. PICK x : x = (m - 1) * BatchSeeds OBVIOUS
    <3> QED BY <3>2, <3>3, <2>1
  <2> QED BY <2>3 DEF CInv, CompleteInv, CompleteUnlessDisturbed, Complete
<1> QED BY <1>1, ChainInvariant, PTL

=============================================================================

--------------------------- MODULE GradVecsProofs ---------------------------
(***************************************************************************)
(* KernelFilterGradVecs1 and KernelFilterGradVecs2 implement FilterKernel, *)
(* for any numbers of blocks, threads, inputs and positions; where their   *)
(* positions lie, for any offset of the noise.  KernelFilter2_0A           *)
(* (WarpFilter, below), which reads what these kernels put out, implements *)
(* FilterKernel too.                                                       *)
(***************************************************************************)
EXTENDS GradVecsBlock, CountingLemmas

-----------------------------------------------------------------------------
(***************************************************************************)
(* The inductive invariant.                                                *)
(***************************************************************************)
\* The input a thread has taken, or will take once it has judged this one.
NextIndex(b, t) ==
  IF pc[b][t] = "judge" THEN input_index[b][t] + GridDim ELSE input_index[b][t]

\* Between two barriers the threads of a block are in the same part of the
\* loop, for the same input; the one at the top of the loop lets a thread
\* judge its positions while others are done with theirs.
Together(b) ==
  /\ \A s, t \in Threads : NextIndex(b, s) = NextIndex(b, t)
  /\ \/ \A t \in Threads : pc[b][t] \in {"begin", "loop", "sync_top", "exit", "judge"}
     \/ \A t \in Threads : pc[b][t] \in {"load", "sync_load"}
     \/ \A t \in Threads : pc[b][t] \in {"build", "sync_build"}

\* A thread takes inputs of its block that exist, and positions of its own.
Own(b, t) ==
  /\ input_index[b][t] % GridDim = b
  /\ pc[b][t] \notin {"begin", "loop", "exit"} => input_index[b][t] < InputsLen
  /\ pc[b][t] = "exit" => input_index[b][t] >= InputsLen
  /\ pc[b][t] = "judge" => position[b][t] % BlockDim = t
  /\ pc[b][t] = "sync_build" => position[b][t] = t

\* What shared memory holds when a thread relies on it.
Evidence(b, t) ==
  /\ pc[b][t] # "begin" => kernel_0[b][t]
  /\ pc[b][t] = "sync_load" /\ t < LoadThreads => oct_0[b][t] = input_index[b][t]
  /\ pc[b][t] \in {"build", "sync_build", "judge"} => OctaveOf(b, input_index[b][t])
  /\ pc[b][t] = "sync_build" => tables[b][t] = input_index[b][t]
  /\ pc[b][t] = "judge" => \A row \in Threads : tables[b][row] = input_index[b][t]

\* The inductive invariant.
IInv ==
  /\ TypeOK
  /\ \A b \in Blocks : Together(b)
  /\ \A b \in Blocks, t \in Threads : Own(b, t) /\ Evidence(b, t)

-----------------------------------------------------------------------------
(***************************************************************************)
(* Each step keeps the invariant.                                          *)
(***************************************************************************)
\* At the start all threads are at the beginning, with the first input of their
\* block.
LEMMA InitIInv == ASSUME BlockAssumption, Init PROVE IInv
<1> USE DEF BlockAssumption, Init
<1>1. TypeOK
  <2>1. \A t \in Threads : t \in 0..(Positions + BlockDim - 1) BY DEF Threads
  <2>2. Blocks \subseteq Nat BY DEF Blocks
  <2>3. outputs \in Seq(Items) OBVIOUS
  <2> QED BY <2>1, <2>2, <2>3 DEF TypeOK
<1>2. \A b \in Blocks : Together(b) BY DEF Together, NextIndex
<1>3. ASSUME NEW b \in Blocks PROVE b % GridDim = b
  <2>1. b \in Nat /\ b < GridDim /\ GridDim \in Nat \ {0} BY DEF Blocks
  <2> QED BY <2>1, SameRemainder
<1>4. \A b \in Blocks, t \in Threads : Own(b, t) /\ Evidence(b, t)
  BY <1>3 DEF Own, Evidence
<1> QED BY <1>1, <1>2, <1>4 DEF IInv

\* A step of a block leaves the others as they are.
LEMMA OtherBlocks ==
  ASSUME IInv, NEW b \in Blocks,
         \A c \in Blocks \ {b} :
           /\ pc'[c] = pc[c] /\ input_index'[c] = input_index[c] /\ position'[c] = position[c]
           /\ kernel_0'[c] = kernel_0[c] /\ oct_0'[c] = oct_0[c] /\ tables'[c] = tables[c],
         TypeOK', Together(b)', \A t \in Threads : Own(b, t)' /\ Evidence(b, t)'
  PROVE  IInv'
<1>1. ASSUME NEW c \in Blocks \ {b} PROVE Together(c)'
  BY DEF IInv, Together, NextIndex
<1>2. ASSUME NEW c \in Blocks \ {b}, NEW t \in Threads PROVE Own(c, t)' /\ Evidence(c, t)'
  BY DEF IInv, Own, Evidence, OctaveOf
<1> QED BY <1>1, <1>2 DEF IInv

\* The parts of the loop that a thread can be in.
BlockPCs == SyncPoints \cup {"begin", "loop", "load", "build", "judge", "exit"}

\* A thread that goes on to another part moves no other thread.
LEMMA ThreadGoes ==
  ASSUME TypeOK, NEW b \in Blocks, NEW t \in Threads, NEW x \in BlockPCs,
         Goto(b, t, x)
  PROVE  /\ pc' \in [Blocks -> [Threads -> BlockPCs]]
         /\ \A c \in Blocks, u \in Threads :
              pc'[c][u] = IF c = b /\ u = t THEN x ELSE pc[c][u]
<1>1. pc \in [Blocks -> [Threads -> BlockPCs]] BY DEF TypeOK, BlockPCs
<1> QED BY <1>1, UpdateCell DEF Goto

\* A thread puts its part of the first kernel table into shared memory before it
\* meets the others.
LEMMA BeginIInv ==
  ASSUME BlockAssumption, IInv, NEW b \in Blocks, NEW t \in Threads, Begin(b, t)
  PROVE  IInv'
<1>1. TypeOK BY DEF IInv
<1>2. /\ pc[b][t] = "begin" /\ pc' = [pc EXCEPT ![b][t] = "loop"]
      /\ kernel_0' = [kernel_0 EXCEPT ![b][t] = TRUE]
      /\ UNCHANGED <<passes, input_index, position, oct_0, tables, outs>>
  BY DEF Begin, Goto
<1>a. /\ pc' \in [Blocks -> [Threads -> BlockPCs]]
      /\ \A c \in Blocks, u \in Threads :
           pc'[c][u] = IF c = b /\ u = t THEN "loop" ELSE pc[c][u]
  <2>1. "loop" \in BlockPCs BY DEF BlockPCs, SyncPoints
  <2>2. Goto(b, t, "loop") BY <1>2 DEF Goto
  <2> QED BY <2>1, <2>2, <1>1, ThreadGoes
<1>b. /\ kernel_0' \in [Blocks -> [Threads -> BOOLEAN]]
      /\ kernel_0'[b][t] /\ \A u \in Threads : kernel_0[b][u] => kernel_0'[b][u]
  <2>0. PICK S, v : S = BOOLEAN /\ v = TRUE OBVIOUS
  <2>1. kernel_0 \in [Blocks -> [Threads -> S]] /\ v \in S
    BY <2>0, <1>1, Zenon DEF TypeOK
  <2>2. kernel_0' = [kernel_0 EXCEPT ![b][t] = v] BY <2>0, <1>2, Zenon
  <2>3. /\ kernel_0' \in [Blocks -> [Threads -> S]]
        /\ \A c \in Blocks, u \in Threads :
             kernel_0'[c][u] = IF c = b /\ u = t THEN v ELSE kernel_0[c][u]
    BY <2>1, <2>2, UpdateCell, SMT
  <2>4. kernel_0'[b][t] = v /\ \A u \in Threads \ {t} : kernel_0'[b][u] = kernel_0[b][u]
    BY <2>3, SMT
  <2> QED BY <2>0, <2>3, <2>4, Zenon
<1>3. TypeOK' BY <1>1, <1>2, <1>a, <1>b DEF TypeOK, outs, BlockPCs
<1>4. \A c \in Blocks \ {b} : pc'[c] = pc[c] /\ kernel_0'[c] = kernel_0[c]
  BY <1>1, <1>2 DEF TypeOK
<1>5. Together(b)' BY <1>2, <1>a DEF IInv, Together, NextIndex
<1>6. \A u \in Threads : Own(b, u)' BY <1>2, <1>a DEF IInv, Own
<1>7. ASSUME NEW u \in Threads PROVE Evidence(b, u)'
  <2>1. pc'[b][u] # "begin" => kernel_0'[b][u]
    <3>1. u = t \/ pc'[b][u] = pc[b][u] BY <1>a
    <3>2. pc[b][u] # "begin" => kernel_0[b][u] BY DEF IInv, Evidence
    <3> QED BY <3>1, <3>2, <1>b
  <2> QED BY <2>1, <1>2, <1>a DEF IInv, Evidence, OctaveOf
<1> QED BY <1>2, <1>3, <1>4, <1>5, <1>6, <1>7, OtherBlocks

\* The loop condition sends all threads of a block the same way: their inputs
\* are the same.
LEMMA LoopIInv ==
  ASSUME BlockAssumption, IInv, NEW b \in Blocks, NEW t \in Threads, Loop(b, t)
  PROVE  IInv'
<1>1. TypeOK BY DEF IInv
<1>2. PICK x \in {"sync_top", "exit"} :
        /\ x = "sync_top" <=> input_index[b][t] < InputsLen
        /\ pc[b][t] = "loop" /\ pc' = [pc EXCEPT ![b][t] = x]
        /\ UNCHANGED <<passes, input_index, position, kernel_0, oct_0, tables, outs>>
  BY DEF Loop, Goto, Top, shared
<1>3. /\ TypeOK'
      /\ \A c \in Blocks, u \in Threads :
           pc'[c][u] = IF c = b /\ u = t THEN x ELSE pc[c][u]
  <2>1. x \in BlockPCs BY DEF BlockPCs, SyncPoints
  <2>2. /\ pc' \in [Blocks -> [Threads -> BlockPCs]]
        /\ \A c \in Blocks, u \in Threads :
             pc'[c][u] = IF c = b /\ u = t THEN x ELSE pc[c][u]
    <3>1. Goto(b, t, x) BY <1>2 DEF Goto
    <3> QED BY <2>1, <3>1, <1>1, ThreadGoes
  <2> QED BY <2>2, <1>1, <1>2 DEF TypeOK, outs, BlockPCs
<1>4. \A c \in Blocks \ {b} : pc'[c] = pc[c] BY <1>1, <1>2 DEF TypeOK
<1>5. Together(b)' BY <1>2, <1>3 DEF IInv, Together, NextIndex
<1>6. \A u \in Threads : Own(b, u)'
  <2>1. input_index[b][t] \in Nat /\ InputsLen \in Nat BY <1>1 DEF TypeOK, BlockAssumption
  <2> QED BY <2>1, <1>2, <1>3 DEF IInv, Own
<1>7. \A u \in Threads : Evidence(b, u)' BY <1>2, <1>3 DEF IInv, Evidence, OctaveOf
<1> QED BY <1>2, <1>3, <1>4, <1>5, <1>6, <1>7, OtherBlocks

\* A thread that loads is in a block whose threads all load, and so on for the
\* other phases: the other threads work on the same input.
LEMMA Phases ==
  ASSUME IInv, NEW b \in Blocks, NEW t \in Threads
  PROVE  /\ pc[b][t] \in {"load", "sync_load"} =>
              \A u \in Threads : pc[b][u] \in {"load", "sync_load"}
         /\ pc[b][t] \in {"build", "sync_build"} =>
              \A u \in Threads : pc[b][u] \in {"build", "sync_build"}
         /\ pc[b][t] \in {"begin", "loop", "sync_top", "exit", "judge"} =>
              \A u \in Threads : pc[b][u] \in {"begin", "loop", "sync_top", "exit", "judge"}
         /\ pc[b][t] \in {"load", "sync_load", "build", "sync_build"} =>
              \A u \in Threads : input_index[b][u] = input_index[b][t] /\ kernel_0[b][u]
  BY DEF IInv, Together, NextIndex, Evidence

\* A thread that loads its part of the octave loads that of the input of the
\* whole block.
LEMMA LoadIInv ==
  ASSUME BlockAssumption, IInv, NEW b \in Blocks, NEW t \in Threads, Load(b, t)
  PROVE  IInv'
<1>1. TypeOK BY DEF IInv
<1>2. /\ pc[b][t] = "load" /\ pc' = [pc EXCEPT ![b][t] = "sync_load"]
      /\ oct_0' = IF t < LoadThreads
           THEN [oct_0 EXCEPT ![b][t] = input_index[b][t]] ELSE oct_0
      /\ UNCHANGED <<passes, input_index, position, kernel_0, tables, outs>>
  BY DEF Load, Goto
<1>3. /\ \A u \in Threads : pc[b][u] \in {"load", "sync_load"} BY <1>2, Phases
<1>4. /\ input_index[b][t] \in Inputs
      /\ t < LoadThreads => t \in 0..(LoadThreads - 1)
  <2>1. input_index[b][t] \in Nat /\ input_index[b][t] < InputsLen
    BY <1>1, <1>2 DEF TypeOK, IInv, Own
  <2> QED BY <2>1 DEF Inputs, Threads, BlockAssumption
<1>5. /\ pc' \in [Blocks -> [Threads -> BlockPCs]]
      /\ \A c \in Blocks, u \in Threads :
           pc'[c][u] = IF c = b /\ u = t THEN "sync_load" ELSE pc[c][u]
  <2>1. "sync_load" \in BlockPCs BY DEF BlockPCs, SyncPoints
  <2>2. Goto(b, t, "sync_load") BY <1>2 DEF Goto
  <2> QED BY <2>1, <2>2, <1>1, ThreadGoes
<1>6. /\ oct_0' \in [Blocks -> [0..(LoadThreads - 1) -> Inputs \cup {Nothing}]]
      /\ \A c \in Blocks, u \in 0..(LoadThreads - 1) :
           oct_0'[c][u] = IF c = b /\ u = t THEN input_index[b][t] ELSE oct_0[c][u]
  <2>1. CASE t < LoadThreads
    <3>1. oct_0' = [oct_0 EXCEPT ![b][t] = input_index[b][t]] BY <2>1, <1>2
    <3>2. PICK D, S : D = 0..(LoadThreads - 1) /\ S = Inputs \cup {Nothing} OBVIOUS
    <3>3. oct_0 \in [Blocks -> [D -> S]] /\ t \in D /\ input_index[b][t] \in S
      BY <3>2, <2>1, <1>1, <1>4 DEF TypeOK
    <3>4. /\ oct_0' \in [Blocks -> [D -> S]]
          /\ \A c \in Blocks, u \in D :
               oct_0'[c][u] = IF c = b /\ u = t THEN input_index[b][t] ELSE oct_0[c][u]
      BY <3>1, <3>3, UpdateCell
    <3> QED BY <3>2, <3>4
  <2>2. CASE ~(t < LoadThreads)
    <3>1. t \notin 0..(LoadThreads - 1) BY <2>2 DEF Threads, BlockAssumption
    <3> QED BY <2>2, <3>1, <1>1, <1>2 DEF TypeOK
  <2> QED BY <2>1, <2>2
<1>7. TypeOK' BY <1>1, <1>2, <1>5, <1>6 DEF TypeOK, outs, BlockPCs
<1>8. \A c \in Blocks \ {b} : pc'[c] = pc[c] /\ oct_0'[c] = oct_0[c]
  BY <1>1, <1>2 DEF TypeOK
<1>9. Together(b)' BY <1>2, <1>3, <1>5 DEF IInv, Together, NextIndex
<1>10. \A u \in Threads : Own(b, u)' BY <1>2, <1>5 DEF IInv, Own
<1>11. ASSUME NEW u \in Threads PROVE Evidence(b, u)'
  <2>1. pc'[b][u] \in {"load", "sync_load"} BY <1>3, <1>5
  <2>2. ASSUME pc'[b][u] = "sync_load", u < LoadThreads PROVE oct_0'[b][u] = input_index[b][u]
    <3>1. u \in 0..(LoadThreads - 1) BY <2>2 DEF Threads, BlockAssumption
    <3> QED BY <3>1, <2>2, <1>2, <1>5, <1>6 DEF IInv, Evidence
  <2>3. kernel_0[b][u] BY <1>2, Phases
  <2> QED BY <2>1, <2>2, <2>3, <1>2 DEF Evidence
<1> QED BY <1>2, <1>7, <1>8, <1>9, <1>10, <1>11, OtherBlocks

\* A thread that builds its part of the tables finds the whole octave.
LEMMA BuildIInv ==
  ASSUME BlockAssumption, IInv, NEW b \in Blocks, NEW t \in Threads, Build(b, t)
  PROVE  IInv'
<1>1. TypeOK BY DEF IInv
<1>2. pc[b][t] = "build" BY DEF Build
<1>3. /\ OctaveOf(b, input_index[b][t]) /\ \A u \in Threads : kernel_0[b][u]
  BY <1>2, Phases DEF IInv, Evidence
<1>4. /\ pc' = [pc EXCEPT ![b][t] = "sync_build"]
      /\ tables' = [tables EXCEPT ![b][t] = input_index[b][t]]
      /\ position' = [position EXCEPT ![b][t] = t]
      /\ UNCHANGED <<passes, input_index, kernel_0, oct_0, outs>>
  BY <1>3 DEF Build, Goto
<1>5. /\ \A u \in Threads : pc[b][u] \in {"build", "sync_build"} BY <1>2, Phases
<1>6. /\ input_index[b][t] \in Inputs \cup {Nothing} /\ t \in 0..(Positions + BlockDim - 1)
  <2>1. input_index[b][t] \in Nat /\ input_index[b][t] < InputsLen
    BY <1>1, <1>2 DEF TypeOK, IInv, Own
  <2> QED BY <2>1 DEF Inputs, Threads, BlockAssumption
<1>7. /\ pc' \in [Blocks -> [Threads -> BlockPCs]]
      /\ \A c \in Blocks, u \in Threads :
           pc'[c][u] = IF c = b /\ u = t THEN "sync_build" ELSE pc[c][u]
  <2>1. "sync_build" \in BlockPCs BY DEF BlockPCs, SyncPoints
  <2>2. Goto(b, t, "sync_build") BY <1>4 DEF Goto
  <2> QED BY <2>1, <2>2, <1>1, ThreadGoes
<1>8. /\ tables' \in [Blocks -> [Threads -> Inputs \cup {Nothing}]]
      /\ \A c \in Blocks, u \in Threads :
           tables'[c][u] = IF c = b /\ u = t THEN input_index[b][t] ELSE tables[c][u]
  <2>1. PICK S : S = Inputs \cup {Nothing} OBVIOUS
  <2>2. tables \in [Blocks -> [Threads -> S]] /\ input_index[b][t] \in S
    BY <2>1, <1>1, <1>6 DEF TypeOK
  <2> QED BY <2>1, <2>2, <1>4, UpdateCell
<1>9. /\ position' \in [Blocks -> [Threads -> 0..(Positions + BlockDim - 1)]]
      /\ \A c \in Blocks, u \in Threads :
           position'[c][u] = IF c = b /\ u = t THEN t ELSE position[c][u]
  <2>1. PICK S : S = 0..(Positions + BlockDim - 1) OBVIOUS
  <2>2. position \in [Blocks -> [Threads -> S]] /\ t \in S BY <2>1, <1>1, <1>6 DEF TypeOK
  <2> QED BY <2>1, <2>2, <1>4, UpdateCell
<1>10. TypeOK' BY <1>1, <1>4, <1>7, <1>8, <1>9 DEF TypeOK, outs, BlockPCs
<1>11. \A c \in Blocks \ {b} :
         pc'[c] = pc[c] /\ tables'[c] = tables[c] /\ position'[c] = position[c]
  BY <1>1, <1>4 DEF TypeOK
<1>12. Together(b)' BY <1>4, <1>5, <1>7 DEF IInv, Together, NextIndex
<1>13. \A u \in Threads : Own(b, u)' BY <1>2, <1>4, <1>5, <1>7, <1>9 DEF IInv, Own
<1>14. \A u \in Threads : Evidence(b, u)'
  BY <1>2, <1>3, <1>4, <1>5, <1>7, <1>8 DEF IInv, Evidence, OctaveOf
<1> QED BY <1>4, <1>10, <1>11, <1>12, <1>13, <1>14, OtherBlocks

\* A thread that judges a position has the tables and the octave of its input
\* before it, so the verdict is the right one.
LEMMA JudgeEffect ==
  ASSUME BlockAssumption, IInv, NEW b \in Blocks, NEW t \in Threads, Judge(b, t)
  PROVE  LET i == input_index[b][t]
             p == position[b][t]
         IN  /\ pc[b][t] = "judge" /\ i \in Inputs /\ p \in Nat /\ p < Positions
             /\ <<i, p>> \in Items
             /\ position' = [position EXCEPT ![b][t] = p + BlockDim]
             /\ IF passes[<<i, p>>]
                  THEN /\ outputs_len' = outputs_len + 1
                       /\ outputs' = IF outputs_len < MaxLen THEN Append(outputs, <<i, p>>)
                                                             ELSE outputs
                  ELSE UNCHANGED outs
             /\ UNCHANGED <<passes, pc, input_index, kernel_0, oct_0, tables>>
<1> DEFINE i == input_index[b][t]
           p == position[b][t]
           Right == OctaveOf(b, i) /\ \A row \in Threads : tables[b][row] = i
<1>1. TypeOK BY DEF IInv
<1>2. pc[b][t] = "judge" /\ p < Positions BY DEF Judge
<1>3. i \in Nat /\ i < InputsLen /\ p \in Nat
  <2>1. i \in Nat /\ p \in 0..(Positions + BlockDim - 1) BY <1>1 DEF TypeOK
  <2>2. i < InputsLen BY <1>2 DEF IInv, Own
  <2> QED BY <2>1, <2>2
<1>4. i \in Inputs /\ <<i, p>> \in Items
  BY <1>2, <1>3 DEF Inputs, Items, BlockAssumption
<1>5. Right BY <1>2 DEF IInv, Evidence
<1>6. \E accept \in IF Right THEN {passes[<<i, p>>]} ELSE BOOLEAN :
        IF accept
          THEN /\ outputs_len' = outputs_len + 1
               /\ outputs' = IF outputs_len < MaxLen THEN Append(outputs, <<i, p>>)
                                                     ELSE outputs
          ELSE UNCHANGED outs
  BY DEF Judge
<1> HIDE DEF Right
<1>7. \E accept \in {passes[<<i, p>>]} :
        IF accept
          THEN /\ outputs_len' = outputs_len + 1
               /\ outputs' = IF outputs_len < MaxLen THEN Append(outputs, <<i, p>>)
                                                     ELSE outputs
          ELSE UNCHANGED outs
  BY <1>5, <1>6
<1>8. IF passes[<<i, p>>]
        THEN /\ outputs_len' = outputs_len + 1
             /\ outputs' = IF outputs_len < MaxLen THEN Append(outputs, <<i, p>>)
                                                   ELSE outputs
        ELSE UNCHANGED outs
  BY <1>7, Zenon
<1>9. /\ position' = [position EXCEPT ![b][t] = p + BlockDim]
      /\ UNCHANGED <<passes, pc, input_index, kernel_0, oct_0, tables>>
  BY DEF Judge, shared
<1> QED BY <1>2, <1>3, <1>4, <1>8, <1>9

\* Only the position and the outputs change, and the position stays one of
\* the thread's own.
LEMMA JudgeIInv ==
  ASSUME BlockAssumption, IInv, NEW b \in Blocks, NEW t \in Threads, Judge(b, t)
  PROVE  /\ IInv'
         /\ \A c \in Blocks, u \in Threads :
              position'[c][u] = IF c = b /\ u = t THEN position[b][t] + BlockDim
                                                  ELSE position[c][u]
<1>1. TypeOK BY DEF IInv
<1>2. PICK i, p : i = input_index[b][t] /\ p = position[b][t] OBVIOUS
<1>3. /\ pc[b][t] = "judge" /\ i \in Inputs /\ p \in Nat /\ p < Positions
      /\ <<i, p>> \in Items
      /\ position' = [position EXCEPT ![b][t] = p + BlockDim]
      /\ UNCHANGED <<passes, pc, input_index, kernel_0, oct_0, tables>>
  BY <1>2, JudgeEffect
<1>4. /\ outputs_len' \in {outputs_len, outputs_len + 1}
      /\ outputs' = outputs \/ outputs' = Append(outputs, <<i, p>>)
  <2>1. IF passes[<<i, p>>]
          THEN /\ outputs_len' = outputs_len + 1
               /\ outputs' = IF outputs_len < MaxLen THEN Append(outputs, <<i, p>>)
                                                     ELSE outputs
          ELSE UNCHANGED outs
    BY <1>2, JudgeEffect
  <2> QED BY <2>1 DEF outs
<1>5. outputs_len' \in Nat /\ outputs' \in Seq(Items)
  <2>1. PICK S, item : S = Items /\ item = <<i, p>> OBVIOUS
  <2>2. outputs \in Seq(S) /\ item \in S /\ outputs_len \in Nat
    BY <2>1, <1>1, <1>3 DEF TypeOK
  <2>3. Append(outputs, item) \in Seq(S) BY <2>2
  <2> QED BY <2>1, <2>2, <2>3, <1>4
<1>6. /\ position' \in [Blocks -> [Threads -> 0..(Positions + BlockDim - 1)]]
      /\ \A c \in Blocks, u \in Threads :
           position'[c][u] = IF c = b /\ u = t THEN p + BlockDim ELSE position[c][u]
  <2>1. PICK S : S = 0..(Positions + BlockDim - 1) OBVIOUS
  <2>2. position \in [Blocks -> [Threads -> S]] BY <2>1, <1>1 DEF TypeOK
  <2>3. p + BlockDim \in S BY <2>1, <1>3 DEF BlockAssumption
  <2> QED BY <2>1, <2>2, <2>3, <1>3, UpdateCell
<1>7. TypeOK' BY <1>1, <1>3, <1>5, <1>6 DEF TypeOK
<1>8. \A c \in Blocks \ {b} : position'[c] = position[c] BY <1>1, <1>3 DEF TypeOK
<1>9. Together(b)' BY <1>3 DEF IInv, Together, NextIndex
<1>10. ASSUME NEW u \in Threads PROVE Own(b, u)'
  <2>1. CASE u # t BY <2>1, <1>3, <1>6 DEF IInv, Own
  <2>2. CASE u = t
    <3>1. p % BlockDim = t BY <1>2, <1>3 DEF IInv, Own
    <3>2. (p + BlockDim) % BlockDim = t BY <3>1, <1>3, SameRemainder DEF BlockAssumption
    <3> QED BY <3>2, <2>2, <1>3, <1>6 DEF IInv, Own
  <2> QED BY <2>1, <2>2
<1>11. \A u \in Threads : Evidence(b, u)' BY <1>3 DEF IInv, Evidence, OctaveOf
<1>12. IInv' BY <1>3, <1>7, <1>8, <1>9, <1>10, <1>11, OtherBlocks
<1> QED BY <1>2, <1>6, <1>12

\* A thread that goes on to the next input stays with its block.
LEMMA NextInputIInv ==
  ASSUME BlockAssumption, IInv, NEW b \in Blocks, NEW t \in Threads, NextInput(b, t)
  PROVE  /\ IInv'
         /\ \A c \in Blocks, u \in Threads :
              /\ pc'[c][u] = IF c = b /\ u = t THEN "loop" ELSE pc[c][u]
              /\ input_index'[c][u] = IF c = b /\ u = t THEN input_index[b][t] + GridDim
                                                        ELSE input_index[c][u]
<1>1. TypeOK BY DEF IInv
<1>2. PICK i \in Nat : i = input_index[b][t] BY <1>1 DEF TypeOK
<1>3. /\ pc[b][t] = "judge" /\ pc' = [pc EXCEPT ![b][t] = "loop"]
      /\ input_index' = [input_index EXCEPT ![b][t] = i + GridDim]
      /\ UNCHANGED <<passes, position, kernel_0, oct_0, tables, outs>>
  BY <1>2 DEF NextInput, Goto, shared
<1>4. /\ pc' \in [Blocks -> [Threads -> BlockPCs]]
      /\ \A c \in Blocks, u \in Threads :
           pc'[c][u] = IF c = b /\ u = t THEN "loop" ELSE pc[c][u]
  <2>1. "loop" \in BlockPCs BY DEF BlockPCs, SyncPoints
  <2>2. Goto(b, t, "loop") BY <1>3 DEF Goto
  <2> QED BY <2>1, <2>2, <1>1, ThreadGoes
<1>5. /\ input_index' \in [Blocks -> [Threads -> Nat]]
      /\ \A c \in Blocks, u \in Threads :
           input_index'[c][u] = IF c = b /\ u = t THEN i + GridDim ELSE input_index[c][u]
  <2>1. i + GridDim \in Nat BY DEF BlockAssumption
  <2>2. input_index \in [Blocks -> [Threads -> Nat]] BY <1>1 DEF TypeOK
  <2> QED BY <2>1, <2>2, <1>3, UpdateCell
<1>6. TypeOK' BY <1>1, <1>3, <1>4, <1>5 DEF TypeOK, outs, BlockPCs
<1>7. \A c \in Blocks \ {b} : pc'[c] = pc[c] /\ input_index'[c] = input_index[c]
  BY <1>1, <1>3 DEF TypeOK
<1>8. Together(b)'
  <2>1. \A u \in Threads : NextIndex(b, u)' = NextIndex(b, u)
    BY <1>2, <1>3, <1>4, <1>5 DEF NextIndex
  <2>2. \A u \in Threads : pc[b][u] \in {"begin", "loop", "sync_top", "exit", "judge"}
    BY <1>3, Phases
  <2> QED BY <2>1, <2>2, <1>4 DEF IInv, Together
<1>9. ASSUME NEW u \in Threads PROVE Own(b, u)'
  <2>1. CASE u # t BY <2>1, <1>3, <1>4, <1>5 DEF IInv, Own
  <2>2. CASE u = t
    <3>1. i % GridDim = b BY <1>2 DEF IInv, Own
    <3>2. (i + GridDim) % GridDim = b BY <3>1, SameRemainder DEF BlockAssumption
    <3> QED BY <3>2, <2>2, <1>3, <1>4, <1>5 DEF IInv, Own
  <2> QED BY <2>1, <2>2
<1>10. ASSUME NEW u \in Threads PROVE Evidence(b, u)'
  <2>1. Evidence(b, u) BY DEF IInv
  <2>2. CASE u # t
    <3>1. pc'[b][u] = pc[b][u] /\ input_index'[b][u] = input_index[b][u]
      BY <2>2, <1>4, <1>5
    <3> QED BY <2>1, <3>1, <1>3 DEF Evidence, OctaveOf
  <2>3. CASE u = t
    <3>1. pc'[b][t] = "loop" /\ kernel_0[b][t] BY <2>1, <2>3, <1>3, <1>4 DEF Evidence
    <3> QED BY <3>1, <2>3, <1>3 DEF Evidence
  <2> QED BY <2>2, <2>3
<1>11. IInv' BY <1>3, <1>6, <1>7, <1>8, <1>9, <1>10, OtherBlocks
<1> QED BY <1>2, <1>4, <1>5, <1>11

\* The barrier opens for all threads of the block or for none: what they
\* relied on others for is there.
LEMMA SyncIInv ==
  ASSUME BlockAssumption, IInv, NEW b \in Blocks, syncthreads(b)
  PROVE  /\ IInv'
         /\ \A c \in Blocks \ {b} : pc'[c] = pc[c]
         /\ \A u \in Threads :
              /\ pc[b][u] # "judge"
              /\ pc'[b][u] = "judge" => pc[b][u] = "sync_build"
<1>1. TypeOK BY DEF IInv
<1> DEFINE After(x) == CASE x = "sync_top" -> "load"
                         [] x = "sync_load" -> "build"
                         [] x = "sync_build" -> "judge"
                         [] x = "exit" -> "exit"
           PCs == SyncPoints \cup {"begin", "loop", "load", "build", "judge", "exit"}
<1>2. /\ \A u \in Threads : pc[b][u] \in {"sync_top", "sync_load", "sync_build", "exit"}
      /\ pc' = [pc EXCEPT ![b] = [u \in Threads |-> After(pc[b][u])]]
      /\ UNCHANGED <<passes, input_index, position, kernel_0, oct_0, tables, outs>>
  BY DEF syncthreads, SyncPoints, shared
<1>3. /\ After("sync_top") = "load" /\ After("sync_load") = "build"
      /\ After("sync_build") = "judge" /\ After("exit") = "exit"
  OBVIOUS
<1> HIDE DEF After
<1>4. /\ \A u \in Threads : pc'[b][u] = After(pc[b][u])
      /\ \A c \in Blocks \ {b} : pc'[c] = pc[c]
      /\ pc' \in [Blocks -> [Threads -> PCs]]
  <2>1. pc \in [Blocks -> [Threads -> PCs]] BY <1>1 DEF TypeOK
  <2>2. [u \in Threads |-> After(pc[b][u])] \in [Threads -> PCs]
    BY <1>2, <1>3 DEF SyncPoints
  <2> HIDE DEF PCs
  <2> QED BY <2>1, <2>2, <1>2
<1>5. TypeOK' BY <1>1, <1>2, <1>4 DEF TypeOK, outs
<1>6. \A u \in Threads : Own(b, u) /\ Evidence(b, u) BY DEF IInv
<1>7. \A s, u \in Threads : input_index[b][s] = input_index[b][u]
  BY <1>2 DEF IInv, Together, NextIndex
<1>8. \A u \in Threads : input_index[b][u] \in Nat BY <1>1 DEF TypeOK
<1>9. CASE \A u \in Threads : pc[b][u] = "sync_top"
  <2>1. \A u \in Threads : pc'[b][u] = "load" BY <1>3, <1>4, <1>9
  <2>2. Together(b)' BY <2>1, <1>2, <1>7 DEF Together, NextIndex
  <2>3. \A u \in Threads : Own(b, u)' /\ Evidence(b, u)'
    BY <2>1, <1>2, <1>6, <1>9 DEF Own, Evidence
  <2> QED BY <2>1, <2>2, <2>3, <1>2, <1>4, <1>5, <1>9, OtherBlocks
<1>10. CASE \A u \in Threads : pc[b][u] = "exit"
  <2>1. \A u \in Threads : pc'[b][u] = "exit" BY <1>3, <1>4, <1>10
  <2>2. Together(b)' BY <2>1, <1>2, <1>7 DEF Together, NextIndex
  <2>3. \A u \in Threads : Own(b, u)' /\ Evidence(b, u)'
    BY <2>1, <1>2, <1>6, <1>10 DEF Own, Evidence
  <2> QED BY <2>1, <2>2, <2>3, <1>2, <1>4, <1>5, <1>10, OtherBlocks
<1>11. CASE \A u \in Threads : pc[b][u] = "sync_load"
  <2>1. \A u \in Threads : pc'[b][u] = "build" BY <1>3, <1>4, <1>11
  <2>2. Together(b)' BY <2>1, <1>2, <1>7 DEF Together, NextIndex
  <2>3. \A u \in Threads : OctaveOf(b, input_index[b][u])
    <3> TAKE u \in Threads
    <3> SUFFICES ASSUME NEW l \in 0..(LoadThreads - 1)
                 PROVE  oct_0[b][l] = input_index[b][u]
      BY DEF OctaveOf
    <3>1. l \in Threads /\ l < LoadThreads BY DEF Threads, BlockAssumption
    <3>2. oct_0[b][l] = input_index[b][l] BY <3>1, <1>6, <1>11 DEF Evidence
    <3> QED BY <3>1, <3>2, <1>7
  <2>4. \A u \in Threads : Own(b, u)' /\ Evidence(b, u)'
    BY <2>1, <2>3, <1>2, <1>6, <1>11 DEF Own, Evidence, OctaveOf
  <2> QED BY <2>1, <2>2, <2>4, <1>2, <1>4, <1>5, <1>11, OtherBlocks
<1>12. CASE \A u \in Threads : pc[b][u] = "sync_build"
  <2>1. \A u \in Threads : pc'[b][u] = "judge" BY <1>3, <1>4, <1>12
  <2>2. Together(b)' BY <2>1, <1>2, <1>7 DEF Together, NextIndex
  <2>3. \A u \in Threads : u % BlockDim = u
    <3> TAKE u \in Threads
    <3>1. u \in Nat /\ u < BlockDim BY DEF Threads, BlockAssumption
    <3> QED BY <3>1, SameRemainder DEF BlockAssumption
  <2>4. \A u \in Threads : Own(b, u)'
    BY <2>1, <2>3, <1>2, <1>6, <1>12 DEF Own
  <2>5. \A u, row \in Threads : tables[b][row] = input_index[b][u]
    BY <1>6, <1>7, <1>12 DEF Evidence
  <2>6. \A u \in Threads : Evidence(b, u)'
    BY <2>1, <2>5, <1>2, <1>6, <1>12 DEF Evidence, OctaveOf
  <2> QED BY <2>1, <2>2, <2>4, <2>6, <1>2, <1>4, <1>5, <1>12, OtherBlocks
<1>13. \/ \A u \in Threads : pc[b][u] \in {"sync_top", "exit"}
       \/ \A u \in Threads : pc[b][u] = "sync_load"
       \/ \A u \in Threads : pc[b][u] = "sync_build"
  BY <1>2 DEF IInv, Together
<1>14. ASSUME \A u \in Threads : pc[b][u] \in {"sync_top", "exit"},
              NEW s \in Threads, NEW u \in Threads
       PROVE  pc[b][s] = pc[b][u]
  BY <1>6, <1>7, <1>8, <1>14 DEF Own, BlockAssumption
<1> QED BY <1>9, <1>10, <1>11, <1>12, <1>13, <1>14

\* Every step keeps the invariant.
LEMMA NextIInv == BlockAssumption /\ IInv /\ [Next]_vars => IInv'
<1> SUFFICES ASSUME BlockAssumption, IInv, [Next]_vars PROVE IInv'
  OBVIOUS
<1>1. CASE UNCHANGED vars
  BY <1>1 DEF vars, shared, outs, IInv, TypeOK, Together, NextIndex, Own, Evidence, OctaveOf
<1>2. ASSUME NEW b \in Blocks, syncthreads(b) PROVE IInv' BY <1>2, SyncIInv
<1>3. ASSUME NEW b \in Blocks, NEW t \in Threads, ThreadStep(b, t) PROVE IInv'
  BY <1>3, BeginIInv, LoopIInv, LoadIInv, BuildIInv, JudgeIInv, NextInputIInv
     DEF ThreadStep
<1> QED BY <1>1, <1>2, <1>3 DEF Next, Done

\* For any numbers of blocks, threads, inputs and positions the threads of a
\* block stay together, and shared memory holds what they rely on.
THEOREM BlockInvariant == BlockAssumption => (Spec => []IInv)
<1> SUFFICES ASSUME BlockAssumption PROVE Spec => []IInv
  OBVIOUS
<1>1. Init => IInv BY InitIInv
<1>2. IInv /\ [Next]_vars => IInv' BY NextIInv
<1> QED BY <1>1, <1>2, PTL DEF Spec

\* The types of the kernels' variables; octave and tables are never of an
\* input that does not exist.
THEOREM TypeCorrect == BlockAssumption => (Spec => []TypeOK)
<1>1. IInv => TypeOK BY DEF IInv
<1> QED BY <1>1, BlockInvariant, PTL

-----------------------------------------------------------------------------
(***************************************************************************)
(* The kernels implement FilterKernel.                                     *)
(***************************************************************************)
\* An item belongs to a block and a thread that exist.
LEMMA OwnerOf ==
  ASSUME BlockAssumption, NEW item \in Items
  PROVE  /\ item = <<item[1], item[2]>> /\ item[1] \in Inputs /\ item[1] \in Nat
         /\ item[2] \in Nat /\ item[2] < Positions
         /\ item[1] % GridDim \in Blocks /\ item[1] % GridDim <= item[1]
         /\ item[2] % BlockDim \in Threads /\ item[2] % BlockDim <= item[2]
<1>1. /\ item = <<item[1], item[2]>> /\ item[1] \in Inputs /\ item[2] \in 0..(Positions - 1)
  BY DEF Items
<1>2. item[1] \in Nat /\ item[2] \in Nat /\ item[2] < Positions
  BY <1>1 DEF Inputs, BlockAssumption
<1>3. item[1] % GridDim \in 0..(GridDim - 1) /\ item[1] % GridDim <= item[1]
  BY <1>2, SameRemainder DEF BlockAssumption
<1>4. item[2] % BlockDim \in 0..(BlockDim - 1) /\ item[2] % BlockDim <= item[2]
  BY <1>2, SameRemainder DEF BlockAssumption
<1> QED BY <1>1, <1>2, <1>3, <1>4 DEF Blocks, Threads

\* At the start nothing is decided.
LEMMA InitAbstract == ASSUME BlockAssumption, Init PROVE Abstract!Init
<1>1. ASSUME NEW item \in Items PROVE ~Decided(item)
  <2>1. /\ item[1] % GridDim \in Blocks /\ item[1] % GridDim <= item[1]
        /\ item[2] % BlockDim \in Threads /\ item[1] \in Nat
    BY OwnerOf
  <2>2. /\ input_index[item[1] % GridDim][item[2] % BlockDim] = item[1] % GridDim
        /\ pc[item[1] % GridDim][item[2] % BlockDim] = "begin"
    BY <2>1 DEF Init
  <2>3. item[1] % GridDim \in Nat BY <2>1 DEF Blocks, BlockAssumption
  <2> QED BY <2>1, <2>2, <2>3 DEF Decided
<1>2. {item \in Items : ~Decided(item)} = Items BY <1>1
<1>3. \A item \in Items : (IF passes[item] THEN item ELSE NotAnItem) \in Items \cup {NotAnItem}
  OBVIOUS
<1> QED BY <1>2, <1>3 DEF Init, Abstract!Init

\* A step after which the same items are decided and nothing is appended.
LEMMA Stutters ==
  ASSUME \A item \in Items : Decided(item)' <=> Decided(item), UNCHANGED <<passes, outs>>
  PROVE  UNCHANGED Abstract!vars
<1>1. {item \in Items : ~Decided(item)}' = {item \in Items : ~Decided(item)} OBVIOUS
<1>2. [item \in Items |-> IF passes[item] THEN item ELSE NotAnItem]' =
      [item \in Items |-> IF passes[item] THEN item ELSE NotAnItem]
  OBVIOUS
<1> QED BY <1>1, <1>2 DEF Abstract!vars, outs

\* Threads that judge go on from where they were, and threads that begin to
\* judge begin with their first position: nothing is decided by that.
LEMMA QuietStep ==
  ASSUME BlockAssumption, input_index' = input_index, UNCHANGED <<passes, outs>>,
         \A c \in Blocks, u \in Threads :
           /\ pc[c][u] = "judge" => pc'[c][u] = "judge" /\ position'[c][u] = position[c][u]
           /\ pc'[c][u] = "judge" /\ pc[c][u] # "judge" => position'[c][u] = u
  PROVE  UNCHANGED Abstract!vars
<1>1. ASSUME NEW item \in Items PROVE Decided(item)' <=> Decided(item)
  <2>1. PICK c \in Blocks, u \in Threads :
          c = item[1] % GridDim /\ u = item[2] % BlockDim /\ u <= item[2] /\ item[2] \in Nat
    BY OwnerOf
  <2>2. /\ Decided(item) <=> \/ input_index[c][u] > item[1]
                             \/ /\ input_index[c][u] = item[1] /\ pc[c][u] = "judge"
                                /\ position[c][u] > item[2]
        /\ Decided(item)' <=> \/ input_index[c][u] > item[1]
                              \/ /\ input_index[c][u] = item[1] /\ pc'[c][u] = "judge"
                                 /\ position'[c][u] > item[2]
    BY <2>1 DEF Decided
  <2>3. ~(u > item[2]) BY <2>1 DEF Threads, BlockAssumption
  <2> QED BY <2>2, <2>3
<1> QED BY <1>1, Stutters

\* Going on to the next input decides nothing: the thread has judged all its
\* positions of this input, and no input between the two is its block's.
LEMMA NextInputStutters ==
  ASSUME BlockAssumption, IInv, NEW b \in Blocks, NEW t \in Threads, NextInput(b, t)
  PROVE  UNCHANGED Abstract!vars
<1>1. /\ pc[b][t] = "judge" /\ position[b][t] >= Positions
      /\ UNCHANGED <<passes, position, outs>>
  BY DEF NextInput
<1>2. \A c \in Blocks, u \in Threads :
        /\ pc'[c][u] = IF c = b /\ u = t THEN "loop" ELSE pc[c][u]
        /\ input_index'[c][u] = IF c = b /\ u = t THEN input_index[b][t] + GridDim
                                                  ELSE input_index[c][u]
  BY NextInputIInv
<1>3. PICK i \in Nat, p \in Nat : i = input_index[b][t] /\ p = position[b][t]
  <2>1. input_index[b][t] \in Nat /\ position[b][t] \in 0..(Positions + BlockDim - 1)
    BY DEF IInv, TypeOK
  <2> QED BY <2>1
<1>4. i % GridDim = b BY <1>3 DEF IInv, Own
<1>5. ASSUME NEW item \in Items PROVE Decided(item)' <=> Decided(item)
  <2>1. /\ item[1] \in Nat /\ item[2] \in Nat /\ item[2] < Positions
    BY OwnerOf
  <2>2. PICK c \in Blocks, u \in Threads : c = item[1] % GridDim /\ u = item[2] % BlockDim
    BY OwnerOf
  <2>3. /\ Decided(item) <=> \/ input_index[c][u] > item[1]
                             \/ /\ input_index[c][u] = item[1] /\ pc[c][u] = "judge"
                                /\ position[c][u] > item[2]
        /\ Decided(item)' <=> \/ input_index'[c][u] > item[1]
                              \/ /\ input_index'[c][u] = item[1] /\ pc'[c][u] = "judge"
                                 /\ position'[c][u] > item[2]
    BY <2>2 DEF Decided
  <2>4. CASE ~(c = b /\ u = t) BY <2>3, <2>4, <1>1, <1>2
  <2>5. CASE c = b /\ u = t
    <3>1. Decided(item)' <=> i + GridDim > item[1] BY <2>3, <2>5, <1>2, <1>3
    <3>2. Decided(item) <=> i > item[1] \/ (i = item[1] /\ p > item[2])
      BY <2>3, <2>5, <1>1, <1>3
    <3>3. p > item[2] BY <2>1, <1>1, <1>3 DEF BlockAssumption
    <3>4. i < item[1] => i + GridDim <= item[1]
      BY <2>1, <2>2, <2>5, <1>4, SameRemainder DEF BlockAssumption
    <3>5. GridDim \in Nat \ {0} BY DEF BlockAssumption
    <3> QED BY <3>1, <3>2, <3>3, <3>4, <3>5, <2>1
  <2> QED BY <2>4, <2>5
<1> QED BY <1>1, <1>5, Stutters

\* Judging a position is FilterKernel's step for it: the item was undecided,
\* it is the only one that is decided now, and it is appended if it passes.
LEMMA JudgeDecides ==
  ASSUME BlockAssumption, IInv, NEW b \in Blocks, NEW t \in Threads, Judge(b, t)
  PROVE  Abstract!Next
<1>1. PICK i \in Nat, p \in Nat : i = input_index[b][t] /\ p = position[b][t]
  <2>1. input_index[b][t] \in Nat /\ position[b][t] \in 0..(Positions + BlockDim - 1)
    BY DEF IInv, TypeOK
  <2> QED BY <2>1
<1>2. PICK x : x = <<i, p>> OBVIOUS
<1>3. /\ pc[b][t] = "judge" /\ x \in Items /\ x[1] = i /\ x[2] = p
      /\ IF passes[x]
           THEN /\ outputs_len' = outputs_len + 1
                /\ outputs' = IF outputs_len < MaxLen THEN Append(outputs, x) ELSE outputs
           ELSE UNCHANGED outs
      /\ UNCHANGED <<passes, pc, input_index>>
  BY <1>1, <1>2, JudgeEffect
<1>4. \A c \in Blocks, u \in Threads :
        position'[c][u] = IF c = b /\ u = t THEN p + BlockDim ELSE position[c][u]
  BY <1>1, JudgeIInv
<1>5. i % GridDim = b /\ p % BlockDim = t BY <1>1, <1>3 DEF IInv, Own
<1>6. BlockDim \in Nat \ {0} BY DEF BlockAssumption
<1>7. ~Decided(x) /\ Decided(x)'
  <2>1. /\ Decided(x) <=> i > i \/ (i = i /\ pc[b][t] = "judge" /\ p > p)
        /\ Decided(x)' <=> i > i \/ (i = i /\ pc[b][t] = "judge" /\ p + BlockDim > p)
    BY <1>1, <1>3, <1>4, <1>5 DEF Decided
  <2> QED BY <2>1, <1>3, <1>6
<1>8. ASSUME NEW item \in Items, item # x PROVE Decided(item)' <=> Decided(item)
  <2>1. /\ item = <<item[1], item[2]>> /\ item[1] \in Nat /\ item[2] \in Nat
    BY OwnerOf
  <2>2. PICK c \in Blocks, u \in Threads : c = item[1] % GridDim /\ u = item[2] % BlockDim
    BY OwnerOf
  <2>3. /\ Decided(item) <=> \/ input_index[c][u] > item[1]
                             \/ /\ input_index[c][u] = item[1] /\ pc[c][u] = "judge"
                                /\ position[c][u] > item[2]
        /\ Decided(item)' <=> \/ input_index[c][u] > item[1]
                              \/ /\ input_index[c][u] = item[1] /\ pc[c][u] = "judge"
                                 /\ position'[c][u] > item[2]
    BY <2>2, <1>3 DEF Decided
  <2>4. CASE ~(c = b /\ u = t) BY <2>3, <2>4, <1>4
  <2>5. CASE c = b /\ u = t
    <3>1. /\ Decided(item) <=> i > item[1] \/ (i = item[1] /\ p > item[2])
          /\ Decided(item)' <=> i > item[1] \/ (i = item[1] /\ p + BlockDim > item[2])
      BY <2>3, <2>5, <1>1, <1>3, <1>4
    <3>2. p < item[2] => p + BlockDim <= item[2]
      BY <2>1, <2>2, <2>5, <1>5, <1>6, SameRemainder
    <3>3. i = item[1] => p # item[2] BY <2>1, <1>2, <1>8
    <3> QED BY <3>1, <3>2, <3>3, <2>1, <1>6
  <2> QED BY <2>4, <2>5
<1> DEFINE Todo == {item \in Items : ~Decided(item)}
           V == [item \in Items |-> IF passes[item] THEN item ELSE NotAnItem]
<1>9. x \in Todo /\ Todo' = Todo \ {x} BY <1>3, <1>7, <1>8
<1>10. V' = V BY <1>3
<1>11. V[x] = NotAnItem <=> ~passes[x]
  <2>1. x # NotAnItem BY <1>1, <1>2 DEF NotAnItem, Nothing
  <2> QED BY <2>1, <1>3
<1>12. passes[x] => V[x] = x BY <1>3
<1> HIDE DEF Todo, V
<1>13. IF V[x] = NotAnItem
         THEN UNCHANGED <<outputs_len, outputs>>
         ELSE /\ outputs_len' = outputs_len + 1
              /\ outputs' = IF outputs_len < MaxLen THEN Append(outputs, V[x]) ELSE outputs
  BY <1>3, <1>11, <1>12 DEF outs
<1>14. Abstract!Decide(x) BY <1>9, <1>10, <1>13 DEF Abstract!Decide, Todo, V
<1> QED BY <1>9, <1>14 DEF Abstract!Next, Todo

\* Every step is one of FilterKernel's, or changes nothing it can see.
LEMMA NextAbstract ==
  ASSUME BlockAssumption, IInv, [Next]_vars
  PROVE  [Abstract!Next]_(Abstract!vars)
<1>0. TypeOK BY DEF IInv
<1>1. CASE UNCHANGED vars
  <2>1. UNCHANGED Abstract!vars BY <1>1, QuietStep DEF vars
  <2> QED BY <2>1
<1>2. ASSUME NEW b \in Blocks, syncthreads(b) PROVE UNCHANGED Abstract!vars
  <2>1. /\ \A c \in Blocks \ {b} : pc'[c] = pc[c]
        /\ \A u \in Threads : /\ pc[b][u] # "judge"
                              /\ pc'[b][u] = "judge" => pc[b][u] = "sync_build"
        /\ UNCHANGED <<passes, input_index, position, outs>>
    BY <1>2, SyncIInv DEF syncthreads
  <2>2. \A u \in Threads : pc[b][u] = "sync_build" => position[b][u] = u BY DEF IInv, Own
  <2> QED BY <2>1, <2>2, QuietStep
<1>3. ASSUME NEW b \in Blocks, NEW t \in Threads, NEW x, x # "judge", pc[b][t] # "judge",
             Goto(b, t, x), UNCHANGED <<passes, input_index, outs>>,
             \A c \in Blocks, u \in Threads :
               position'[c][u] = position[c][u] \/ (c = b /\ u = t)
      PROVE  UNCHANGED Abstract!vars
  <2>1. \A c \in Blocks, u \in Threads : pc'[c][u] = IF c = b /\ u = t THEN x ELSE pc[c][u]
    BY <1>0, <1>3 DEF Goto, TypeOK
  <2> QED BY <2>1, <1>3, QuietStep
<1>4. ASSUME NEW b \in Blocks, NEW t \in Threads, Begin(b, t) \/ Loop(b, t) \/ Load(b, t)
      PROVE  UNCHANGED Abstract!vars
  <2>1. \E x : /\ x # "judge" /\ pc[b][t] # "judge" /\ Goto(b, t, x)
               /\ UNCHANGED <<passes, input_index, position, outs>>
    BY <1>4 DEF Begin, Loop, Load, Top
  <2> QED BY <2>1, <1>3
<1>5. ASSUME NEW b \in Blocks, NEW t \in Threads, Build(b, t)
      PROVE  UNCHANGED Abstract!vars
  <2>1. /\ pc[b][t] = "build" /\ Goto(b, t, "sync_build")
        /\ UNCHANGED <<passes, input_index, outs>>
        /\ position' = [position EXCEPT ![b][t] = t]
    BY <1>5 DEF Build
  <2>2. \A c \in Blocks, u \in Threads :
          position'[c][u] = position[c][u] \/ (c = b /\ u = t)
    BY <2>1, <1>0 DEF TypeOK
  <2> QED BY <2>1, <2>2, <1>3
<1> QED BY <1>1, <1>2, <1>4, <1>5, NextInputStutters, JudgeDecides
        DEF Next, ThreadStep, Done

\* KernelFilterGradVecs1 and 2 judge every position of every input once, with
\* tables built wholly from the octave of the input's seed, and append those
\* that pass, for any numbers of blocks, threads, inputs and positions.
THEOREM GradVecsImplementsFilter == BlockAssumption => (Spec => ImplementsFilter)
<1> SUFFICES ASSUME BlockAssumption PROVE Spec => ImplementsFilter
  OBVIOUS
<1>1. Init => Abstract!Init BY InitAbstract
<1>2. IInv /\ [Next]_vars => [Abstract!Next]_(Abstract!vars) BY NextAbstract
<1>3. Spec => []IInv BY BlockInvariant
<1> QED BY <1>1, <1>2, <1>3, PTL DEF Spec, ImplementsFilter, Abstract!Spec

-----------------------------------------------------------------------------
(***************************************************************************)
(* Where the positions lie: TileGrid, for every offset of the noise, every *)
(* column and every place of the world.                                    *)
(***************************************************************************)
CONSTANTS
  Offsets,    \* offsets of noise 0A
  Columns     \* columns of a period

VARIABLES
  large_biomes, unbound,  \* how the program was compiled
  xo,                     \* offset of the seed's noise 0A
  stage,                  \* last kernel the candidate passed
  place                   \* its position

Tiles == INSTANCE TileGrid WITH x <- place

\* The sizes, in units of large_biomes_pos_mul.
LEMMA TileSizes ==
  ASSUME large_biomes \in BOOLEAN, unbound \in BOOLEAN, xo \in Int
  PROVE  /\ Tiles!large_biomes_pos_mul \in {1, 4}
         /\ Tiles!large_biomes_pos_mul = 4 <=> large_biomes
         /\ Tiles!cell_size = 512 * Tiles!large_biomes_pos_mul
         /\ Tiles!cell_size_0A = 131072 * Tiles!large_biomes_pos_mul
         /\ Tiles!x_center = (1280 - xo) * Tiles!large_biomes_pos_mul
         /\ Tiles!Reach("filter_2a") = 960 * Tiles!large_biomes_pos_mul
         /\ Tiles!Reach("filter_2b") = 992 * Tiles!large_biomes_pos_mul
         /\ unbound => Tiles!grid_width = 331 /\ Tiles!grid_half = 165
         /\ ~unbound /\ large_biomes => Tiles!grid_width = 29 /\ Tiles!grid_half = 14
         /\ ~unbound /\ ~large_biomes => Tiles!grid_width = 115 /\ Tiles!grid_half = 57
<1>1. Tiles!Reach("filter_2a") = 960 * Tiles!large_biomes_pos_mul
  BY DEF Tiles!Reach, Tiles!large_biomes_pos_mul
<1>2. Tiles!Reach("filter_2b") = 992 * Tiles!large_biomes_pos_mul
  BY DEF Tiles!Reach, Tiles!large_biomes_pos_mul
<1>3. Tiles!x_center = (1280 - xo) * Tiles!large_biomes_pos_mul
  BY DEF Tiles!x_center, Tiles!cell_size, Tiles!large_biomes_pos_mul
<1>4. unbound => Tiles!grid_width = 331 /\ Tiles!grid_half = 165
  BY DEF Tiles!grid_width, Tiles!grid_half
<1>5. ~unbound /\ large_biomes => Tiles!grid_width = 29 /\ Tiles!grid_half = 14
  BY DEF Tiles!grid_width, Tiles!grid_half
<1>6. ~unbound /\ ~large_biomes => Tiles!grid_width = 115 /\ Tiles!grid_half = 57
  BY DEF Tiles!grid_width, Tiles!grid_half
<1> QED BY <1>1, <1>2, <1>3, <1>4, <1>5, <1>6
        DEF Tiles!large_biomes_pos_mul, Tiles!cell_size, Tiles!cell_size_0A

\* A candidate is no further from the middle than d, and a large-biomes one no
\* further than e.
Within(d, e) ==
  IF large_biomes THEN -e <= place /\ place <= e ELSE -d <= place /\ place <= d

\* How far from the middle a candidate of the bounded program can be.
TileInv ==
  /\ large_biomes \in BOOLEAN /\ unbound \in BOOLEAN
  /\ xo \in Nat /\ xo <= 131071 /\ place \in Int
  /\ ~unbound =>
       /\ stage = "filter_gradvecs_1" => Within(131840, 527360)
       /\ stage = "filter_gradvecs_2" => Within(7602944, 7867392)
       /\ stage = "filter_2a" => Within(7603904, 7871232)
       /\ stage = "filter_2b" => Within(7604896, 7875200)
       /\ stage = "pushed" => Within(30419584, 31500800)

\* Every kernel moves a candidate by no more than the invariant allows.
LEMMA TileStep ==
  ASSUME Tiles!GridAssumption, TileInv, [Tiles!Next]_(Tiles!vars)
  PROVE  TileInv'
<1> DEFINE mul == Tiles!large_biomes_pos_mul
<1>1. /\ large_biomes \in BOOLEAN /\ unbound \in BOOLEAN /\ xo \in Nat /\ xo <= 131071
      /\ place \in Int /\ xo \in Int
  BY SMT DEF TileInv
<1>2. UNCHANGED <<large_biomes, unbound, xo>>
  BY SMT DEF Tiles!Next, Tiles!vars, Tiles!GradVecs1, Tiles!GradVecs2, Tiles!MoveCenter,
         Tiles!Collect, Tiles!Done
<1>4. /\ mul = IF large_biomes THEN 4 ELSE 1
      /\ Tiles!cell_size = 512 * mul /\ Tiles!cell_size_0A = 131072 * mul
      /\ Tiles!x_center = (1280 - xo) * mul
      /\ Tiles!Reach("filter_2a") = 960 * mul /\ Tiles!Reach("filter_2b") = 992 * mul
      /\ ~unbound /\ large_biomes => Tiles!grid_width = 29 /\ Tiles!grid_half = 14
      /\ ~unbound /\ ~large_biomes => Tiles!grid_width = 115 /\ Tiles!grid_half = 57
      /\ Tiles!grid_half \in Int /\ Tiles!grid_width \in Int
  BY <1>1, TileSizes, SMT
<1> HIDE DEF mul
<1>5. ASSUME NEW c \in Columns, Tiles!GradVecs1(c) PROVE TileInv'
  <2>1. c \in 0..255 BY SMT DEF Tiles!GridAssumption
  <2>2. stage' = "filter_gradvecs_1" /\ place' = (1280 - xo) * mul + c * (512 * mul)
    BY <1>4, <1>5, SMT DEF Tiles!GradVecs1
  <2>3. place' \in Int /\ Within(131840, 527360)'
    BY <2>1, <2>2, <1>1, <1>2, <1>4, SMT DEF Within
  <2> QED BY <2>2, <2>3, <1>1, <1>2, SMT DEF TileInv
<1>6. ASSUME NEW tx \in 0..(Tiles!grid_width - 1), Tiles!GradVecs2(tx) PROVE TileInv'
  <2>1. /\ stage = "filter_gradvecs_1" /\ stage' = "filter_gradvecs_2"
        /\ place' = place + (tx - Tiles!grid_half) * (131072 * mul)
    BY <1>4, <1>6, SMT DEF Tiles!GradVecs2, Tiles!tile_dx
  <2>2. place' \in Int BY <2>1, <1>1, <1>4, SMT
  <2>3. ASSUME ~unbound PROVE Within(7602944, 7867392)'
    <3>1. Within(131840, 527360) BY <2>1, <2>3, SMT DEF TileInv
    <3>2. CASE large_biomes
      <4>1. mul = 4 /\ tx \in 0..28 /\ place' = place + (tx - 14) * 524288
        BY <3>2, <2>1, <2>3, <1>4, <1>6, SMT
      <4> QED BY <4>1, <3>1, <3>2, <1>1, <1>2, SMT DEF Within
    <3>3. CASE ~large_biomes
      <4>1. mul = 1 /\ tx \in 0..114 /\ place' = place + (tx - 57) * 131072
        BY <3>3, <2>1, <2>3, <1>4, <1>6, SMT
      <4> QED BY <4>1, <3>1, <3>3, <1>1, <1>2, SMT DEF Within
    <3> QED BY <3>2, <3>3
  <2> QED BY <2>1, <2>2, <2>3, <1>1, <1>2, SMT DEF TileInv
<1>7. ASSUME NEW k \in {"filter_2a", "filter_2b"},
             NEW d \in {-Tiles!Reach(k), 0, Tiles!Reach(k)}, Tiles!MoveCenter(k, d)
      PROVE  TileInv'
  <2>1. CASE k = "filter_2a"
    <3>1. /\ stage = "filter_gradvecs_2" /\ stage' = "filter_2a" /\ place' = place + d
          /\ d \in {-(960 * mul), 0, 960 * mul}
      BY <2>1, <1>4, <1>7, SMT DEF Tiles!MoveCenter
    <3>2. place' \in Int BY <3>1, <1>1, <1>4, SMT
    <3>3. ~unbound => Within(7602944, 7867392) BY <3>1, SMT DEF TileInv
    <3>4. ~unbound => Within(7603904, 7871232)'
      BY <3>1, <3>3, <1>1, <1>2, <1>4, SMT DEF Within
    <3> QED BY <3>1, <3>2, <3>4, <1>1, <1>2, SMT DEF TileInv
  <2>2. CASE k = "filter_2b"
    <3>1. /\ stage = "filter_2a" /\ stage' = "filter_2b" /\ place' = place + d
          /\ d \in {-(992 * mul), 0, 992 * mul}
      BY <2>2, <1>4, <1>7, SMT DEF Tiles!MoveCenter
    <3>2. place' \in Int BY <3>1, <1>1, <1>4, SMT
    <3>3. ~unbound => Within(7603904, 7871232) BY <3>1, SMT DEF TileInv
    <3>4. ~unbound => Within(7604896, 7875200)'
      BY <3>1, <3>3, <1>1, <1>2, <1>4, SMT DEF Within
    <3> QED BY <3>1, <3>2, <3>4, <1>1, <1>2, SMT DEF TileInv
  <2> QED BY <1>7, <2>1, <2>2, SMT
<1>8. CASE Tiles!Collect
  <2>1. stage = "filter_2b" /\ stage' = "pushed" /\ place' = place * 4
    BY <1>8, SMT DEF Tiles!Collect
  <2>2. place' \in Int BY <2>1, <1>1, SMT
  <2>3. ~unbound => Within(7604896, 7875200) BY <2>1, SMT DEF TileInv
  <2>4. ~unbound => Within(30419584, 31500800)'
    BY <2>1, <2>3, <1>1, <1>2, SMT DEF Within
  <2> QED BY <2>1, <2>2, <2>4, <1>1, <1>2, SMT DEF TileInv
<1>9. CASE UNCHANGED Tiles!vars
  BY <1>9, SMT DEF TileInv, Within, Tiles!vars
<1> QED BY <1>5, <1>6, <1>7, <1>8, <1>9, SMT DEF Tiles!Next, Tiles!Done

\* In the bounded program a candidate that is pushed lies at most Overshoot
\* blocks beyond the world border (419,584; with large biomes 1,500,800): for
\* every offset of the noise, every column and all moves of its centre in
\* filter_2a and filter_2b.  That some do lie beyond it is shown by a run.
THEOREM CandidatesNearBorder ==
  ASSUME Tiles!GridAssumption
  PROVE  Tiles!Spec => []Tiles!NearBorder
<1>1. Tiles!Init => TileInv
  BY SMT DEF Tiles!Init, TileInv, Tiles!GridAssumption
<1>2. TileInv /\ [Tiles!Next]_(Tiles!vars) => TileInv'
  BY TileStep
<1>3. TileInv => Tiles!NearBorder
  <2> SUFFICES ASSUME TileInv, stage = "pushed", ~unbound
               PROVE  Tiles!Abs(place) <= Tiles!WorldBorder + Tiles!Overshoot
    BY SMT DEF Tiles!NearBorder
  <2>1. /\ large_biomes \in BOOLEAN /\ unbound \in BOOLEAN /\ xo \in Int /\ place \in Int
    BY SMT DEF TileInv
  <2>2. Within(30419584, 31500800) BY SMT DEF TileInv
  <2>3. CASE large_biomes
    <3>1. Tiles!Overshoot = 1500800 BY <2>3 DEF Tiles!Overshoot
    <3>2. -31500800 <= place /\ place <= 31500800 BY <2>2, <2>3, SMT DEF Within
    <3> QED BY <3>1, <3>2, <2>1, SMT DEF Tiles!Abs, Tiles!WorldBorder
  <2>4. CASE ~large_biomes
    <3>1. Tiles!Overshoot = 419584 BY <2>4 DEF Tiles!Overshoot
    <3>2. -30419584 <= place /\ place <= 30419584 BY <2>2, <2>4, SMT DEF Within
    <3> QED BY <3>1, <3>2, <2>1, SMT DEF Tiles!Abs, Tiles!WorldBorder
  <2> QED BY <2>3, <2>4
<1> QED BY <1>1, <1>2, <1>3, PTL DEF Tiles!Spec

\* Division by a fixed number, and what is left.
LEMMA DivParts ==
  ASSUME NEW v \in Int
  PROVE  /\ v \div 131072 \in Int /\ v \div 524288 \in Int
         /\ 131072 * (v \div 131072) <= v /\ v < 131072 * (v \div 131072) + 131072
         /\ 524288 * (v \div 524288) <= v /\ v < 524288 * (v \div 524288) + 524288
  BY SMT

\* What is left of a period is one of its 256 columns.
LEMMA ColumnOf ==
  ASSUME NEW v \in Int, 0 <= v
  PROVE  /\ v < 131072 => v \div 512 \in 0..255
         /\ v < 524288 => v \div 2048 \in 0..255
  BY SMT

\* Between the outermost tiles every place has a column within half a cell of
\* it: the tile is found by dividing by the period.
LEMMA PlaceReached ==
  ASSUME TileInv, ~unbound, NEW w \in Int,
         Tiles!Abs(w) <= (Tiles!WorldBorder - Tiles!Unsearched) \div 4
  PROVE  Tiles!Reached(w)
<1>1. /\ large_biomes \in BOOLEAN /\ unbound \in BOOLEAN /\ xo \in Nat /\ xo <= 131071
      /\ xo \in Int
  BY SMT DEF TileInv
<1>2. CASE large_biomes
  <2>1. /\ Tiles!cell_size = 2048 /\ Tiles!cell_size_0A = 524288 /\ Tiles!Unsearched = 656256
        /\ Tiles!x_center = (1280 - xo) * 4
        /\ Tiles!grid_width = 29 /\ Tiles!grid_half = 14
    BY <1>1, <1>2, TileSizes, SMT DEF Tiles!Unsearched
  <2>2. -7335936 <= w /\ w <= 7335936 BY <2>1, SMT DEF Tiles!Abs, Tiles!WorldBorder
  <2> DEFINE v == w - (1280 - xo) * 4 + 1024
             q == v \div 524288
             tx == q + 14
  <2>3. v \in Int /\ -7340032 <= v /\ v <= 7856124 BY <2>2, <1>1, SMT
  <2>4. q \in Int /\ 524288 * q <= v /\ v < 524288 * q + 524288
    <3> HIDE DEF v
    <3> QED BY <2>3, DivParts, SMT DEF q
  <2> HIDE DEF q
  <2>5. tx \in 0..(Tiles!grid_width - 1) BY <2>1, <2>3, <2>4, SMT
  <2>6. w - Tiles!tile_dx(tx) - Tiles!x_center + (Tiles!cell_size \div 2) = v - 524288 * q
    BY <2>1, <2>4, <1>1, SMT DEF Tiles!tile_dx
  <2>7. (v - 524288 * q) \div 2048 \in 0..255
    <3> HIDE DEF v
    <3>1. v - 524288 * q \in Int /\ 0 <= v - 524288 * q /\ v - 524288 * q < 524288
      BY <2>3, <2>4, SMT
    <3> QED BY <3>1, ColumnOf, SMT
  <2>8. (w - Tiles!tile_dx(tx) - Tiles!x_center + (Tiles!cell_size \div 2))
          \div Tiles!cell_size \in 0..255
    <3> HIDE DEF v, tx
    <3> QED BY <2>1, <2>6, <2>7, SMT
  <2> HIDE DEF tx
  <2> QED BY <2>5, <2>8, SMT DEF Tiles!Reached
<1>3. CASE ~large_biomes
  <2>1. /\ Tiles!cell_size = 512 /\ Tiles!cell_size_0A = 131072 /\ Tiles!Unsearched = 119680
        /\ Tiles!x_center = 1280 - xo
        /\ Tiles!grid_width = 115 /\ Tiles!grid_half = 57
    BY <1>1, <1>3, TileSizes, SMT DEF Tiles!Unsearched
  <2>2. -7470080 <= w /\ w <= 7470080 BY <2>1, SMT DEF Tiles!Abs, Tiles!WorldBorder
  <2> DEFINE v == w - (1280 - xo) + 256
             q == v \div 131072
             tx == q + 57
  <2>3. v \in Int /\ -7471104 <= v /\ v <= 7600127 BY <2>2, <1>1, SMT
  <2>4. q \in Int /\ 131072 * q <= v /\ v < 131072 * q + 131072
    <3> HIDE DEF v
    <3> QED BY <2>3, DivParts, SMT DEF q
  <2> HIDE DEF q
  <2>5. tx \in 0..(Tiles!grid_width - 1) BY <2>1, <2>3, <2>4, SMT
  <2>6. w - Tiles!tile_dx(tx) - Tiles!x_center + (Tiles!cell_size \div 2) = v - 131072 * q
    BY <2>1, <2>4, <1>1, SMT DEF Tiles!tile_dx
  <2>7. (v - 131072 * q) \div 512 \in 0..255
    <3> HIDE DEF v
    <3>1. v - 131072 * q \in Int /\ 0 <= v - 131072 * q /\ v - 131072 * q < 131072
      BY <2>3, <2>4, SMT
    <3> QED BY <3>1, ColumnOf, SMT
  <2>8. (w - Tiles!tile_dx(tx) - Tiles!x_center + (Tiles!cell_size \div 2))
          \div Tiles!cell_size \in 0..255
    <3> HIDE DEF v, tx
    <3> QED BY <2>1, <2>6, <2>7, SMT
  <2> HIDE DEF tx
  <2> QED BY <2>5, <2>8, SMT DEF Tiles!Reached
<1> QED BY <1>2, <1>3, <1>1

\* Of the bounded program: every place further than Unsearched blocks from the
\* world border is covered, whatever the offset of the noise.
EveryPlaceReached ==
  ~unbound =>
    \A w \in Int : Tiles!Abs(w) <= (Tiles!WorldBorder - Tiles!Unsearched) \div 4 => Tiles!Reached(w)

\* The tiles KernelFilterGradVecs2 lays leave no gap, and all they leave out of
\* the world lies within Unsearched blocks of its border (119,680; with large
\* biomes 656,256): every place, not only those TLC looks at.
THEOREM WorldAlwaysCovered ==
  ASSUME Tiles!GridAssumption
  PROVE  Tiles!Spec => [](EveryPlaceReached /\ Tiles!InnerWorldCovered)
<1>1. Tiles!Init => TileInv
  BY SMT DEF Tiles!Init, TileInv, Tiles!GridAssumption
<1>2. TileInv /\ [Tiles!Next]_(Tiles!vars) => TileInv'
  BY TileStep
<1>3. TileInv => EveryPlaceReached
  BY PlaceReached DEF EveryPlaceReached
<1>4. TileInv /\ EveryPlaceReached => Tiles!InnerWorldCovered
  <2> DEFINE limit == (Tiles!WorldBorder - Tiles!Unsearched) \div 4
  <2> SUFFICES ASSUME TileInv, EveryPlaceReached, ~unbound, NEW w \in Tiles!Places(limit)
               PROVE  Tiles!Reached(w)
    BY DEF Tiles!InnerWorldCovered
  <2>1. large_biomes \in BOOLEAN /\ unbound \in BOOLEAN /\ xo \in Int BY SMT DEF TileInv
  <2>2. limit \in {7335936, 7470080}
    BY <2>1, TileSizes, SMT DEF Tiles!Unsearched, Tiles!WorldBorder
  <2> HIDE DEF limit
  <2>3. w \in Int /\ -limit <= w /\ w <= limit
    <3>1. CASE w = limit BY <3>1, <2>2, SMT
    <3>2. CASE w = -limit BY <3>2, <2>2, SMT
    <3>3. ASSUME NEW n \in -40..40, w = (limit \div 40) * n
          PROVE  w \in Int /\ -limit <= w /\ w <= limit
      <4>1. CASE limit = 7335936 BY <3>3, <4>1, SMT
      <4>2. CASE limit = 7470080 BY <3>3, <4>2, SMT
      <4> QED BY <2>2, <4>1, <4>2
    <3> QED BY <3>1, <3>2, <3>3, SMT DEF Tiles!Places
  <2>4. Tiles!Abs(w) <= limit BY <2>2, <2>3, SMT DEF Tiles!Abs
  <2> QED BY <2>3, <2>4 DEF EveryPlaceReached, limit
<1> QED BY <1>1, <1>2, <1>3, <1>4, PTL DEF Tiles!Spec

\* The tiles along one side in the unbounded program, and the phases.
TilePhases == 0..330

LEMMA InTilePhases ==
  ASSUME NEW t
  PROVE  t \in TilePhases <=> t \in Int /\ 0 <= t /\ t <= 330
  BY SMT DEF TilePhases

\* Phase of noise 0B that tile t of the unbounded program meets.
PhaseOf(t) == ((t - 165) * 337) % 331

\* A number leaves phase when it is a multiple of 331 above it.
LEMMA PhaseParts ==
  ASSUME NEW v \in Int, NEW phase \in Int, v % 331 = phase
  PROVE  \E k \in Int : v = 331 * k + phase
  BY SMT

\* What a tile leaves.
LEMMA PhaseOfParts ==
  ASSUME NEW t \in Int, NEW phase \in Int, PhaseOf(t) = phase
  PROVE  \E k \in Int : (t - 165) * 337 = 331 * k + phase
<1> DEFINE v == (t - 165) * 337
<1>1. v \in Int BY SMT
<1>2. v % 331 = phase BY DEF PhaseOf
<1> HIDE DEF v
<1>3. \E k \in Int : v = 331 * k + phase BY <1>1, <1>2, PhaseParts, SMT
<1> QED BY <1>3, SMT DEF v

\* 337 and 331 have no common divisor: no two tiles meet the same phase.
LEMMA PhasesApart ==
  ASSUME NEW phase \in TilePhases, NEW s \in TilePhases, NEW t \in TilePhases,
         PhaseOf(s) = phase, PhaseOf(t) = phase
  PROVE  s = t
<1>1. /\ s \in Int /\ 0 <= s /\ s <= 330 /\ phase \in Int
      /\ t \in Int /\ 0 <= t /\ t <= 330
  BY InTilePhases
<1>2. PICK k \in Int : (s - 165) * 337 = 331 * k + phase BY <1>1, PhaseOfParts, SMT
<1>3. PICK l \in Int : (t - 165) * 337 = 331 * l + phase BY <1>1, PhaseOfParts, SMT
<1> DEFINE e == k - l
           d == s - t
<1>4. e \in Int /\ d \in Int /\ 337 * d = 331 * e /\ -330 <= d /\ d <= 330
  BY <1>1, <1>2, <1>3, SMT
<1> HIDE DEF e, d
<1>5. d = 331 * (d - 55 * (e - d)) BY <1>4, SMT
<1>6. d = 0 BY <1>4, <1>5, SMT
<1> QED BY <1>1, <1>6, SMT DEF d

\* The tile of a phase: 276 is the inverse of 337 modulo 331.
LEMMA PhaseMet ==
  ASSUME NEW phase \in TilePhases
  PROVE  \E t \in TilePhases : PhaseOf(t) = phase
<1> DEFINE r == (phase * 276) % 331
           m == (phase * 276) \div 331
<1>1. phase \in Int /\ 0 <= phase /\ phase <= 330 BY InTilePhases
<1>2. r \in Int /\ 0 <= r /\ r <= 330 /\ m \in Int /\ phase * 276 = 331 * m + r
  BY <1>1, SMT
<1> HIDE DEF r, m
<1>3. (r * 337) % 331 = phase
  <2>1. r * 337 = phase + 331 * (281 * phase - 337 * m) BY <1>1, <1>2, SMT
  <2> DEFINE e == 281 * phase - 337 * m
  <2>2. e \in Int /\ r * 337 = phase + 331 * e BY <1>1, <1>2, <2>1, SMT
  <2> HIDE DEF e
  <2> QED BY <1>1, <2>2, SMT
<1>4. CASE r <= 165
  <2> DEFINE t == r + 165
  <2>1. t \in TilePhases BY <1>2, <1>4, InTilePhases, SMT
  <2>2. t - 165 = r BY <1>2, SMT
  <2> HIDE DEF t
  <2>3. PhaseOf(t) = phase BY <1>3, <2>2 DEF PhaseOf
  <2> QED BY <2>1, <2>3
<1>5. CASE r > 165
  <2>1. r - 166 \in TilePhases BY <1>2, <1>5, InTilePhases, SMT
  <2>2. ((r - 166 - 165) * 337) % 331 = (r * 337) % 331 BY <1>2, <1>5, SMT
  <2>3. PhaseOf(r - 166) = phase BY <1>3, <2>2, SMT DEF PhaseOf
  <2> QED BY <2>1, <2>3
<1> QED BY <1>2, <1>4, <1>5, SMT

\* The 331 tiles of the unbounded program meet each of the phases of noise 0B,
\* which is stretched by 337 / 331 against 0A, exactly once.
THEOREM PhasesMetOnce ==
  ASSUME Tiles!GridAssumption
  PROVE  Tiles!Spec => []Tiles!EveryPhaseOnce
<1>1. Tiles!EveryPhaseOnce
  <2>1. ASSUME unbound PROVE 0..(Tiles!grid_width - 1) = TilePhases /\ Tiles!grid_half = 165
    <3>1. Tiles!grid_width = 331 /\ Tiles!grid_half = 165
      BY <2>1, SMT DEF Tiles!grid_width, Tiles!grid_half
    <3>2. Tiles!grid_width - 1 = 330 BY <3>1, SMT
    <3> QED BY <3>1, <3>2 DEF TilePhases
  <2>2. ASSUME unbound, NEW phase \in TilePhases
        PROVE  \E tx \in 0..(Tiles!grid_width - 1) :
                 /\ ((tx - Tiles!grid_half) * 337) % 331 = phase
                 /\ \A other \in 0..(Tiles!grid_width - 1) :
                      ((other - Tiles!grid_half) * 337) % 331 = phase => other = tx
    <3>1. PICK t \in TilePhases : PhaseOf(t) = phase BY PhaseMet
    <3>2. ((t - Tiles!grid_half) * 337) % 331 = phase BY <2>1, <2>2, <3>1 DEF PhaseOf
    <3>3. ASSUME NEW other \in TilePhases, ((other - Tiles!grid_half) * 337) % 331 = phase
          PROVE  other = t
      <4>1. PhaseOf(other) = phase BY <2>1, <2>2, <3>3 DEF PhaseOf
      <4> QED BY <3>1, <4>1, PhasesApart
    <3>4. 0..(Tiles!grid_width - 1) = TilePhases BY <2>1, <2>2
    <3>5. t \in 0..(Tiles!grid_width - 1) BY <3>4
    <3>6. \A other \in 0..(Tiles!grid_width - 1) :
            ((other - Tiles!grid_half) * 337) % 331 = phase => other = t
      BY <3>3, <3>4, Zenon
    <3> WITNESS t \in 0..(Tiles!grid_width - 1)
    <3> QED BY <3>2, <3>6
  <2> QED BY <2>2 DEF Tiles!EveryPhaseOnce, TilePhases
<1> QED BY <1>1, PTL

-----------------------------------------------------------------------------
(***************************************************************************)
(* KernelFilter2_0A: WarpFilter, for any number of warps, any power of two *)
(* of lanes, any inputs and any samples.  The inputs stay what they are    *)
(* while the kernel runs; of KernelFilter2_0B, the same code working in    *)
(* place, that is true only while no input is overwritten before its warp  *)
(* is done with it.                                                        *)
(***************************************************************************)
CONSTANTS NumWarps, LaneCount, Shifts, Seeds, InputSeeds, LaneSamples, MinCount

VARIABLES low, oct, count

Warp == INSTANCE WarpFilter

\* The values of the lanes of v after n shuffles.
IsReduction(F, v) ==
  /\ F[0] = v
  /\ \A n \in 1..Len(Shifts) : F[n] = Warp!ShflDown(F[n - 1], Shifts[n])

AddedOf(F, v) ==
  [n \in 0..Len(Shifts) |-> IF n = 0 THEN v ELSE Warp!ShflDown(F[n - 1], Shifts[n])]

\* warp_reduce_add is a sequence of shuffles.
LEMMA ReductionExists ==
  ASSUME Warp!WarpAssumption, NEW v
  PROVE  \E F : F = AddedOf(F, v)
<1> DEFINE K == Len(Shifts)
           Chain(g, m) == /\ g = [n \in 0..m |-> g[n]] /\ g[0] = v
                          /\ \A n \in 1..m : g[n] = Warp!ShflDown(g[n - 1], Shifts[n])
           Good == {m \in 0..K : \E g : Chain(g, m)}
<1>0. K \in Nat BY DEF Warp!WarpAssumption
<1>1. 0 \in Good
  <2>1. \E g : Chain(g, 0)
    <3>1. Chain([k \in 0..0 |-> v], 0) OBVIOUS
    <3> HIDE DEF Chain
    <3> QED BY <3>1
  <2>2. 0 \in 0..K BY <1>0
  <2> HIDE DEF Chain
  <2> QED BY <2>1, <2>2
<1>2. ASSUME NEW m \in 0..K, m + 1 \in 0..K, m \in Good PROVE m + 1 \in Good
  <2>1. PICK g : Chain(g, m) BY <1>2
  <2>2. PICK last : last = Warp!ShflDown(g[m], Shifts[m + 1]) OBVIOUS
  <2> DEFINE h == [k \in 0..(m + 1) |-> IF k = m + 1 THEN last ELSE g[k]]
  <2>3. h = [n \in 0..(m + 1) |-> h[n]] OBVIOUS
  <2>4. h[0] = v BY <2>1, <1>0
  <2>5. ASSUME NEW n \in 1..(m + 1) PROVE h[n] = Warp!ShflDown(h[n - 1], Shifts[n])
    <3>1. n - 1 \in 0..m BY <2>5, <1>0
    <3>2. h[n - 1] = g[n - 1] BY <3>1
    <3>3. CASE n = m + 1
      <4>1. h[n] = last /\ n - 1 = m BY <3>3, <1>0
      <4> HIDE DEF h
      <4> QED BY <4>1, <3>2, <3>3, <2>2
    <3>4. CASE n # m + 1
      <4>1. n \in 1..m BY <3>4, <1>0
      <4>2. h[n] = g[n] BY <4>1
      <4> HIDE DEF h
      <4> QED BY <4>1, <4>2, <3>2, <2>1
    <3> QED BY <3>3, <3>4
  <2> HIDE DEF h
  <2>6. Chain(h, m + 1) BY <2>3, <2>4, <2>5
  <2> HIDE DEF Chain
  <2> QED BY <2>6, <1>2
<1>3. 0..K \subseteq Good
  <2> HIDE DEF Good
  <2> QED BY <1>0, <1>1, <1>2, UpTo
<1>4. K \in 0..K BY <1>0
<1>5. PICK F : Chain(F, K) BY <1>3, <1>4
<1>6. ASSUME NEW n \in 0..K
      PROVE  F[n] = IF n = 0 THEN v ELSE Warp!ShflDown(F[n - 1], Shifts[n])
  <2>1. n = 0 \/ n \in 1..K BY <1>0
  <2> QED BY <2>1, <1>5
<1>7. F = [n \in 0..K |-> IF n = 0 THEN v ELSE Warp!ShflDown(F[n - 1], Shifts[n])]
  BY <1>5, <1>6
<1> QED BY <1>7 DEF AddedOf

LEMMA ReduceIs ==
  ASSUME Warp!WarpAssumption, NEW v
  PROVE  \E F : IsReduction(F, v) /\ Warp!WarpReduceAdd(v) = F[Len(Shifts)]
<1>1. Warp!WarpReduceAdd(v) = (CHOOSE F : F = AddedOf(F, v))[Len(Shifts)]
  BY DEF Warp!WarpReduceAdd, Warp!ReduceShifts, AddedOf
<1>2. PICK F : F = (CHOOSE G : G = AddedOf(G, v)) OBVIOUS
<1>3. F = AddedOf(F, v) BY <1>2, ReductionExists
<1>4. Len(Shifts) \in Nat BY DEF Warp!WarpAssumption
<1>5. \A n \in 0..Len(Shifts) : F[n] = IF n = 0 THEN v ELSE Warp!ShflDown(F[n - 1], Shifts[n])
  BY <1>3 DEF AddedOf
<1>6. F[0] = v BY <1>4, <1>5
<1>7. ASSUME NEW n \in 1..Len(Shifts) PROVE F[n] = Warp!ShflDown(F[n - 1], Shifts[n])
  <2>1. n \in 0..Len(Shifts) /\ n # 0 BY <1>4
  <2> QED BY <2>1, <1>5
<1> QED BY <1>1, <1>2, <1>6, <1>7 DEF IsReduction

\* How many lanes' values a lane holds after n shuffles.
Width(n) == IF n = 0 THEN 1 ELSE 2 * Shifts[n]

LEMMA Widths ==
  ASSUME Warp!WarpAssumption
  PROVE  /\ Len(Shifts) \in Nat \ {0} /\ LaneCount \in Nat \ {0}
         /\ Width(0) = 1 /\ Width(Len(Shifts)) = LaneCount
         /\ \A n \in 0..Len(Shifts) : Width(n) \in Nat \ {0}
         /\ \A n \in 1..Len(Shifts) : Width(n - 1) = Shifts[n] /\ Width(n) = 2 * Width(n - 1)
<1>1. Len(Shifts) \in Nat \ {0} /\ LaneCount \in Nat \ {0} BY DEF Warp!WarpAssumption
<1>2. Width(0) = 1 /\ Width(Len(Shifts)) = LaneCount BY <1>1 DEF Width, Warp!WarpAssumption
<1>3. \A n \in 1..Len(Shifts) : Shifts[n] \in Nat \ {0} BY DEF Warp!WarpAssumption
<1>4. \A n \in 0..Len(Shifts) : Width(n) \in Nat \ {0} BY <1>1, <1>3 DEF Width
<1>5. ASSUME NEW n \in 1..Len(Shifts)
      PROVE  Width(n - 1) = Shifts[n] /\ Width(n) = 2 * Width(n - 1)
  <2>1. CASE n = 1 BY <2>1 DEF Width, Warp!WarpAssumption
  <2>2. CASE n # 1
    <3>1. PICK m \in 1..(Len(Shifts) - 1) : n = m + 1
      <4>1. n - 1 \in 1..(Len(Shifts) - 1) /\ n = (n - 1) + 1 BY <2>2, <1>1
      <4> QED BY <4>1
    <3>2. Shifts[m + 1] = 2 * Shifts[m] BY DEF Warp!WarpAssumption
    <3>3. n - 1 = m /\ m # 0 /\ n # 0 BY <3>1, <1>1
    <3> QED BY <3>1, <3>2, <3>3 DEF Width
  <2> QED BY <2>1, <2>2
<1> QED BY <1>1, <1>2, <1>4, <1>5

\* Every lane with d lanes from itself on has their sum.
SumsAhead(u, d, P) ==
  \A l \in Warp!Lanes : l + d <= LaneCount => u[l] = P[l + d] - P[l]

\* One shuffle: a lane far enough from the end gets the sum of twice as many.
LEMMA ShflStep ==
  ASSUME Warp!WarpAssumption, NEW M \in Nat, NEW u \in [Warp!Lanes -> 0..M], NEW d \in Nat \ {0},
         NEW P \in [0..LaneCount -> Int], SumsAhead(u, d, P)
  PROVE  /\ Warp!ShflDown(u, d) \in [Warp!Lanes -> 0..(2 * M)]
         /\ SumsAhead(Warp!ShflDown(u, d), 2 * d, P)
<1>0. LaneCount \in Nat \ {0} BY DEF Warp!WarpAssumption
<1>1. ASSUME NEW l \in Warp!Lanes
      PROVE  /\ u[l] + (IF l + d \in Warp!Lanes THEN u[l + d] ELSE u[l]) \in 0..(2 * M)
             /\ Warp!ShflDown(u, d)[l] = u[l] + (IF l + d \in Warp!Lanes THEN u[l + d] ELSE u[l])
  <2>1. Warp!ShflDown(u, d)[l] = u[l] + (IF l + d \in Warp!Lanes THEN u[l + d] ELSE u[l])
    BY DEF Warp!ShflDown
  <2>2. PICK x \in 0..M, y \in 0..M :
          x = u[l] /\ y = IF l + d \in Warp!Lanes THEN u[l + d] ELSE u[l]
    OBVIOUS
  <2>3. x + y \in 0..(2 * M) OBVIOUS
  <2> QED BY <2>1, <2>2, <2>3
<1>2. ASSUME NEW l \in Warp!Lanes, l + 2 * d <= LaneCount
      PROVE  Warp!ShflDown(u, d)[l] = P[l + 2 * d] - P[l]
  <2>1. l \in Nat /\ l + d \in Warp!Lanes /\ l + d <= LaneCount /\ (l + d) + d <= LaneCount
        /\ (l + d) + d = l + 2 * d
    BY <1>0, <1>2 DEF Warp!Lanes
  <2>2. u[l] = P[l + d] - P[l] BY <2>1 DEF SumsAhead
  <2>3. u[l + d] = P[l + 2 * d] - P[l + d] BY <2>1 DEF SumsAhead
  <2>4. P[l] \in Int /\ P[l + d] \in Int /\ P[l + 2 * d] \in Int
    <3>1. l \in 0..LaneCount /\ l + d \in 0..LaneCount /\ l + 2 * d \in 0..LaneCount
      BY <2>1, <1>0, <1>2 DEF Warp!Lanes
    <3> QED BY <3>1
  <2> QED BY <2>1, <2>2, <2>3, <2>4, <1>1
<1>3. Warp!ShflDown(u, d) \in [Warp!Lanes -> 0..(2 * M)]
  <2>1. Warp!ShflDown(u, d) =
          [l \in Warp!Lanes |-> u[l] + (IF l + d \in Warp!Lanes THEN u[l + d] ELSE u[l])]
    BY DEF Warp!ShflDown
  <2> QED BY <2>1, <1>1
<1> QED BY <1>2, <1>3 DEF SumsAhead

\* Lane 0 gets the sum of all lanes, and no lane more than all of them could
\* have.
LEMMA ReduceSums ==
  ASSUME Warp!WarpAssumption, NEW M \in Nat, NEW v \in [Warp!Lanes -> 0..M]
  PROVE  /\ Warp!WarpReduceAdd(v) \in [Warp!Lanes -> 0..(LaneCount * M)]
         /\ Warp!WarpReduceAdd(v)[0] = SumOf(v, LaneCount)
<1> DEFINE K == Len(Shifts)
           P == PrefixSum(v, LaneCount)
<1>1. /\ K \in Nat \ {0} /\ LaneCount \in Nat \ {0}
      /\ Width(0) = 1 /\ Width(K) = LaneCount
      /\ \A n \in 0..K : Width(n) \in Nat \ {0}
      /\ \A n \in 1..K : Width(n - 1) = Shifts[n] /\ Width(n) = 2 * Width(n - 1)
  BY Widths
<1>2. PICK F : IsReduction(F, v) /\ Warp!WarpReduceAdd(v) = F[K] BY ReduceIs
<1>3. v \in [0..(LaneCount - 1) -> Int]
  <2>1. 0..M \subseteq Int OBVIOUS
  <2> QED BY <2>1 DEF Warp!Lanes
<1>4. IsPrefixSum(P, v, LaneCount) BY <1>1, <1>3, SumExists
<1>5. /\ P \in [0..LaneCount -> Int] /\ P[0] = 0
      /\ \A n \in 1..LaneCount : P[n] = P[n - 1] + v[n - 1]
      /\ SumOf(v, LaneCount) = P[LaneCount]
  BY <1>4 DEF IsPrefixSum, SumOf
<1> HIDE DEF P
<1> DEFINE Holds(n) == /\ F[n] \in [Warp!Lanes -> 0..(Width(n) * M)]
                       /\ SumsAhead(F[n], Width(n), P)
           Good == {n \in 0..K : Holds(n)}
<1>6. 0 \in Good
  <2>1. F[0] = v /\ Width(0) = 1 BY <1>1, <1>2 DEF IsReduction
  <2>2. F[0] \in [Warp!Lanes -> 0..(Width(0) * M)]
    <3>1. 1 * M = M OBVIOUS
    <3> QED BY <2>1, <3>1
  <2>3. ASSUME NEW l \in Warp!Lanes PROVE F[0][l] = P[l + Width(0)] - P[l]
    <3>1. l + 1 \in 1..LaneCount /\ (l + 1) - 1 = l /\ l \in 0..LaneCount
          /\ l + 1 \in 0..LaneCount
      BY <1>1 DEF Warp!Lanes
    <3>2. P[l + 1] = P[l] + v[l] BY <3>1, <1>5
    <3>3. P[l] \in Int /\ v[l] \in Int BY <3>1, <1>5
    <3> QED BY <3>2, <3>3, <2>1
  <2>4. 0 \in 0..K BY <1>1
  <2> QED BY <2>2, <2>3, <2>4 DEF SumsAhead
<1>7. ASSUME NEW m \in 0..K, m + 1 \in 0..K, m \in Good PROVE m + 1 \in Good
  <2>1. PICK n \in 1..K : n = m + 1 /\ n - 1 = m
    <3>1. m + 1 \in 1..K /\ (m + 1) - 1 = m BY <1>1, <1>7
    <3> QED BY <3>1
  <2>2. PICK d \in Nat \ {0}, D \in Nat : d = Width(m) /\ D = d * M
    <3>1. Width(m) \in Nat \ {0} BY <1>1
    <3>2. \A a \in Nat : a * M \in Nat OBVIOUS
    <3> QED BY <3>1, <3>2
  <2>3. F[m] \in [Warp!Lanes -> 0..D] /\ SumsAhead(F[m], d, P) BY <1>7, <2>2
  <2>4. F[n] = Warp!ShflDown(F[m], d) /\ Width(n) = 2 * d
    BY <1>1, <1>2, <2>1, <2>2 DEF IsReduction
  <2>5. /\ Warp!ShflDown(F[m], d) \in [Warp!Lanes -> 0..(2 * D)]
        /\ SumsAhead(Warp!ShflDown(F[m], d), 2 * d, P)
    <3>1. P \in [0..LaneCount -> Int] BY <1>5
    <3> QED BY <2>3, <3>1, ShflStep
  <2>6. (2 * d) * M = 2 * D
    <3>1. (2 * d) * M = 2 * (d * M) OBVIOUS
    <3> QED BY <3>1, <2>2
  <2>7. Holds(n) BY <2>4, <2>5, <2>6
  <2> HIDE DEF Holds
  <2> QED BY <2>1, <2>7
<1>8. K \in Good
  <2>1. 0..K \subseteq Good
    <3> HIDE DEF Good
    <3> QED BY <1>1, <1>6, <1>7, UpTo
  <2>2. K \in 0..K BY <1>1
  <2> QED BY <2>1, <2>2
<1>9. F[K][0] = P[LaneCount]
  <2>1. 0 \in Warp!Lanes /\ 0 + LaneCount <= LaneCount /\ 0 + LaneCount = LaneCount BY <1>1 DEF Warp!Lanes
  <2>2. F[K][0] = P[0 + Width(K)] - P[0]
    <3>1. SumsAhead(F[K], Width(K), P) BY <1>8
    <3> QED BY <3>1, <1>1, <2>1 DEF SumsAhead
  <2>3. P[LaneCount] \in Int
    <3>1. LaneCount \in 0..LaneCount BY <1>1
    <3> QED BY <3>1, <1>5
  <2> QED BY <1>1, <1>5, <2>1, <2>2, <2>3
<1>10. F[K] \in [Warp!Lanes -> 0..(LaneCount * M)] BY <1>1, <1>8
<1> QED BY <1>2, <1>5, <1>9, <1>10

\* The phases of a lane, and the seeds shared memory can hold.
LanePCs ==
  {"loop", "load", "sync_load", "sample", "reduce", "emit", "sync_end", "next", "exit"}
Octaves == Seeds \cup {Warp!NoSeed}

\* The parts of the loop between the places where the lanes meet.
Gathering == {"next", "loop", "load", "sync_load", "exit"}
Sampling == {"sample", "reduce"}
Emitting == {"emit", "sync_end"}

\* A lane's input, or its next one once it has gone on.
LaneNext(w, l) ==
  IF pc[w][l] = "next" THEN input_index[w][l] + NumWarps ELSE input_index[w][l]

\* The lanes of a warp are in the same part of the loop with the same input;
\* the first part lets a lane load the octaves of its input while others have
\* not ended the one before.
LanesTogether(w) ==
  /\ \A k, l \in Warp!Lanes : LaneNext(w, k) = LaneNext(w, l)
  /\ \/ \A l \in Warp!Lanes : pc[w][l] \in Gathering
     \/ \A l \in Warp!Lanes : pc[w][l] \in Sampling
     \/ \A l \in Warp!Lanes : pc[w][l] \in Emitting

\* The inputs of a warp, and when a lane works on one.
LaneOwn(w, l) ==
  /\ input_index[w][l] % NumWarps = w
  /\ pc[w][l] \notin {"loop", "exit"} => input_index[w][l] < Len(InputSeeds)

\* What a lane has done is in shared memory, and what it samples is all of the
\* octaves of its own input.
LaneEvidence(w, l) ==
  LET i == input_index[w][l]
  IN  /\ pc[w][l] = "sync_load" => oct[w][l] = Warp!seed_index(i)
      /\ pc[w][l] \in Sampling => \A part \in Warp!Lanes : oct[w][part] = Warp!seed_index(i)
      /\ pc[w][l] = "reduce" => count[w][l] = low[i][l]
      /\ pc[w][l] = "emit" /\ l = 0 => count[w][l] = SumOf(low[i], LaneCount)

WarpInv ==
  /\ Warp!TypeOK
  /\ \A w \in Warp!Warps : LanesTogether(w)
  /\ \A w \in Warp!Warps, l \in Warp!Lanes : LaneOwn(w, l) /\ LaneEvidence(w, l)

LEMMA LaneFacts ==
  ASSUME Warp!WarpAssumption
  PROVE  /\ NumWarps \in Nat \ {0} /\ LaneCount \in Nat \ {0} /\ LaneSamples \in Nat
         /\ Len(InputSeeds) \in Nat /\ 0 \in Warp!Lanes
         /\ \A i \in Warp!Inputs : i \in Nat /\ i < Len(InputSeeds) /\ i % NumWarps \in Warp!Warps
         /\ \A i \in Nat : i < Len(InputSeeds) => i \in Warp!Inputs
         /\ \A i \in Warp!Inputs : Warp!seed_index(i) \in Octaves
<1>1. /\ NumWarps \in Nat \ {0} /\ LaneCount \in Nat \ {0} /\ LaneSamples \in Nat
      /\ Len(InputSeeds) \in Nat /\ InputSeeds \in Seq(Seeds)
  BY DEF Warp!WarpAssumption
<1>2. 0 \in Warp!Lanes BY <1>1 DEF Warp!Lanes
<1>3. ASSUME NEW i \in Warp!Inputs
      PROVE  /\ i \in Nat /\ i < Len(InputSeeds)
             /\ i % NumWarps \in Warp!Warps /\ Warp!seed_index(i) \in Octaves
  <2>1. i \in Nat /\ i < Len(InputSeeds) /\ i + 1 \in 1..Len(InputSeeds) BY <1>1 DEF Warp!Inputs
  <2>2. i % NumWarps \in Warp!Warps BY <1>1, <2>1, SameRemainder DEF Warp!Warps
  <2>3. InputSeeds[i + 1] \in Seeds BY <1>1, <2>1
  <2> QED BY <2>1, <2>2, <2>3 DEF Warp!seed_index, Octaves
<1>4. \A i \in Nat : i < Len(InputSeeds) => i \in Warp!Inputs BY <1>1 DEF Warp!Inputs
<1> QED BY <1>1, <1>2, <1>3, <1>4

\* A warp is not disturbed by the others.
LEMMA OtherWarp ==
  ASSUME WarpInv, NEW w \in Warp!Warps, low' = low, pc'[w] = pc[w],
         input_index'[w] = input_index[w], oct'[w] = oct[w], count'[w] = count[w]
  PROVE  LanesTogether(w)' /\ \A l \in Warp!Lanes : LaneOwn(w, l)' /\ LaneEvidence(w, l)'
<1>1. LanesTogether(w)'
  <2>1. LanesTogether(w) BY DEF WarpInv
  <2>2. \A l \in Warp!Lanes : LaneNext(w, l)' = LaneNext(w, l) BY DEF LaneNext
  <2> QED BY <2>1, <2>2 DEF LanesTogether
<1>2. ASSUME NEW l \in Warp!Lanes PROVE LaneOwn(w, l)' /\ LaneEvidence(w, l)'
  <2>1. LaneOwn(w, l) /\ LaneEvidence(w, l) BY DEF WarpInv
  <2>2. LaneOwn(w, l)' BY <2>1 DEF LaneOwn
  <2>3. LaneEvidence(w, l)' BY <2>1 DEF LaneEvidence, Warp!seed_index
  <2> QED BY <2>2, <2>3
<1> QED BY <1>1, <1>2

\* A lane goes on within its part of the loop.
LEMMA OneLane ==
  ASSUME Warp!WarpAssumption, WarpInv, NEW w \in Warp!Warps, NEW l \in Warp!Lanes, NEW x,
         Warp!Goto(w, l, x),
         \/ pc[w][l] \in Gathering /\ x \in Gathering
         \/ pc[w][l] \in Sampling /\ x \in Sampling
         \/ pc[w][l] \in Emitting /\ x \in Emitting,
         Warp!TypeOK', low' = low,
         \A v \in Warp!Warps \ {w} :
           /\ input_index'[v] = input_index[v]
           /\ oct'[v] = oct[v] /\ count'[v] = count[v],
         \A k \in Warp!Lanes \ {l} :
           /\ input_index'[w][k] = input_index[w][k]
           /\ oct'[w][k] = oct[w][k] /\ count'[w][k] = count[w][k],
         oct' = oct \/ pc[w][l] = "load",
         LaneNext(w, l)' = LaneNext(w, l), LaneOwn(w, l)', LaneEvidence(w, l)'
  PROVE  WarpInv'
<1>1. Warp!TypeOK /\ LanesTogether(w) BY DEF WarpInv
<1>2. /\ pc'[w][l] = x /\ \A k \in Warp!Lanes \ {l} : pc'[w][k] = pc[w][k]
      /\ \A v \in Warp!Warps \ {w} : pc'[v] = pc[v]
  BY <1>1 DEF Warp!Goto, Warp!TypeOK
<1>3. LanesTogether(w)'
  <2>1. \A k \in Warp!Lanes : LaneNext(w, k)' = LaneNext(w, k)
    <3>1. \A k \in Warp!Lanes \ {l} : LaneNext(w, k)' = LaneNext(w, k) BY <1>2 DEF LaneNext
    <3> QED BY <3>1
  <2>2. \A j, k \in Warp!Lanes : LaneNext(w, j)' = LaneNext(w, k)' BY <2>1, <1>1 DEF LanesTogether
  <2>3. \/ \A k \in Warp!Lanes : pc'[w][k] \in Gathering
        \/ \A k \in Warp!Lanes : pc'[w][k] \in Sampling
        \/ \A k \in Warp!Lanes : pc'[w][k] \in Emitting
    <3>1. CASE pc[w][l] \in Gathering /\ x \in Gathering
      <4>1. \A k \in Warp!Lanes : pc[w][k] \in Gathering
        BY <3>1, <1>1 DEF LanesTogether, Gathering, Sampling, Emitting
      <4> QED BY <4>1, <3>1, <1>2
    <3>2. CASE pc[w][l] \in Sampling /\ x \in Sampling
      <4>1. \A k \in Warp!Lanes : pc[w][k] \in Sampling
        BY <3>2, <1>1 DEF LanesTogether, Gathering, Sampling, Emitting
      <4> QED BY <4>1, <3>2, <1>2
    <3>3. CASE pc[w][l] \in Emitting /\ x \in Emitting
      <4>1. \A k \in Warp!Lanes : pc[w][k] \in Emitting
        BY <3>3, <1>1 DEF LanesTogether, Gathering, Sampling, Emitting
      <4> QED BY <4>1, <3>3, <1>2
    <3> QED BY <3>1, <3>2, <3>3
  <2> QED BY <2>2, <2>3 DEF LanesTogether, Gathering, Sampling, Emitting
<1>4. ASSUME NEW k \in Warp!Lanes PROVE LaneOwn(w, k)' /\ LaneEvidence(w, k)'
  <2>1. CASE k = l BY <2>1
  <2>2. CASE k # l
    <3>1. LaneOwn(w, k) /\ LaneEvidence(w, k) BY DEF WarpInv
    <3>2. LaneOwn(w, k)' BY <3>1, <2>2, <1>2 DEF LaneOwn
    <3>3. /\ pc'[w][k] = pc[w][k] /\ input_index'[w][k] = input_index[w][k]
          /\ oct'[w][k] = oct[w][k] /\ count'[w][k] = count[w][k]
      BY <2>2, <1>2
    <3>4. pc[w][k] \in Sampling => oct' = oct
      BY <1>1 DEF LanesTogether, Gathering, Sampling, Emitting
    <3>5. LaneEvidence(w, k)' BY <3>1, <3>3, <3>4 DEF LaneEvidence, Warp!seed_index, Sampling
    <3> QED BY <3>2, <3>5
  <2> QED BY <2>1, <2>2
<1>5. ASSUME NEW v \in Warp!Warps \ {w}
      PROVE  LanesTogether(v)' /\ \A k \in Warp!Lanes : LaneOwn(v, k)' /\ LaneEvidence(v, k)'
  BY <1>2, OtherWarp
<1>6. ASSUME NEW v \in Warp!Warps PROVE LanesTogether(v)' BY <1>3, <1>5
<1>7. ASSUME NEW v \in Warp!Warps, NEW k \in Warp!Lanes PROVE LaneOwn(v, k)' /\ LaneEvidence(v, k)'
  BY <1>4, <1>5
<1> QED BY <1>6, <1>7 DEF WarpInv

\* At the start every lane has the number of its warp.
LEMMA InitWarpInv == ASSUME Warp!WarpAssumption, Warp!Init PROVE WarpInv
<1>0. /\ NumWarps \in Nat \ {0} /\ LaneCount \in Nat \ {0} /\ LaneSamples \in Nat
      /\ \A w \in Warp!Warps : w \in Nat /\ w < NumWarps
  BY LaneFacts DEF Warp!Warps
<1>1. Warp!TypeOK
  <2>1. low \in [Warp!Inputs -> [Warp!Lanes -> 0..LaneSamples]] BY DEF Warp!Init
  <2>2. pc \in [Warp!Warps -> [Warp!Lanes -> LanePCs]] BY DEF Warp!Init, LanePCs
  <2>3. input_index \in [Warp!Warps -> [Warp!Lanes -> Nat]] BY <1>0 DEF Warp!Init
  <2>4. oct \in [Warp!Warps -> [Warp!Lanes -> Octaves]] BY DEF Warp!Init, Octaves
  <2>5. count \in [Warp!Warps -> [Warp!Lanes -> 0..(LaneCount * LaneSamples)]]
    <3>1. 0 \in 0..(LaneCount * LaneSamples)
      <4>1. LaneCount * LaneSamples \in Nat BY <1>0
      <4> QED BY <4>1
    <3> QED BY <3>1 DEF Warp!Init
  <2>6. outputs_len \in Nat /\ outputs \in Seq(Warp!Inputs) BY DEF Warp!Init
  <2> QED BY <2>1, <2>2, <2>3, <2>4, <2>5, <2>6 DEF Warp!TypeOK, LanePCs, Octaves
<1>2. ASSUME NEW w \in Warp!Warps PROVE LanesTogether(w)
  BY DEF Warp!Init, LanesTogether, LaneNext, Gathering
<1>3. ASSUME NEW w \in Warp!Warps, NEW l \in Warp!Lanes PROVE LaneOwn(w, l) /\ LaneEvidence(w, l)
  <2>1. pc[w][l] = "loop" /\ input_index[w][l] = w BY DEF Warp!Init
  <2>2. w % NumWarps = w BY <1>0, SameRemainder
  <2> QED BY <2>1, <2>2 DEF LaneOwn, LaneEvidence, Sampling
<1> QED BY <1>1, <1>2, <1>3 DEF WarpInv

\* The types of a step in which one lane goes on.
LEMMA LaneTypes ==
  ASSUME Warp!TypeOK, NEW w \in Warp!Warps, NEW l \in Warp!Lanes, NEW x \in LanePCs, Warp!Goto(w, l, x),
         low' = low, input_index' \in [Warp!Warps -> [Warp!Lanes -> Nat]],
         oct' \in [Warp!Warps -> [Warp!Lanes -> Octaves]],
         count' \in [Warp!Warps -> [Warp!Lanes -> 0..(LaneCount * LaneSamples)]],
         outputs_len' \in Nat, outputs' \in Seq(Warp!Inputs)
  PROVE  Warp!TypeOK' /\ pc'[w][l] = x
<1>1. pc \in [Warp!Warps -> [Warp!Lanes -> LanePCs]] BY DEF Warp!TypeOK, LanePCs
<1>2. pc' \in [Warp!Warps -> [Warp!Lanes -> LanePCs]] /\ pc'[w][l] = x BY <1>1, UpdateCell DEF Warp!Goto
<1> QED BY <1>2 DEF Warp!TypeOK, LanePCs, Octaves

\* The loop condition sends all lanes of a warp the same way.
LEMMA LoopWarp ==
  ASSUME Warp!WarpAssumption, WarpInv, NEW w \in Warp!Warps, NEW l \in Warp!Lanes, Warp!Loop(w, l)
  PROVE  WarpInv'
<1>1. Warp!TypeOK /\ LaneOwn(w, l) BY DEF WarpInv
<1>2. PICK x \in {"load", "exit"} :
        /\ x = "load" => input_index[w][l] < Len(InputSeeds)
        /\ pc[w][l] = "loop" /\ Warp!Goto(w, l, x)
        /\ UNCHANGED <<low, input_index, oct, count, Warp!outs>>
  BY DEF Warp!Loop
<1>3. Warp!TypeOK' /\ pc'[w][l] = x
  <2>1. x \in LanePCs BY DEF LanePCs
  <2> QED BY <2>1, <1>1, <1>2, LaneTypes DEF Warp!TypeOK, Warp!outs, Octaves
<1>4. LaneOwn(w, l)' BY <1>1, <1>2, <1>3 DEF LaneOwn
<1>5. LaneEvidence(w, l)' BY <1>2, <1>3 DEF LaneEvidence, Sampling
<1>6. LaneNext(w, l)' = LaneNext(w, l) BY <1>2, <1>3 DEF LaneNext
<1>7. pc[w][l] \in Gathering /\ x \in Gathering BY <1>2 DEF Gathering
<1> QED BY <1>2, <1>3, <1>4, <1>5, <1>6, <1>7, OneLane

\* A lane loads its part of the octaves of its input.
LEMMA LoadWarp ==
  ASSUME Warp!WarpAssumption, WarpInv, NEW w \in Warp!Warps, NEW l \in Warp!Lanes, Warp!Load(w, l)
  PROVE  WarpInv'
<1>1. Warp!TypeOK /\ LaneOwn(w, l) BY DEF WarpInv
<1>2. PICK i : i = input_index[w][l] OBVIOUS
<1>3. /\ pc[w][l] = "load" /\ Warp!Goto(w, l, "sync_load")
      /\ oct' = [oct EXCEPT ![w][l] = Warp!seed_index(i)]
      /\ UNCHANGED <<low, input_index, count, Warp!outs>>
  BY <1>2 DEF Warp!Load, Warp!AfterLoad
<1>4. i \in Warp!Inputs /\ Warp!seed_index(i) \in Octaves
  <2>1. i \in Nat /\ i < Len(InputSeeds) BY <1>1, <1>2, <1>3 DEF LaneOwn, Warp!TypeOK
  <2> QED BY <2>1, LaneFacts
<1>5. /\ oct' \in [Warp!Warps -> [Warp!Lanes -> Octaves]] /\ oct'[w][l] = Warp!seed_index(i)
      /\ \A k \in Warp!Lanes \ {l} : oct'[w][k] = oct[w][k]
      /\ \A v \in Warp!Warps \ {w} : oct'[v] = oct[v]
  <2>1. oct \in [Warp!Warps -> [Warp!Lanes -> Octaves]] BY <1>1 DEF Warp!TypeOK, Octaves
  <2>2. PICK s \in Octaves : s = Warp!seed_index(i) BY <1>4
  <2>3. oct' = [oct EXCEPT ![w][l] = s] BY <2>2, <1>3
  <2> QED BY <2>1, <2>2, <2>3, UpdateCell
<1>6. Warp!TypeOK' /\ pc'[w][l] = "sync_load"
  <2>1. "sync_load" \in LanePCs BY DEF LanePCs
  <2>2. /\ low' = low /\ input_index' \in [Warp!Warps -> [Warp!Lanes -> Nat]]
        /\ count' \in [Warp!Warps -> [Warp!Lanes -> 0..(LaneCount * LaneSamples)]]
        /\ outputs_len' \in Nat /\ outputs' \in Seq(Warp!Inputs)
    BY <1>1, <1>3 DEF Warp!TypeOK, Warp!outs
  <2>3. Warp!TypeOK /\ Warp!Goto(w, l, "sync_load") /\ oct' \in [Warp!Warps -> [Warp!Lanes -> Octaves]]
    BY <1>1, <1>3, <1>5
  <2> QED BY <2>1, <2>2, <2>3, LaneTypes
<1>7. LaneOwn(w, l)' BY <1>1, <1>3, <1>6 DEF LaneOwn
<1>8. LaneEvidence(w, l)' BY <1>2, <1>3, <1>5, <1>6 DEF LaneEvidence, Sampling, Warp!seed_index
<1>9. LaneNext(w, l)' = LaneNext(w, l) BY <1>3, <1>6 DEF LaneNext
<1>10. pc[w][l] \in Gathering /\ "sync_load" \in Gathering BY <1>3 DEF Gathering
<1> QED BY <1>3, <1>5, <1>6, <1>7, <1>8, <1>9, <1>10, OneLane

\* A lane samples its own input's octaves: its count is its low samples.
LEMMA SampleWarp ==
  ASSUME Warp!WarpAssumption, WarpInv, NEW w \in Warp!Warps, NEW l \in Warp!Lanes, Warp!Sample(w, l)
  PROVE  WarpInv'
<1>1. Warp!TypeOK /\ LaneOwn(w, l) /\ LaneEvidence(w, l) BY DEF WarpInv
<1>2. PICK i : i = input_index[w][l] OBVIOUS
<1>3. /\ pc[w][l] = "sample" /\ Warp!Goto(w, l, "reduce")
      /\ \E c \in IF \A part \in Warp!Lanes : oct[w][part] = Warp!seed_index(i)
                    THEN {low[i][l]} ELSE 0..LaneSamples :
           count' = [count EXCEPT ![w][l] = c]
      /\ UNCHANGED <<low, input_index, oct, Warp!outs>>
  BY <1>2 DEF Warp!Sample
<1>4. i \in Warp!Inputs
  <2>1. i \in Nat /\ i < Len(InputSeeds) BY <1>1, <1>2, <1>3 DEF LaneOwn, Warp!TypeOK
  <2> QED BY <2>1, LaneFacts
<1>5. \A part \in Warp!Lanes : oct[w][part] = Warp!seed_index(i)
  BY <1>1, <1>2, <1>3 DEF LaneEvidence, Sampling
<1>6. PICK c \in 0..(LaneCount * LaneSamples) :
        c = low[i][l] /\ count' = [count EXCEPT ![w][l] = c]
  <2>1. low[i][l] \in 0..LaneSamples BY <1>1, <1>4 DEF Warp!TypeOK
  <2>2. 0..LaneSamples \subseteq 0..(LaneCount * LaneSamples)
    <3>1. PICK n \in Nat \ {0}, m \in Nat : n = LaneCount /\ m = LaneSamples BY LaneFacts
    <3>2. n * m >= m
      <4>1. \/ n = 1
            \/ 1 < n
        OBVIOUS
      <4>2. n * m = (n - 1) * m + m OBVIOUS
      <4>3. (n - 1) * m \in Nat
        <5>1. n - 1 \in Nat OBVIOUS
        <5> QED BY <5>1
      <4> QED BY <4>2, <4>3
    <3>3. n * m \in Nat OBVIOUS
    <3> QED BY <3>1, <3>2, <3>3
  <2> QED BY <2>1, <2>2, <1>3, <1>5
<1>7. /\ count' \in [Warp!Warps -> [Warp!Lanes -> 0..(LaneCount * LaneSamples)]] /\ count'[w][l] = c
      /\ \A k \in Warp!Lanes \ {l} : count'[w][k] = count[w][k]
      /\ \A v \in Warp!Warps \ {w} : count'[v] = count[v]
  <2>1. count \in [Warp!Warps -> [Warp!Lanes -> 0..(LaneCount * LaneSamples)]] BY <1>1 DEF Warp!TypeOK
  <2>2. PICK S : S = 0..(LaneCount * LaneSamples) OBVIOUS
  <2>3. count \in [Warp!Warps -> [Warp!Lanes -> S]] /\ c \in S BY <2>1, <2>2
  <2> QED BY <2>2, <2>3, <1>6, UpdateCell
<1>8. Warp!TypeOK' /\ pc'[w][l] = "reduce"
  <2>1. "reduce" \in LanePCs BY DEF LanePCs
  <2>2. /\ input_index' \in [Warp!Warps -> [Warp!Lanes -> Nat]]
        /\ oct' \in [Warp!Warps -> [Warp!Lanes -> Octaves]]
        /\ outputs_len' \in Nat /\ outputs' \in Seq(Warp!Inputs)
    BY <1>1, <1>3 DEF Warp!TypeOK, Warp!outs, Octaves
  <2>3. Warp!Goto(w, l, "reduce") /\ low' = low BY <1>3
  <2>4. count' \in [Warp!Warps -> [Warp!Lanes -> 0..(LaneCount * LaneSamples)]] BY <1>7
  <2>5. PICK x \in LanePCs : x = "reduce" BY <2>1
  <2> QED BY <2>2, <2>3, <2>4, <2>5, <1>1, LaneTypes
<1>9. LaneOwn(w, l)' BY <1>1, <1>3, <1>8 DEF LaneOwn
<1>10. LaneEvidence(w, l)'
  BY <1>2, <1>3, <1>5, <1>6, <1>7, <1>8 DEF LaneEvidence, Sampling, Warp!seed_index
<1>11. LaneNext(w, l)' = LaneNext(w, l) BY <1>3, <1>8 DEF LaneNext
<1>12. pc[w][l] \in Sampling /\ "reduce" \in Sampling BY <1>3 DEF Sampling
<1> QED BY <1>3, <1>7, <1>8, <1>9, <1>10, <1>11, <1>12, OneLane

\* What lane 0 emits is its input, if the warp counted enough.
LEMMA EmitsOwn ==
  ASSUME Warp!WarpAssumption, WarpInv, NEW w \in Warp!Warps, NEW l \in Warp!Lanes, Warp!Emit(w, l)
  PROVE  \E i \in Warp!Inputs :
           /\ i = input_index[w][l] /\ i % NumWarps = w
           /\ pc[w][l] = "emit" /\ Warp!Goto(w, l, "sync_end")
           /\ UNCHANGED <<low, input_index, oct, count>>
           /\ IF l = 0 /\ SumOf(low[i], LaneCount) >= MinCount
                THEN /\ outputs_len' = outputs_len + 1
                     /\ outputs' = IF outputs_len < MaxLen THEN Append(outputs, i) ELSE outputs
                ELSE UNCHANGED Warp!outs
<1>1. Warp!TypeOK /\ LaneOwn(w, l) /\ LaneEvidence(w, l) BY DEF WarpInv
<1>2. PICK i : i = input_index[w][l] OBVIOUS
<1>3. /\ pc[w][l] = "emit" /\ Warp!Goto(w, l, "sync_end")
      /\ UNCHANGED <<low, input_index, oct, count>>
      /\ IF l = 0 /\ count[w][l] >= MinCount
           THEN /\ outputs_len' = outputs_len + 1
                /\ outputs' = IF outputs_len < MaxLen THEN Append(outputs, i) ELSE outputs
           ELSE UNCHANGED Warp!outs
  BY <1>2 DEF Warp!Emit
<1>4. i \in Warp!Inputs
  <2>1. i \in Nat /\ i < Len(InputSeeds) BY <1>1, <1>2, <1>3 DEF LaneOwn, Warp!TypeOK
  <2> QED BY <2>1, LaneFacts
<1>5. i % NumWarps = w BY <1>1, <1>2 DEF LaneOwn
<1>6. l = 0 => count[w][l] = SumOf(low[i], LaneCount) BY <1>1, <1>2, <1>3 DEF LaneEvidence
<1> QED BY <1>2, <1>3, <1>4, <1>5, <1>6

LEMMA EmitWarp ==
  ASSUME Warp!WarpAssumption, WarpInv, NEW w \in Warp!Warps, NEW l \in Warp!Lanes, Warp!Emit(w, l)
  PROVE  WarpInv'
<1>1. Warp!TypeOK /\ LaneOwn(w, l) BY DEF WarpInv
<1>2. PICK i \in Warp!Inputs :
        /\ pc[w][l] = "emit" /\ Warp!Goto(w, l, "sync_end")
        /\ UNCHANGED <<low, input_index, oct, count>>
        /\ IF l = 0 /\ SumOf(low[i], LaneCount) >= MinCount
             THEN /\ outputs_len' = outputs_len + 1
                  /\ outputs' = IF outputs_len < MaxLen THEN Append(outputs, i) ELSE outputs
             ELSE UNCHANGED Warp!outs
  BY EmitsOwn
<1>3. outputs_len' \in Nat /\ outputs' \in Seq(Warp!Inputs)
  <2>1. outputs_len \in Nat /\ outputs \in Seq(Warp!Inputs) BY <1>1 DEF Warp!TypeOK
  <2>2. Append(outputs, i) \in Seq(Warp!Inputs) /\ outputs_len + 1 \in Nat BY <2>1
  <2> QED BY <2>1, <2>2, <1>2 DEF Warp!outs
<1>4. Warp!TypeOK' /\ pc'[w][l] = "sync_end"
  <2>1. "sync_end" \in LanePCs BY DEF LanePCs
  <2> QED BY <2>1, <1>1, <1>2, <1>3, LaneTypes DEF Warp!TypeOK, Octaves
<1>5. LaneOwn(w, l)' BY <1>1, <1>2, <1>4 DEF LaneOwn
<1>6. LaneEvidence(w, l)' BY <1>4 DEF LaneEvidence, Sampling
<1>7. LaneNext(w, l)' = LaneNext(w, l) BY <1>2, <1>4 DEF LaneNext
<1>8. pc[w][l] \in Emitting /\ "sync_end" \in Emitting BY <1>2 DEF Emitting
<1> QED BY <1>2, <1>4, <1>5, <1>6, <1>7, <1>8, OneLane

\* A lane goes on to the next input of its warp.
LEMMA NextInputWarp ==
  ASSUME Warp!WarpAssumption, WarpInv, NEW w \in Warp!Warps, NEW l \in Warp!Lanes, Warp!NextInput(w, l)
  PROVE  WarpInv'
<1>1. Warp!TypeOK /\ LaneOwn(w, l) BY DEF WarpInv
<1>2. PICK n \in Nat : n = input_index[w][l] + NumWarps /\ n % NumWarps = w
  <2>1. input_index[w][l] \in Nat /\ NumWarps \in Nat \ {0} BY <1>1, LaneFacts DEF Warp!TypeOK
  <2>2. input_index[w][l] + NumWarps \in Nat BY <2>1
  <2>3. (input_index[w][l] + NumWarps) % NumWarps = w BY <2>1, <1>1, SameRemainder DEF LaneOwn
  <2> QED BY <2>2, <2>3
<1>3. /\ pc[w][l] = "next" /\ Warp!Goto(w, l, "loop")
      /\ input_index' = [input_index EXCEPT ![w][l] = n]
      /\ UNCHANGED <<low, oct, count, Warp!outs>>
  BY <1>1, <1>2 DEF Warp!NextInput, Warp!TypeOK
<1>4. /\ input_index' \in [Warp!Warps -> [Warp!Lanes -> Nat]] /\ input_index'[w][l] = n
      /\ \A k \in Warp!Lanes \ {l} : input_index'[w][k] = input_index[w][k]
      /\ \A v \in Warp!Warps \ {w} : input_index'[v] = input_index[v]
  <2>1. input_index \in [Warp!Warps -> [Warp!Lanes -> Nat]] BY <1>1 DEF Warp!TypeOK
  <2> QED BY <2>1, <1>3, UpdateCell
<1>5. Warp!TypeOK' /\ pc'[w][l] = "loop"
  <2>1. "loop" \in LanePCs BY DEF LanePCs
  <2>2. /\ low' = low /\ oct' \in [Warp!Warps -> [Warp!Lanes -> Octaves]]
        /\ count' \in [Warp!Warps -> [Warp!Lanes -> 0..(LaneCount * LaneSamples)]]
        /\ outputs_len' \in Nat /\ outputs' \in Seq(Warp!Inputs)
    BY <1>1, <1>3 DEF Warp!TypeOK, Warp!outs, Octaves
  <2>3. Warp!TypeOK /\ Warp!Goto(w, l, "loop") /\ input_index' \in [Warp!Warps -> [Warp!Lanes -> Nat]]
    BY <1>1, <1>3, <1>4
  <2> QED BY <2>1, <2>2, <2>3, LaneTypes
<1>6. LaneOwn(w, l)' BY <1>2, <1>4, <1>5 DEF LaneOwn
<1>7. LaneEvidence(w, l)' BY <1>5 DEF LaneEvidence, Sampling
<1>8. LaneNext(w, l)' = LaneNext(w, l) BY <1>2, <1>3, <1>4, <1>5 DEF LaneNext
<1>9. pc[w][l] \in Gathering /\ "loop" \in Gathering BY <1>3 DEF Gathering
<1> QED BY <1>3, <1>4, <1>5, <1>6, <1>7, <1>8, <1>9, OneLane

\* The lanes of a warp meet with the same input.
LEMMA LanesMeet ==
  ASSUME Warp!WarpAssumption, WarpInv, NEW w \in Warp!Warps, NEW point,
         point \notin {"next", "loop", "exit"}, \A l \in Warp!Lanes : pc[w][l] = point
  PROVE  \E i \in Warp!Inputs :
           /\ i % NumWarps = w
           /\ \A l \in Warp!Lanes : input_index[w][l] = i
<1>1. Warp!TypeOK /\ LanesTogether(w) /\ \A l \in Warp!Lanes : LaneOwn(w, l) BY DEF WarpInv
<1>2. 0 \in Warp!Lanes BY LaneFacts
<1>3. PICK i : i = input_index[w][0] OBVIOUS
<1>4. \A l \in Warp!Lanes : input_index[w][l] = i BY <1>1, <1>2, <1>3 DEF LanesTogether, LaneNext
<1>5. i \in Nat /\ i < Len(InputSeeds) /\ i % NumWarps = w
  BY <1>1, <1>2, <1>3 DEF LaneOwn, Warp!TypeOK
<1>6. i \in Warp!Inputs BY <1>5, LaneFacts
<1> QED BY <1>4, <1>5, <1>6

\* All lanes of a warp go on together to another part of the loop.
LEMMA AllLanes ==
  ASSUME Warp!WarpAssumption, WarpInv, NEW w \in Warp!Warps, NEW point, NEW phase \in LanePCs,
         point \notin {"next", "loop", "exit"}, \A l \in Warp!Lanes : pc[w][l] = point,
         phase \in {"sample", "emit", "next"},
         pc' = [pc EXCEPT ![w] = [l \in Warp!Lanes |-> phase]],
         UNCHANGED <<low, input_index, oct, Warp!outs>>,
         count' \in [Warp!Warps -> [Warp!Lanes -> 0..(LaneCount * LaneSamples)]],
         \A v \in Warp!Warps \ {w} : count'[v] = count[v],
         \A l \in Warp!Lanes : phase = "sample" => oct[w][l] = Warp!seed_index(input_index[w][l]),
         phase = "emit" => count'[w][0] = SumOf(low[input_index[w][0]], LaneCount)
  PROVE  WarpInv'
<1>1. Warp!TypeOK /\ \A l \in Warp!Lanes : LaneOwn(w, l) BY DEF WarpInv
<1>2. PICK i \in Warp!Inputs : i % NumWarps = w /\ \A l \in Warp!Lanes : input_index[w][l] = i
  BY LanesMeet
<1>3. /\ pc' \in [Warp!Warps -> [Warp!Lanes -> LanePCs]] /\ \A l \in Warp!Lanes : pc'[w][l] = phase
      /\ \A v \in Warp!Warps \ {w} : pc'[v] = pc[v]
  <2>1. pc \in [Warp!Warps -> [Warp!Lanes -> LanePCs]] BY <1>1 DEF Warp!TypeOK, LanePCs
  <2>2. PICK f : f = [l \in Warp!Lanes |-> phase] OBVIOUS
  <2>3. f \in [Warp!Lanes -> LanePCs] /\ \A l \in Warp!Lanes : f[l] = phase BY <2>2
  <2>4. pc' = [pc EXCEPT ![w] = f] BY <2>2
  <2> QED BY <2>1, <2>3, <2>4
<1>4. Warp!TypeOK' BY <1>1, <1>3 DEF Warp!TypeOK, LanePCs, Warp!outs
<1>5. LanesTogether(w)'
  <2>1. \A l \in Warp!Lanes : LaneNext(w, l)' = IF phase = "next" THEN i + NumWarps ELSE i
    BY <1>2, <1>3 DEF LaneNext
  <2>2. phase \in Gathering \/ phase \in Sampling \/ phase \in Emitting
    BY DEF Gathering, Sampling, Emitting
  <2> QED BY <2>1, <2>2, <1>3 DEF LanesTogether, Gathering, Sampling, Emitting
<1>6. ASSUME NEW l \in Warp!Lanes PROVE LaneOwn(w, l)' /\ LaneEvidence(w, l)'
  <2>1. i \in Nat /\ i < Len(InputSeeds) /\ 0 \in Warp!Lanes BY LaneFacts
  <2>2. LaneOwn(w, l)' BY <2>1, <1>2, <1>3 DEF LaneOwn
  <2>3. phase \in Sampling => \A part \in Warp!Lanes : oct[w][part] = Warp!seed_index(i)
    BY <1>2 DEF Sampling
  <2>4. phase = "emit" => count'[w][0] = SumOf(low[i], LaneCount) BY <2>1, <1>2
  <2>5. LaneEvidence(w, l)'
    BY <2>3, <2>4, <1>2, <1>3 DEF LaneEvidence, Warp!seed_index, Sampling
  <2> QED BY <2>2, <2>5
<1>7. ASSUME NEW v \in Warp!Warps \ {w}
      PROVE  LanesTogether(v)' /\ \A k \in Warp!Lanes : LaneOwn(v, k)' /\ LaneEvidence(v, k)'
  BY <1>3, OtherWarp
<1>8. ASSUME NEW v \in Warp!Warps PROVE LanesTogether(v)' BY <1>5, <1>7
<1>9. ASSUME NEW v \in Warp!Warps, NEW k \in Warp!Lanes PROVE LaneOwn(v, k)' /\ LaneEvidence(v, k)'
  BY <1>6, <1>7
<1> QED BY <1>4, <1>8, <1>9 DEF WarpInv

\* The reduction gives lane 0 the low samples of all lanes.
LEMMA ReduceWarp ==
  ASSUME Warp!WarpAssumption, WarpInv, NEW w \in Warp!Warps, Warp!Reduce(w)
  PROVE  WarpInv'
<1>1. Warp!TypeOK /\ \A l \in Warp!Lanes : LaneEvidence(w, l) BY DEF WarpInv
<1>2. /\ \A l \in Warp!Lanes : pc[w][l] = "reduce"
      /\ count' = [count EXCEPT ![w] = Warp!WarpReduceAdd(count[w])]
      /\ pc' = [pc EXCEPT ![w] = [l \in Warp!Lanes |-> "emit"]]
      /\ UNCHANGED <<low, input_index, oct, Warp!outs>>
  BY <1>1 DEF Warp!Reduce, Warp!TypeOK
<1>3. PICK i \in Warp!Inputs : i % NumWarps = w /\ \A l \in Warp!Lanes : input_index[w][l] = i
  BY <1>2, LanesMeet
<1>4. count[w] = low[i]
  <2>1. \A l \in Warp!Lanes : count[w][l] = low[i][l] BY <1>1, <1>2, <1>3 DEF LaneEvidence
  <2> QED BY <2>1, <1>1 DEF Warp!TypeOK
<1>5. low[i] \in [Warp!Lanes -> 0..LaneSamples] /\ LaneSamples \in Nat /\ 0 \in Warp!Lanes
  BY <1>1, LaneFacts DEF Warp!TypeOK
<1>6. PICK r : r = Warp!WarpReduceAdd(low[i]) OBVIOUS
<1>7. /\ r \in [Warp!Lanes -> 0..(LaneCount * LaneSamples)]
      /\ r[0] = SumOf(low[i], LaneCount)
  BY <1>5, <1>6, ReduceSums
<1>8. /\ count' \in [Warp!Warps -> [Warp!Lanes -> 0..(LaneCount * LaneSamples)]]
      /\ count'[w] = r /\ \A v \in Warp!Warps \ {w} : count'[v] = count[v]
  <2>1. count' = [count EXCEPT ![w] = r] BY <1>2, <1>4, <1>6
  <2>2. count \in [Warp!Warps -> [Warp!Lanes -> 0..(LaneCount * LaneSamples)]] BY <1>1 DEF Warp!TypeOK
  <2> QED BY <2>1, <2>2, <1>7
<1>9. count'[w][0] = SumOf(low[input_index[w][0]], LaneCount) BY <1>3, <1>5, <1>7, <1>8
<1>10. PICK point, phase \in LanePCs :
         /\ point = "reduce" /\ phase = "emit" /\ point \notin {"next", "loop", "exit"}
         /\ phase \in {"sample", "emit", "next"} /\ phase # "sample"
  <2>1. "reduce" \in LanePCs /\ "emit" \in LanePCs BY DEF LanePCs
  <2>2. "reduce" \notin {"next", "loop", "exit"} /\ "emit" \in {"sample", "emit", "next"}
        /\ "emit" # "sample"
    OBVIOUS
  <2> QED BY <2>1, <2>2
<1>11. /\ \A l \in Warp!Lanes : pc[w][l] = point
       /\ pc' = [pc EXCEPT ![w] = [l \in Warp!Lanes |-> phase]]
  BY <1>2, <1>10
<1>12. /\ UNCHANGED <<low, input_index, oct, Warp!outs>>
       /\ count' \in [Warp!Warps -> [Warp!Lanes -> 0..(LaneCount * LaneSamples)]]
       /\ \A v \in Warp!Warps \ {w} : count'[v] = count[v]
  BY <1>2, <1>8
<1> QED BY <1>9, <1>10, <1>11, <1>12, AllLanes

\* Behind __syncwarp the octaves of the input are complete.
LEMMA SyncWarpInv ==
  ASSUME Warp!WarpAssumption, WarpInv, NEW w \in Warp!Warps, Warp!SyncWarp(w)
  PROVE  WarpInv'
<1>1. Warp!TypeOK /\ \A l \in Warp!Lanes : LaneEvidence(w, l) BY DEF WarpInv
<1>2. PICK point \in {"sync_load", "sync_end"}, phase \in {"sample", "next"} :
        /\ phase = "sample" => point = "sync_load"
        /\ \A l \in Warp!Lanes : pc[w][l] = point
        /\ pc' = [pc EXCEPT ![w] = [l \in Warp!Lanes |-> phase]]
        /\ UNCHANGED <<low, input_index, oct, count, Warp!outs>>
  BY DEF Warp!SyncWarp, Warp!syncwarp
<1>3. \A l \in Warp!Lanes : phase = "sample" => oct[w][l] = Warp!seed_index(input_index[w][l])
  BY <1>1, <1>2 DEF LaneEvidence
<1>4. count' \in [Warp!Warps -> [Warp!Lanes -> 0..(LaneCount * LaneSamples)]] BY <1>1, <1>2 DEF Warp!TypeOK
<1>5. phase \in LanePCs /\ point \notin {"next", "loop", "exit"}
      /\ phase \in {"sample", "emit", "next"} /\ phase # "emit"
  BY DEF LanePCs
<1> QED BY <1>2, <1>3, <1>4, <1>5, AllLanes

\* Every step keeps the invariant.
LEMMA NextWarpInv == ASSUME Warp!WarpAssumption, WarpInv, [Warp!Next]_(Warp!vars) PROVE WarpInv'
<1>1. CASE UNCHANGED Warp!vars
  <2>1. UNCHANGED <<low, pc, input_index, oct, count>> /\ UNCHANGED Warp!outs BY <1>1 DEF Warp!vars
  <2>2. Warp!TypeOK' BY <2>1 DEF WarpInv, Warp!TypeOK, Warp!outs
  <2>3. ASSUME NEW w \in Warp!Warps
        PROVE  LanesTogether(w)' /\ \A l \in Warp!Lanes : LaneOwn(w, l)' /\ LaneEvidence(w, l)'
    BY <2>1, OtherWarp
  <2>4. \A w \in Warp!Warps : LanesTogether(w)' BY <2>3
  <2>5. \A w \in Warp!Warps, l \in Warp!Lanes : LaneOwn(w, l)' /\ LaneEvidence(w, l)' BY <2>3
  <2> QED BY <2>2, <2>4, <2>5 DEF WarpInv
<1>2. ASSUME NEW w \in Warp!Warps, Warp!SyncWarp(w) \/ Warp!Reduce(w) PROVE WarpInv'
  BY <1>2, SyncWarpInv, ReduceWarp
<1>3. ASSUME NEW w \in Warp!Warps, NEW l \in Warp!Lanes, Warp!LaneStep(w, l) PROVE WarpInv'
  BY <1>3, LoopWarp, LoadWarp, SampleWarp, EmitWarp, NextInputWarp DEF Warp!LaneStep
<1>4. CASE Warp!Done BY <1>1, <1>4 DEF Warp!Done
<1> QED BY <1>1, <1>2, <1>3, <1>4 DEF Warp!Next

\* KernelFilter2_0A, for any number of warps, any power of two of lanes, any
\* inputs and any samples: the lanes of a warp stay together, and what a lane
\* samples is all of the octaves of its own input.
THEOREM WarpInvariant == Warp!WarpAssumption => (Warp!Spec => []WarpInv)
<1> SUFFICES ASSUME Warp!WarpAssumption PROVE Warp!Spec => []WarpInv
  OBVIOUS
<1>1. Warp!Init => WarpInv BY InitWarpInv
<1>2. WarpInv /\ [Warp!Next]_(Warp!vars) => WarpInv' BY NextWarpInv
<1> QED BY <1>1, <1>2, PTL DEF Warp!Spec

\* The types of the kernel's variables; no lane's count exceeds the samples of
\* an input, although the lanes above the middle add up values more than once.
THEOREM WarpTypes == Warp!WarpAssumption => (Warp!Spec => []Warp!TypeOK)
<1>1. WarpInv => Warp!TypeOK BY DEF WarpInv
<1> QED BY <1>1, WarpInvariant, PTL

\* What Total makes of the totals of fewer lanes.
LanesOf(F) ==
  [n \in 0..LaneCount |->
    [i \in Warp!Inputs |-> IF n = 0 THEN 0 ELSE F[n - 1][i] + low[i][n - 1]]]

\* The totals are the sums of what the lanes have.
LEMMA LanesTotal ==
  ASSUME Warp!WarpAssumption, Warp!TypeOK, NEW i \in Warp!Inputs
  PROVE  Warp!Total[LaneCount][i] = SumOf(low[i], LaneCount) /\ Warp!Total[LaneCount][i] \in Int
<1> DEFINE N == LaneCount
           S(j) == PrefixSum(low[j], N)
           T == [n \in 0..N |-> [j \in Warp!Inputs |-> S(j)[n]]]
<1>1. Warp!Total = CHOOSE F : F = LanesOf(F) BY DEF Warp!Total, LanesOf
<1>2. N \in Nat BY LaneFacts
<1>3. ASSUME NEW j \in Warp!Inputs
      PROVE  /\ S(j) \in [0..N -> Int] /\ S(j)[0] = 0
             /\ \A n \in 1..N : S(j)[n] = S(j)[n - 1] + low[j][n - 1]
  <2>1. low[j] \in [0..(N - 1) -> Int]
    <3>1. 0..LaneSamples \subseteq Int OBVIOUS
    <3>2. low[j] \in [Warp!Lanes -> 0..LaneSamples] BY DEF Warp!TypeOK
    <3> QED BY <3>1, <3>2 DEF Warp!Lanes
  <2>2. IsPrefixSum(S(j), low[j], N) BY <2>1, <1>2, SumExists
  <2> HIDE DEF S
  <2> QED BY <2>2 DEF IsPrefixSum
<1> HIDE DEF S
<1>4. \A n \in 0..N, j \in Warp!Inputs : T[n][j] = S(j)[n] OBVIOUS
<1>5. T = LanesOf(T)
  <2>1. ASSUME NEW n \in 0..N, NEW j \in Warp!Inputs
        PROVE  S(j)[n] = IF n = 0 THEN 0 ELSE T[n - 1][j] + low[j][n - 1]
    <3>1. CASE n = 0 BY <3>1, <1>3
    <3>2. CASE n # 0
      <4>1. n \in 1..N /\ n - 1 \in 0..N BY <3>2, <1>2
      <4>2. T[n - 1][j] = S(j)[n - 1] BY <4>1, <1>4
      <4>3. S(j)[n] = S(j)[n - 1] + low[j][n - 1] BY <4>1, <1>3
      <4> HIDE DEF T
      <4> QED BY <4>2, <4>3, <3>2
    <3> QED BY <3>1, <3>2
  <2>2. ASSUME NEW n \in 0..N
        PROVE  T[n] = [j \in Warp!Inputs |-> IF n = 0 THEN 0 ELSE T[n - 1][j] + low[j][n - 1]]
    <3>1. T[n] = [j \in Warp!Inputs |-> S(j)[n]] OBVIOUS
    <3> HIDE DEF T
    <3> QED BY <3>1, <2>1
  <2>3. T = [n \in 0..N |-> T[n]] OBVIOUS
  <2> HIDE DEF T
  <2> QED BY <2>2, <2>3 DEF LanesOf
<1> HIDE DEF T
<1>6. PICK F : F = Warp!Total /\ F = LanesOf(F)
  <2>1. \E F : F = LanesOf(F) BY <1>5
  <2> QED BY <2>1, <1>1
<1>7. ASSUME NEW n \in 0..N PROVE F[n][i] = IF n = 0 THEN 0 ELSE F[n - 1][i] + low[i][n - 1]
  <2>1. PICK R : R = LanesOf(F) OBVIOUS
  <2>2. R[n] = [j \in Warp!Inputs |-> IF n = 0 THEN 0 ELSE F[n - 1][j] + low[j][n - 1]]
    BY <2>1 DEF LanesOf
  <2>3. R[n][i] = IF n = 0 THEN 0 ELSE F[n - 1][i] + low[i][n - 1] BY <2>2
  <2>4. R = F BY <2>1, <1>6
  <2> QED BY <2>3, <2>4
<1> DEFINE Good == {n \in 0..N : F[n][i] = S(i)[n]}
<1>8. 0 \in Good
  <2>1. 0 \in 0..N BY <1>2
  <2>2. F[0][i] = 0 BY <2>1, <1>7
  <2> QED BY <2>1, <2>2, <1>3
<1>9. ASSUME NEW n \in 0..N, n + 1 \in 0..N, n \in Good PROVE n + 1 \in Good
  <2>1. n + 1 \in 1..N /\ (n + 1) - 1 = n /\ n + 1 # 0 BY <1>2, <1>9
  <2>2. F[n + 1][i] = F[n][i] + low[i][n] BY <2>1, <1>7, <1>9
  <2>3. S(i)[n + 1] = S(i)[n] + low[i][n] BY <2>1, <1>3
  <2> QED BY <2>2, <2>3, <1>9
<1>10. N \in Good
  <2>1. 0..N \subseteq Good
    <3> HIDE DEF Good
    <3> QED BY <1>2, <1>8, <1>9, UpTo
  <2> QED BY <2>1, <1>2
<1>11. Warp!Total[N][i] = S(i)[N] BY <1>10, <1>6
<1>12. S(i)[N] = SumOf(low[i], N) BY DEF S, SumOf
<1>13. S(i)[N] \in Int
  <2>1. N \in 0..N BY <1>2
  <2> QED BY <2>1, <1>3
<1> QED BY <1>11, <1>12, <1>13

\* The warp an input belongs to, and when it is decided.
LEMMA DecidedBy ==
  ASSUME NEW i \in Warp!Inputs
  PROVE  Warp!Decided(i) <=>
           \/ input_index[i % NumWarps][0] > i
           \/ input_index[i % NumWarps][0] = i /\ pc[i % NumWarps][0] \in {"sync_end", "next"}
  BY DEF Warp!Decided

\* What the kernel should make of an input.
WarpVerdict ==
  [i \in Warp!Inputs |-> IF Warp!Total[LaneCount][i] >= MinCount THEN i ELSE Warp!NotAnInput]

\* At the start nothing is decided.
LEMMA WarpInitAbstract == ASSUME Warp!WarpAssumption, Warp!Init PROVE Warp!Abstract!Init
<1>1. ASSUME NEW i \in Warp!Inputs PROVE ~Warp!Decided(i)
  <2>1. /\ NumWarps \in Nat \ {0} /\ 0 \in Warp!Lanes
        /\ i \in Nat /\ i % NumWarps \in Warp!Warps
    BY LaneFacts
  <2>2. input_index[i % NumWarps][0] = i % NumWarps /\ pc[i % NumWarps][0] = "loop"
    BY <2>1 DEF Warp!Init
  <2>3. i % NumWarps <= i /\ i % NumWarps \in 0..(NumWarps - 1) BY <2>1, SameRemainder
  <2>4. ~(i % NumWarps > i) BY <2>1, <2>3
  <2> QED BY <2>2, <2>4, DecidedBy
<1>2. {i \in Warp!Inputs : ~Warp!Decided(i)} = Warp!Inputs BY <1>1
<1>3. /\ DOMAIN WarpVerdict = Warp!Inputs
      /\ \A i \in Warp!Inputs : WarpVerdict[i] \in Warp!Inputs \cup {Warp!NotAnInput}
  BY DEF WarpVerdict
<1> QED BY <1>2, <1>3 DEF Warp!Init, Warp!Abstract!Init, WarpVerdict

\* A step after which the same inputs are decided and nothing is appended.
LEMMA WarpStutters ==
  ASSUME \A i \in Warp!Inputs : Warp!Decided(i)' <=> Warp!Decided(i), UNCHANGED <<low, Warp!outs>>
  PROVE  UNCHANGED Warp!Abstract!vars
<1>1. {i \in Warp!Inputs : ~Warp!Decided(i)}' = {i \in Warp!Inputs : ~Warp!Decided(i)} OBVIOUS
<1>2. Warp!Total' = Warp!Total BY DEF Warp!Total
<1>3. WarpVerdict' = WarpVerdict BY <1>2 DEF WarpVerdict
<1> QED BY <1>1, <1>3 DEF Warp!Abstract!vars, Warp!outs, WarpVerdict

\* Only lane 0 that emits or goes on to its next input could decide anything.
LEMMA WarpQuiet ==
  ASSUME Warp!WarpAssumption, UNCHANGED <<low, Warp!outs>>,
         \A v \in Warp!Warps : input_index'[v][0] = input_index[v][0],
         \A v \in Warp!Warps :
           pc'[v][0] \in {"sync_end", "next"} <=> pc[v][0] \in {"sync_end", "next"}
  PROVE  UNCHANGED Warp!Abstract!vars
<1>1. ASSUME NEW i \in Warp!Inputs PROVE Warp!Decided(i)' <=> Warp!Decided(i)
  <2>1. i % NumWarps \in Warp!Warps BY LaneFacts
  <2>2. Warp!Decided(i)' <=>
          \/ input_index'[i % NumWarps][0] > i
          \/ input_index'[i % NumWarps][0] = i /\ pc'[i % NumWarps][0] \in {"sync_end", "next"}
    BY DEF Warp!Decided
  <2> QED BY <2>1, <2>2, DecidedBy
<1> QED BY <1>1, WarpStutters

\* Going on to the next input decides nothing: the input of the warp was decided
\* before, and none between the two is the warp's.
LEMMA NextInputQuiet ==
  ASSUME Warp!WarpAssumption, WarpInv, NEW w \in Warp!Warps, NEW l \in Warp!Lanes, Warp!NextInput(w, l)
  PROVE  UNCHANGED Warp!Abstract!vars
<1>1. Warp!TypeOK /\ LaneOwn(w, l) BY DEF WarpInv
<1>2. PICK p \in Nat, g \in Nat \ {0} : p = input_index[w][l] /\ g = NumWarps /\ p % g = w
  <2>1. input_index[w][l] \in Nat BY <1>1 DEF Warp!TypeOK
  <2>2. NumWarps \in Nat \ {0} BY LaneFacts
  <2>3. input_index[w][l] % NumWarps = w BY <1>1 DEF LaneOwn
  <2> QED BY <2>1, <2>2, <2>3
<1>3. /\ pc[w][l] = "next" /\ pc' = [pc EXCEPT ![w][l] = "loop"]
      /\ input_index' = [input_index EXCEPT ![w][l] = p + g] /\ UNCHANGED <<low, Warp!outs>>
  BY <1>1, <1>2 DEF Warp!NextInput, Warp!Goto, Warp!TypeOK
<1>4. /\ pc'[w][l] = "loop" /\ input_index'[w][l] = p + g
      /\ \A v \in Warp!Warps, k \in Warp!Lanes :
           v # w \/ k # l => pc'[v][k] = pc[v][k] /\ input_index'[v][k] = input_index[v][k]
  BY <1>1, <1>3 DEF Warp!TypeOK
<1>5. ASSUME NEW i \in Warp!Inputs PROVE Warp!Decided(i)' <=> Warp!Decided(i)
  <2>1. i \in Nat /\ i % NumWarps \in Warp!Warps /\ 0 \in Warp!Lanes BY LaneFacts
  <2>2. Warp!Decided(i)' <=>
          \/ input_index'[i % NumWarps][0] > i
          \/ input_index'[i % NumWarps][0] = i /\ pc'[i % NumWarps][0] \in {"sync_end", "next"}
    BY DEF Warp!Decided
  <2>3. CASE i % NumWarps # w \/ l # 0 BY <2>1, <2>2, <2>3, <1>4, DecidedBy
  <2>4. CASE i % NumWarps = w /\ l = 0
    <3>1. Warp!Decided(i) <=> p > i \/ p = i BY <2>4, <1>2, <1>3, DecidedBy
    <3>2. Warp!Decided(i)' <=> p + g > i BY <2>2, <2>4, <1>4
    <3>3. p < i => p + g <= i BY <2>1, <2>4, <1>2, SameRemainder
    <3> QED BY <3>1, <3>2, <3>3, <2>1
  <2> QED BY <2>3, <2>4
<1> QED BY <1>3, <1>5, WarpStutters

\* Lane 0 that emits decides its input: the input was undecided, it is the only
\* one decided now, and it is appended if the lanes have enough low samples.
LEMMA EmitDecides ==
  ASSUME Warp!WarpAssumption, WarpInv, NEW w \in Warp!Warps, NEW l \in Warp!Lanes, Warp!Emit(w, l)
  PROVE  Warp!Abstract!Next \/ UNCHANGED Warp!Abstract!vars
<1>1. Warp!TypeOK BY DEF WarpInv
<1>2. PICK i \in Warp!Inputs :
        /\ i = input_index[w][l] /\ i % NumWarps = w
        /\ pc[w][l] = "emit" /\ Warp!Goto(w, l, "sync_end")
        /\ UNCHANGED <<low, input_index, oct, count>>
        /\ IF l = 0 /\ SumOf(low[i], LaneCount) >= MinCount
             THEN /\ outputs_len' = outputs_len + 1
                  /\ outputs' = IF outputs_len < MaxLen THEN Append(outputs, i) ELSE outputs
             ELSE UNCHANGED Warp!outs
  BY EmitsOwn
<1>3. /\ pc'[w][l] = "sync_end"
      /\ \A v \in Warp!Warps, k \in Warp!Lanes : v # w \/ k # l => pc'[v][k] = pc[v][k]
  BY <1>1, <1>2 DEF Warp!Goto, Warp!TypeOK
<1>4. i \in Nat /\ 0 \in Warp!Lanes /\ \A j \in Warp!Inputs : j \in Nat /\ j % NumWarps \in Warp!Warps
  BY LaneFacts
<1>5. CASE l # 0
  <2>1. \A v \in Warp!Warps : pc'[v][0] = pc[v][0] BY <1>3, <1>4, <1>5
  <2>2. UNCHANGED <<low, Warp!outs>> BY <1>2, <1>5
  <2> QED BY <2>1, <2>2, <1>2, WarpQuiet
<1>6. CASE l = 0
  <2>1. ASSUME NEW j \in Warp!Inputs
        PROVE  IF j = i THEN ~Warp!Decided(j) /\ Warp!Decided(j)'
                        ELSE Warp!Decided(j)' <=> Warp!Decided(j)
    <3>1. Warp!Decided(j)' <=>
            \/ input_index[j % NumWarps][0] > j
            \/ input_index[j % NumWarps][0] = j /\ pc'[j % NumWarps][0] \in {"sync_end", "next"}
      BY <1>2 DEF Warp!Decided
    <3>2. CASE j % NumWarps # w BY <3>1, <3>2, <1>2, <1>3, <1>4, DecidedBy
    <3>3. CASE j % NumWarps = w
      <4>1. Warp!Decided(j) <=> i > j BY <3>3, <1>2, <1>6, DecidedBy
      <4>2. Warp!Decided(j)' <=> i > j \/ i = j BY <3>1, <3>3, <1>2, <1>3, <1>6
      <4> QED BY <4>1, <4>2, <1>4
    <3> QED BY <3>2, <3>3
  <2> DEFINE Todo == {j \in Warp!Inputs : ~Warp!Decided(j)}
  <2>2. i \in Todo /\ Todo' = Todo \ {i} BY <2>1
  <2>3. WarpVerdict' = WarpVerdict
    <3>1. Warp!Total' = Warp!Total BY <1>2 DEF Warp!Total
    <3> QED BY <3>1 DEF WarpVerdict
  <2>4. WarpVerdict[i] = IF SumOf(low[i], LaneCount) >= MinCount THEN i ELSE Warp!NotAnInput
    BY <1>1, LanesTotal DEF WarpVerdict
  <2>5. i # Warp!NotAnInput BY <1>4 DEF Warp!NotAnInput
  <2> HIDE DEF Todo
  <2>6. IF WarpVerdict[i] = Warp!NotAnInput
          THEN UNCHANGED <<outputs_len, outputs>>
          ELSE /\ outputs_len' = outputs_len + 1
               /\ outputs' = IF outputs_len < MaxLen
                    THEN Append(outputs, WarpVerdict[i]) ELSE outputs
    <3>1. CASE SumOf(low[i], LaneCount) >= MinCount BY <3>1, <2>4, <2>5, <1>2, <1>6
    <3>2. CASE ~(SumOf(low[i], LaneCount) >= MinCount) BY <3>2, <2>4, <1>2 DEF Warp!outs
    <3> QED BY <3>1, <3>2
  <2>7. Warp!Abstract!Decide(i)
    BY <2>2, <2>3, <2>6 DEF Warp!Abstract!Decide, Todo, WarpVerdict
  <2> QED BY <2>2, <2>7 DEF Warp!Abstract!Next, Todo
<1> QED BY <1>5, <1>6

\* Every step is one of FilterKernel's, or changes nothing it can see.
LEMMA WarpNextAbstract ==
  ASSUME Warp!WarpAssumption, WarpInv, [Warp!Next]_(Warp!vars)
  PROVE  [Warp!Abstract!Next]_(Warp!Abstract!vars)
<1>0. Warp!TypeOK /\ 0 \in Warp!Lanes BY LaneFacts DEF WarpInv
<1>1. CASE UNCHANGED Warp!vars
  <2>1. UNCHANGED <<low, pc, input_index, Warp!outs>> BY <1>1 DEF Warp!vars
  <2>2. UNCHANGED Warp!Abstract!vars BY <2>1, WarpQuiet
  <2> QED BY <2>2
<1>2. ASSUME NEW w \in Warp!Warps, NEW point, NEW phase, \A l \in Warp!Lanes : pc[w][l] = point,
             pc' = [pc EXCEPT ![w] = [l \in Warp!Lanes |-> phase]],
             point \in {"sync_end", "next"} <=> phase \in {"sync_end", "next"},
             UNCHANGED <<low, input_index, Warp!outs>>
      PROVE  UNCHANGED Warp!Abstract!vars
  <2>1. pc[w][0] = point /\ pc'[w][0] = phase /\ \A v \in Warp!Warps \ {w} : pc'[v] = pc[v]
    BY <1>0, <1>2 DEF Warp!TypeOK
  <2>2. \A v \in Warp!Warps :
          pc'[v][0] \in {"sync_end", "next"} <=> pc[v][0] \in {"sync_end", "next"}
    BY <2>1, <1>2
  <2> QED BY <2>2, <1>2, WarpQuiet
<1>3. ASSUME NEW w \in Warp!Warps, Warp!SyncWarp(w) \/ Warp!Reduce(w) PROVE UNCHANGED Warp!Abstract!vars
  <2>1. CASE Warp!syncwarp(w, "sync_load", "sample") BY <2>1, <1>2 DEF Warp!syncwarp
  <2>2. CASE Warp!syncwarp(w, "sync_end", "next") BY <2>2, <1>2 DEF Warp!syncwarp
  <2>3. CASE Warp!Reduce(w) BY <2>3, <1>2 DEF Warp!Reduce
  <2> QED BY <2>1, <2>2, <2>3, <1>3 DEF Warp!SyncWarp
<1>4. ASSUME NEW w \in Warp!Warps, NEW l \in Warp!Lanes,
             Warp!Loop(w, l) \/ Warp!Load(w, l) \/ Warp!Sample(w, l)
      PROVE  UNCHANGED Warp!Abstract!vars
  <2>1. PICK x \in {"load", "exit", "sync_load", "reduce"} :
          /\ pc[w][l] \in {"loop", "load", "sample"} /\ pc' = [pc EXCEPT ![w][l] = x]
          /\ UNCHANGED <<low, input_index, Warp!outs>>
    <3>1. CASE Warp!Loop(w, l) BY <3>1 DEF Warp!Loop, Warp!Goto
    <3>2. CASE Warp!Load(w, l) BY <3>2 DEF Warp!Load, Warp!Goto, Warp!AfterLoad
    <3>3. CASE Warp!Sample(w, l) BY <3>3 DEF Warp!Sample, Warp!Goto
    <3> QED BY <3>1, <3>2, <3>3, <1>4
  <2>2. \A v \in Warp!Warps, k \in Warp!Lanes : pc'[v][k] = IF v = w /\ k = l THEN x ELSE pc[v][k]
    BY <2>1, <1>0 DEF Warp!TypeOK
  <2>3. \A v \in Warp!Warps :
          pc'[v][0] \in {"sync_end", "next"} <=> pc[v][0] \in {"sync_end", "next"}
    BY <2>1, <2>2, <1>0
  <2> QED BY <2>1, <2>3, WarpQuiet
<1>5. CASE Warp!Done BY <1>1, <1>5 DEF Warp!Done
<1>6. ASSUME NEW w \in Warp!Warps, NEW l \in Warp!Lanes, Warp!LaneStep(w, l)
      PROVE  Warp!Abstract!Next \/ UNCHANGED Warp!Abstract!vars
  BY <1>4, <1>6, EmitDecides, NextInputQuiet DEF Warp!LaneStep
<1> QED BY <1>1, <1>3, <1>5, <1>6 DEF Warp!Next

\* KernelFilter2_0A judges every input once, by the samples all lanes of its warp
\* took in the octaves of its own seed, and appends what passes, for any number
\* of warps, any power of two of lanes, any inputs and any samples.  So does
\* KernelFilter2_0B in a launch in which no input is overwritten while in use.
THEOREM WarpImplementsFilter == Warp!WarpAssumption => (Warp!Spec => Warp!ImplementsFilter)
<1> SUFFICES ASSUME Warp!WarpAssumption PROVE Warp!Spec => Warp!ImplementsFilter
  OBVIOUS
<1>1. Warp!Init => Warp!Abstract!Init BY WarpInitAbstract
<1>2. WarpInv /\ [Warp!Next]_(Warp!vars) => [Warp!Abstract!Next]_(Warp!Abstract!vars) BY WarpNextAbstract
<1>3. Warp!Spec => []WarpInv BY WarpInvariant
<1> QED BY <1>1, <1>2, <1>3, PTL DEF Warp!Spec, Warp!ImplementsFilter, Warp!Abstract!Spec

=============================================================================

--------------------------- MODULE GradVecsBlock ----------------------------
(***************************************************************************)
(* The blocks of KernelFilterGradVecs1::kernel and                         *)
(* KernelFilterGradVecs2::kernel (gpu.cu), which go through the same       *)
(* phases: a block takes an input (a seed, or a position of one), a few of *)
(* its threads copy the seed's octave to shared memory, all of them build  *)
(* the convolution tables from it, and each judges its share of the        *)
(* positions with the tables.                                              *)
(*                                                                         *)
(* Octave and tables are marked with the input they belong to; inputs with *)
(* the same seed are kept apart, which only asks for more.                 *)
(***************************************************************************)
EXTENDS Integers, Sequences

CONSTANTS
  GridDim,      \* blocks
  BlockDim,     \* threads of a block
  LoadThreads,  \* threads that copy the octave: 17
  InputsLen,    \* *seeds.len, *inputs.len
  Positions,    \* positions tried for an input
  MaxLen        \* outputs.max_len

\* What the constants must satisfy.
BlockAssumption ==
  /\ GridDim \in Nat \ {0} /\ BlockDim \in Nat \ {0}
  /\ LoadThreads \in 1..BlockDim /\ InputsLen \in Nat
  /\ Positions \in Nat /\ MaxLen \in Nat

Blocks == 0..(GridDim - 1)
Threads == 0..(BlockDim - 1)
Inputs == 0..(InputsLen - 1)
Items == Inputs \X (0..(Positions - 1))
Nothing == -1

VARIABLES
  passes,       \* item -> whether its score passes, with the right tables
  pc,           \* block -> thread -> next phase
  input_index,  \* block -> thread -> local
  position,     \* block -> thread -> next position to judge
  kernel_0,     \* block -> thread -> its part of shared_kernel_0A, 0B is there
  oct_0,        \* block -> part -> input the octave (oct_0A, oct_0B) is of
  tables,       \* block -> row -> input conv_z0, conv_z1 and idx_xy are of
  outputs_len,  \* *outputs.len
  outputs       \* outputs.data

shared == <<kernel_0, oct_0, tables>>
outs == <<outputs_len, outputs>>
vars == <<passes, pc, input_index, position, shared, outs>>

Init ==
  /\ passes \in [Items -> BOOLEAN]
  /\ pc = [b \in Blocks |-> [t \in Threads |-> "begin"]]
  /\ input_index = [b \in Blocks |-> [t \in Threads |-> b]]
  /\ position = [b \in Blocks |-> [t \in Threads |-> t]]
  /\ kernel_0 = [b \in Blocks |-> [t \in Threads |-> FALSE]]
  /\ oct_0 = [b \in Blocks |-> [l \in 0..(LoadThreads - 1) |-> Nothing]]
  /\ tables = [b \in Blocks |-> [t \in Threads |-> Nothing]]
  /\ outputs_len = 0 /\ outputs = << >>

Goto(b, t, phase) == pc' = [pc EXCEPT ![b][t] = phase]

-----------------------------------------------------------------------------
\* Each thread copies its part of the convolution kernel.
Begin(b, t) ==
  /\ pc[b][t] = "begin"
  /\ Goto(b, t, "loop")
  /\ kernel_0' = [kernel_0 EXCEPT ![b][t] = TRUE]
  /\ UNCHANGED <<passes, input_index, position, oct_0, tables, outs>>

Top == "sync_top"

Loop(b, t) ==
  /\ pc[b][t] = "loop"
  /\ Goto(b, t, IF input_index[b][t] < InputsLen THEN Top ELSE "exit")
  /\ UNCHANGED <<passes, input_index, position, shared, outs>>

Load(b, t) ==
  /\ pc[b][t] = "load"
  /\ Goto(b, t, "sync_load")
  /\ oct_0' = IF t < LoadThreads
       THEN [oct_0 EXCEPT ![b][t] = input_index[b][t]] ELSE oct_0
  /\ UNCHANGED <<passes, input_index, position, kernel_0, tables, outs>>

OctaveOf(b, i) == \A l \in 0..(LoadThreads - 1) : oct_0[b][l] = i

\* A thread's rows of the tables, from the whole octave and kernel.
Build(b, t) ==
  /\ pc[b][t] = "build"
  /\ Goto(b, t, "sync_build")
  /\ tables' = [tables EXCEPT ![b][t] =
       IF OctaveOf(b, input_index[b][t]) /\ \A u \in Threads : kernel_0[b][u]
         THEN input_index[b][t] ELSE Nothing]
  /\ position' = [position EXCEPT ![b][t] = t]
  /\ UNCHANGED <<passes, input_index, kernel_0, oct_0, outs>>

\* Gate and score of one position; with tables or an octave of another input
\* they may come out either way.
Judge(b, t) ==
  LET i == input_index[b][t]
      item == <<i, position[b][t]>>
      right == OctaveOf(b, i) /\ \A row \in Threads : tables[b][row] = i
  IN  /\ pc[b][t] = "judge" /\ position[b][t] < Positions
      /\ position' = [position EXCEPT ![b][t] = @ + BlockDim]
      /\ \E accept \in IF right THEN {passes[item]} ELSE BOOLEAN :
           IF accept
             THEN /\ outputs_len' = outputs_len + 1
                  /\ outputs' = IF outputs_len < MaxLen THEN Append(outputs, item)
                                                        ELSE outputs
             ELSE UNCHANGED outs
      /\ UNCHANGED <<passes, pc, input_index, shared>>

\* A thread has judged its positions and takes the next input.
NextInput(b, t) ==
  /\ pc[b][t] = "judge" /\ position[b][t] >= Positions
  /\ Goto(b, t, "loop")
  /\ input_index' = [input_index EXCEPT ![b][t] = @ + GridDim]
  /\ UNCHANGED <<passes, position, shared, outs>>

\* __syncthreads, wherever the threads wait.
SyncPoints == {"sync_top", "sync_load", "sync_build"}

syncthreads(b) ==
  /\ \A t \in Threads : pc[b][t] \in SyncPoints \cup {"exit"}
  /\ \E t \in Threads : pc[b][t] # "exit"
  /\ pc' = [pc EXCEPT ![b] = [t \in Threads |->
       CASE @[t] = "sync_top" -> "load"
         [] @[t] = "sync_load" -> "build"
         [] @[t] = "sync_build" -> "judge"
         [] @[t] = "exit" -> "exit"]]
  /\ UNCHANGED <<passes, input_index, position, shared, outs>>

ThreadStep(b, t) ==
  \/ Begin(b, t) \/ Loop(b, t) \/ Load(b, t) \/ Build(b, t)
  \/ Judge(b, t) \/ NextInput(b, t)

Ended == \A b \in Blocks, t \in Threads : pc[b][t] = "exit"
Done == Ended /\ UNCHANGED vars

Next ==
  \/ \E b \in Blocks : syncthreads(b) \/ \E t \in Threads : ThreadStep(b, t)
  \/ Done

Spec == Init /\ [][Next]_vars

-----------------------------------------------------------------------------
(***************************************************************************)
(* What the kernels promise.                                               *)
(***************************************************************************)
\* Whether the thread that an item belongs to is past it.
Decided(item) ==
  LET i == item[1]
      b == i % GridDim
      t == item[2] % BlockDim
  IN  \/ input_index[b][t] > i
      \/ input_index[b][t] = i /\ pc[b][t] = "judge" /\ position[b][t] > item[2]

NotAnItem == <<Nothing, Nothing>>

Abstract == INSTANCE FilterKernel WITH
  Results <- Items,
  Rejected <- NotAnItem,
  verdict <- [item \in Items |-> IF passes[item] THEN item ELSE NotAnItem],
  undecided <- {item \in Items : ~Decided(item)},
  len <- outputs_len,
  stored <- outputs

\* Types; octave and tables are never of an input that does not exist.
TypeOK ==
  /\ passes \in [Items -> BOOLEAN]
  /\ pc \in [Blocks -> [Threads -> SyncPoints \cup
       {"begin", "loop", "load", "build", "judge", "exit"}]]
  /\ input_index \in [Blocks -> [Threads -> Nat]]
  /\ position \in [Blocks -> [Threads -> 0..(Positions + BlockDim - 1)]]
  /\ kernel_0 \in [Blocks -> [Threads -> BOOLEAN]]
  /\ oct_0 \in [Blocks -> [0..(LoadThreads - 1) -> Inputs \cup {Nothing}]]
  /\ tables \in [Blocks -> [Threads -> Inputs \cup {Nothing}]]
  /\ outputs_len \in Nat /\ outputs \in Seq(Items)

\* Every position of every input is judged once, with tables built wholly
\* from the octave of the input's seed, although a fast thread goes on to the
\* next input while others are still judging this one.
ImplementsFilter == Abstract!Spec
=============================================================================

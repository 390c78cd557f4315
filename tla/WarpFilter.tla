----------------------------- MODULE WarpFilter -----------------------------
(***************************************************************************)
(* The warps of KernelFilter2_0A::kernel (gpu.cu): one warp per input.     *)
(* The lanes copy the two octaves of the input's seed to the warp's place  *)
(* in shared memory, each lane its part, sample them, add up their counts  *)
(* with warp_reduce_add, and lane 0 appends the input.                     *)
(*                                                                         *)
(* KernelFilter2_0B::kernel is the same code but for the octaves; but its  *)
(* outputs go to the buffer its inputs are in, so the inputs, constant     *)
(* here, may change under its lanes.  The module describes a launch of it  *)
(* only as long as no input is overwritten before its warp is done with    *)
(* it; module GpuBatch describes what the overwriting does.                *)
(*                                                                         *)
(* Lanes are threads of their own, as they are since Volta; only           *)
(* __syncwarp and the reduction bring them together.                       *)
(***************************************************************************)
EXTENDS Integers, Sequences

CONSTANTS
  NumWarps,    \* warps of the grid
  LaneCount,   \* 32
  Shifts,      \* the arguments of __shfl_down_sync: 1, 2, 4, 8, 16
  Seeds,       \* seed_index values
  InputSeeds,  \* sequence: seed_index of each input
  LaneSamples, \* samples of one lane: 8
  MinCount,    \* T::min_count
  MaxLen       \* outputs.max_len

\* What the constants must satisfy.
WarpAssumption ==
  /\ NumWarps \in Nat \ {0} /\ LaneCount \in Nat \ {0}
  /\ Shifts \in Seq(Nat \ {0}) /\ Shifts # << >>
  /\ Shifts[1] = 1 /\ \A n \in 1..(Len(Shifts) - 1) : Shifts[n + 1] = 2 * Shifts[n]
  /\ LaneCount = 2 * Shifts[Len(Shifts)]
  /\ Seeds \subseteq Nat /\ InputSeeds \in Seq(Seeds)
  /\ LaneSamples \in Nat /\ MinCount \in Nat \ {0} /\ MaxLen \in Nat

Warps == 0..(NumWarps - 1)
Lanes == 0..(LaneCount - 1)
Inputs == 0..(Len(InputSeeds) - 1)
NoSeed == -1

VARIABLES
  low,          \* input -> lane -> low samples it has in the octaves of the input
  pc,           \* warp -> lane -> next phase
  input_index,  \* warp -> lane -> local
  oct,          \* warp -> part -> seed whose octaves it holds (s_oct0, s_oct1)
  count,        \* warp -> lane -> local_count, then total
  outputs_len,  \* *outputs.len
  outputs       \* outputs.data

outs == <<outputs_len, outputs>>
vars == <<low, pc, input_index, oct, count, outs>>

\* inputs.data[i].seed_index, whichever lane reads it and when: the inputs of
\* KernelFilter2_0A are in a buffer the kernel does not write.
seed_index(i) == InputSeeds[i + 1]

Init ==
  /\ low \in [Inputs -> [Lanes -> 0..LaneSamples]]
  /\ pc = [w \in Warps |-> [l \in Lanes |-> "loop"]]
  /\ input_index = [w \in Warps |-> [l \in Lanes |-> w]]
  /\ oct = [w \in Warps |-> [l \in Lanes |-> NoSeed]]
  /\ count = [w \in Warps |-> [l \in Lanes |-> 0]]
  /\ outputs_len = 0 /\ outputs = << >>

Goto(w, l, phase) == pc' = [pc EXCEPT ![w][l] = phase]

-----------------------------------------------------------------------------
Loop(w, l) ==
  /\ pc[w][l] = "loop"
  /\ Goto(w, l, IF input_index[w][l] < Len(InputSeeds) THEN "load" ELSE "exit")
  /\ UNCHANGED <<low, input_index, oct, count, outs>>

AfterLoad == "sync_load"

\* Words lane, lane + 32, ... of both octaves.
Load(w, l) ==
  /\ pc[w][l] = "load"
  /\ Goto(w, l, AfterLoad)
  /\ oct' = [oct EXCEPT ![w][l] = seed_index(input_index[w][l])]
  /\ UNCHANGED <<low, input_index, count, outs>>

\* The samples of a lane.  In octaves that are not all of one seed, or of
\* another seed than the input's, it may find anything.
Sample(w, l) ==
  /\ pc[w][l] = "sample"
  /\ Goto(w, l, "reduce")
  /\ LET i == input_index[w][l]
     IN  \E c \in IF \A part \in Lanes : oct[w][part] = seed_index(i)
                    THEN {low[i][l]} ELSE 0..LaneSamples :
           count' = [count EXCEPT ![w][l] = c]
  /\ UNCHANGED <<low, input_index, oct, outs>>

\* __shfl_down_sync: the value of the lane d higher up, or one's own.
ShflDown(v, d) ==
  [l \in Lanes |-> v[l] + (IF l + d \in Lanes THEN v[l + d] ELSE v[l])]

ReduceShifts == Shifts

\* warp_reduce_add before __CUDA_ARCH__ 800; lane 0 gets the sum.  (Later
\* architectures give it to every lane.)
WarpReduceAdd(v) ==
  LET added[n \in 0..Len(ReduceShifts)] ==
        IF n = 0 THEN v ELSE ShflDown(added[n - 1], ReduceShifts[n])
  IN  added[Len(ReduceShifts)]

\* The lanes meet in the reduction.
Reduce(w) ==
  /\ \A l \in Lanes : pc[w][l] = "reduce"
  /\ count' = [count EXCEPT ![w] = WarpReduceAdd(@)]
  /\ pc' = [pc EXCEPT ![w] = [l \in Lanes |-> "emit"]]
  /\ UNCHANGED <<low, input_index, oct, outs>>

Emit(w, l) ==
  /\ pc[w][l] = "emit"
  /\ Goto(w, l, "sync_end")
  /\ IF l = 0 /\ count[w][l] >= MinCount
       THEN /\ outputs_len' = outputs_len + 1
            /\ outputs' = IF outputs_len < MaxLen
                 THEN Append(outputs, input_index[w][l]) ELSE outputs
       ELSE UNCHANGED outs
  /\ UNCHANGED <<low, input_index, oct, count>>

\* __syncwarp.
syncwarp(w, point, phase) ==
  /\ \A l \in Lanes : pc[w][l] = point
  /\ pc' = [pc EXCEPT ![w] = [l \in Lanes |-> phase]]
  /\ UNCHANGED <<low, input_index, oct, count, outs>>

SyncWarp(w) == syncwarp(w, "sync_load", "sample") \/ syncwarp(w, "sync_end", "next")

NextInput(w, l) ==
  /\ pc[w][l] = "next"
  /\ Goto(w, l, "loop")
  /\ input_index' = [input_index EXCEPT ![w][l] = @ + NumWarps]
  /\ UNCHANGED <<low, oct, count, outs>>

LaneStep(w, l) ==
  Loop(w, l) \/ Load(w, l) \/ Sample(w, l) \/ Emit(w, l) \/ NextInput(w, l)

Ended == \A w \in Warps, l \in Lanes : pc[w][l] = "exit"
Done == Ended /\ UNCHANGED vars

Next ==
  \/ \E w \in Warps : SyncWarp(w) \/ Reduce(w) \/ \E l \in Lanes : LaneStep(w, l)
  \/ Done

Spec == Init /\ [][Next]_vars

-----------------------------------------------------------------------------
(***************************************************************************)
(* What the kernel promises.                                               *)
(***************************************************************************)
\* The low samples of the first n lanes of every input.
Total[n \in 0..LaneCount] ==
  [i \in Inputs |-> IF n = 0 THEN 0 ELSE Total[n - 1][i] + low[i][n - 1]]

NotAnInput == -1

Decided(i) ==
  LET w == i % NumWarps
  IN  \/ input_index[w][0] > i
      \/ input_index[w][0] = i /\ pc[w][0] \in {"sync_end", "next"}

Abstract == INSTANCE FilterKernel WITH
  Results <- Inputs,
  Rejected <- NotAnInput,
  verdict <- [i \in Inputs |-> IF Total[LaneCount][i] >= MinCount THEN i ELSE NotAnInput],
  undecided <- {i \in Inputs : ~Decided(i)},
  len <- outputs_len,
  stored <- outputs

\* Types; no lane's count exceeds the samples of an input.
TypeOK ==
  /\ low \in [Inputs -> [Lanes -> 0..LaneSamples]]
  /\ pc \in [Warps -> [Lanes -> {"loop", "load", "sync_load", "sample", "reduce",
                                 "emit", "sync_end", "next", "exit"}]]
  /\ input_index \in [Warps -> [Lanes -> Nat]]
  /\ oct \in [Warps -> [Lanes -> Seeds \cup {NoSeed}]]
  /\ count \in [Warps -> [Lanes -> 0..(LaneCount * LaneSamples)]]
  /\ outputs_len \in Nat /\ outputs \in Seq(Inputs)

\* Every input is judged once, by the samples all lanes of its warp took in
\* the octaves of its own seed, although the octaves of the next input
\* replace them in shared memory.
ImplementsFilter == Abstract!Spec
=============================================================================

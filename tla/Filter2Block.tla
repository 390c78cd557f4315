---------------------------- MODULE Filter2Block ----------------------------
(***************************************************************************)
(* The blocks of KernelFilter2::kernel (gpu.cu): the warps of a block      *)
(* count the low samples of their input in shared memory, which is used    *)
(* again for the next input, with __syncthreads between the phases.        *)
(*                                                                         *)
(* A warp is a thread of the model: its lanes meet in warp_reduce_add.     *)
(* `share' says what a warp's own samples contribute to its input: how     *)
(* many are low, and the sum of their distances from the input's position  *)
(* (one coordinate; the other is handled alike).  The template is taken    *)
(* with samples > 32, as all its instances have it.                        *)
(***************************************************************************)
EXTENDS Integers, Sequences

CONSTANTS
  GridDim,         \* blocks
  InputsPerBlock,  \* T::inputs_per_block
  WarpsPerInput,   \* T::threads_per_input / 32
  InputsLen,       \* *inputs.len
  MinCount,        \* T::min_count
  MoveCenter,      \* T::move_center
  MaxLen,          \* outputs.max_len
  WarpSamples,     \* samples of one warp: 32 * T::loops
  Shares           \* contributions a warp can make

\* What the constants must satisfy.
BlockAssumption ==
  /\ GridDim \in Nat \ {0} /\ InputsPerBlock \in Nat \ {0}
  /\ WarpsPerInput \in Nat \ {0} /\ InputsLen \in Nat
  /\ MinCount \in Nat \ {0} /\ MoveCenter \in BOOLEAN /\ MaxLen \in Nat
  /\ WarpSamples \in Nat /\ Shares \subseteq [low : 0..WarpSamples, dx : Int]

Blocks == 0..(GridDim - 1)
Slots == 0..(InputsPerBlock - 1)
Warps == 0..(InputsPerBlock * WarpsPerInput - 1)
Inputs == 0..(InputsLen - 1)

VARIABLES
  share,          \* input -> warp of the input -> what it finds
  pc,             \* block -> warp -> next phase
  base,           \* block -> warp -> block_input_base
  total_valid,    \* block -> warp -> local
  sum_dx,         \* block -> warp -> local
  shared_counts,  \* block -> slot
  shared_sums,    \* block -> slot
  outputs_len,    \* *outputs.len
  outputs         \* outputs.data

locals == <<base, total_valid, sum_dx>>
shared == <<shared_counts, shared_sums>>
outs == <<outputs_len, outputs>>
vars == <<share, pc, locals, shared, outs>>

-----------------------------------------------------------------------------
block_input_index(w) == w \div WarpsPerInput
input_index(b, w) == base[b][w] + block_input_index(w)
is_valid_input(b, w) == input_index(b, w) < InputsLen
OwnShare(b, w) == share[input_index(b, w)][w % WarpsPerInput]

\* Division of C: towards zero.
Quotient(a, n) == IF a >= 0 THEN a \div n ELSE -((-a) \div n)

Update(f, b, w, v) == [f EXCEPT ![b][w] = v]
Goto(b, w, phase) == pc' = Update(pc, b, w, phase)

SyncPoints == {"sync_reset", "sync_counts", "sync_sums", "sync_end"}

Init ==
  /\ share \in [Inputs -> [0..(WarpsPerInput - 1) -> Shares]]
  /\ pc = [b \in Blocks |-> [w \in Warps |-> "loop"]]
  /\ base = [b \in Blocks |-> [w \in Warps |-> b * InputsPerBlock]]
  /\ total_valid = [b \in Blocks |-> [w \in Warps |-> 0]]
  /\ sum_dx = [b \in Blocks |-> [w \in Warps |-> 0]]
  /\ shared_counts = [b \in Blocks |-> [s \in Slots |-> 0]]
  /\ shared_sums = [b \in Blocks |-> [s \in Slots |-> 0]]
  /\ outputs_len = 0 /\ outputs = << >>

-----------------------------------------------------------------------------
(***************************************************************************)
(* Faulty variants of the operations below, each with one plausible slip,  *)
(* to show that the properties can fail.  No specification uses them.      *)
(***************************************************************************)
\* The loop ends for a warp whose own input does not exist.
LoopOwn(b, w) ==
  /\ pc[b][w] = "loop"
  /\ Goto(b, w, IF is_valid_input(b, w) THEN "reset" ELSE "exit")
  /\ UNCHANGED <<share, locals, shared, outs>>

\* The counters are not reset.
ResetNothing(b, w) ==
  /\ pc[b][w] = "reset"
  /\ Goto(b, w, "sync_reset")
  /\ total_valid' = Update(total_valid, b, w, 0)
  /\ sum_dx' = Update(sum_dx, b, w, 0)
  /\ UNCHANGED <<share, base, shared, outs>>

\* No barrier at the end of the loop.
AfterEmitNoSync == "next"

-----------------------------------------------------------------------------
(***************************************************************************)
(* The phases of a warp.                                                   *)
(***************************************************************************)
\* The loop condition, the same for all warps of a block.
Loop(b, w) ==
  /\ pc[b][w] = "loop"
  /\ Goto(b, w, IF base[b][w] < InputsLen THEN "reset" ELSE "exit")
  /\ UNCHANGED <<share, locals, shared, outs>>

\* Threads below inputs_per_block, all of warp 0, reset the shared counters;
\* every thread resets its own.
Reset(b, w) ==
  /\ pc[b][w] = "reset"
  /\ Goto(b, w, "sync_reset")
  /\ total_valid' = Update(total_valid, b, w, 0)
  /\ sum_dx' = Update(sum_dx, b, w, 0)
  /\ IF w = 0
       THEN /\ shared_counts' = [shared_counts EXCEPT ![b] = [s \in Slots |-> 0]]
            /\ shared_sums' = IF MoveCenter
                 THEN [shared_sums EXCEPT ![b] = [s \in Slots |-> 0]] ELSE shared_sums
       ELSE UNCHANGED shared
  /\ UNCHANGED <<share, base, outs>>

\* The samples of the warp, and the atomicAdd of its count.
Sample(b, w) ==
  /\ pc[b][w] = "sample"
  /\ Goto(b, w, "sync_counts")
  /\ IF is_valid_input(b, w)
       THEN /\ sum_dx' = Update(sum_dx, b, w, OwnShare(b, w).dx)
            /\ shared_counts' =
                 [shared_counts EXCEPT ![b][block_input_index(w)] = @ + OwnShare(b, w).low]
       ELSE UNCHANGED <<sum_dx, shared_counts>>
  /\ UNCHANGED <<share, base, total_valid, shared_sums, outs>>

ReadCount(b, w) ==
  /\ pc[b][w] = "read_count"
  /\ Goto(b, w, IF MoveCenter THEN "add_sums" ELSE "emit")
  /\ total_valid' = IF is_valid_input(b, w)
       THEN Update(total_valid, b, w, shared_counts[b][block_input_index(w)])
       ELSE total_valid
  /\ UNCHANGED <<share, base, sum_dx, shared, outs>>

AddSums(b, w) ==
  /\ pc[b][w] = "add_sums"
  /\ Goto(b, w, "sync_sums")
  /\ shared_sums' = IF is_valid_input(b, w)
       THEN [shared_sums EXCEPT ![b][block_input_index(w)] = @ + sum_dx[b][w]]
       ELSE shared_sums
  /\ UNCHANGED <<share, locals, shared_counts, outs>>

ReadSums(b, w) ==
  /\ pc[b][w] = "read_sums"
  /\ Goto(b, w, "emit")
  /\ sum_dx' = IF is_valid_input(b, w)
       THEN LET sum == shared_sums[b][block_input_index(w)]
            IN  Update(sum_dx, b, w,
                  IF total_valid[b][w] # 0 THEN Quotient(sum, total_valid[b][w]) ELSE sum)
       ELSE sum_dx
  /\ UNCHANGED <<share, base, total_valid, shared, outs>>

AfterEmit == "sync_end"

\* The thread with pos_index 0 appends the input, moved to the centre of its
\* low samples.
Emit(b, w) ==
  /\ pc[b][w] = "emit"
  /\ Goto(b, w, AfterEmit)
  /\ IF /\ is_valid_input(b, w) /\ total_valid[b][w] >= MinCount
        /\ w % WarpsPerInput = 0
       THEN /\ outputs_len' = outputs_len + 1
            /\ outputs' = IF outputs_len < MaxLen
                 THEN Append(outputs, [input |-> input_index(b, w),
                                       moved |-> IF MoveCenter THEN sum_dx[b][w] ELSE 0])
                 ELSE outputs
       ELSE UNCHANGED outs
  /\ UNCHANGED <<share, locals, shared>>

Stride(b) == GridDim * InputsPerBlock

NextInputs(b, w) ==
  /\ pc[b][w] = "next"
  /\ Goto(b, w, "loop")
  /\ base' = Update(base, b, w, base[b][w] + Stride(b))
  /\ UNCHANGED <<share, total_valid, sum_dx, shared, outs>>

\* __syncthreads opens when every warp of the block that has not returned
\* waits, wherever in the code that is.
syncthreads(b) ==
  /\ \A w \in Warps : pc[b][w] \in SyncPoints \cup {"exit"}
  /\ \E w \in Warps : pc[b][w] # "exit"
  /\ pc' = [pc EXCEPT ![b] = [w \in Warps |->
       CASE @[w] = "sync_reset" -> "sample"
         [] @[w] = "sync_counts" -> "read_count"
         [] @[w] = "sync_sums" -> "read_sums"
         [] @[w] = "sync_end" -> "next"
         [] @[w] = "exit" -> "exit"]]
  /\ UNCHANGED <<share, locals, shared, outs>>

WarpStep(b, w) ==
  \/ Loop(b, w) \/ Reset(b, w) \/ Sample(b, w) \/ ReadCount(b, w)
  \/ AddSums(b, w) \/ ReadSums(b, w) \/ Emit(b, w) \/ NextInputs(b, w)

\* The kernel has ended.
Ended == \A b \in Blocks, w \in Warps : pc[b][w] = "exit"
Done == Ended /\ UNCHANGED vars

Next ==
  \/ \E b \in Blocks : syncthreads(b) \/ \E w \in Warps : WarpStep(b, w)
  \/ Done

Spec == Init /\ [][Next]_vars

-----------------------------------------------------------------------------
(***************************************************************************)
(* What the kernel promises.                                               *)
(***************************************************************************)
\* What the samples of the first n warps of an input make of it.
Total[n \in 0..WarpsPerInput] ==
  IF n = 0 THEN [i \in Inputs |-> [low |-> 0, dx |-> 0]]
  ELSE [i \in Inputs |->
          [low |-> Total[n - 1][i].low + share[i][n - 1].low,
           dx |-> Total[n - 1][i].dx + share[i][n - 1].dx]]

NotAnInput == [input |-> -1, moved |-> 0]

Verdict(i) ==
  LET t == Total[WarpsPerInput][i]
  IN  IF t.low < MinCount THEN NotAnInput
      ELSE [input |-> i, moved |-> IF MoveCenter THEN Quotient(t.dx, t.low) ELSE 0]

\* Block and leading warp of an input, and whether that warp is past Emit.
Decided(i) ==
  LET b == (i \div InputsPerBlock) % GridDim
      w == (i % InputsPerBlock) * WarpsPerInput
      first == i - (i % InputsPerBlock)
  IN  base[b][w] > first \/ (base[b][w] = first /\ pc[b][w] \in {"sync_end", "next"})

Abstract == INSTANCE FilterKernel WITH
  Results <- [input : Inputs, moved : Int],
  Rejected <- NotAnInput,
  verdict <- [i \in Inputs |-> Verdict(i)],
  undecided <- {i \in Inputs : ~Decided(i)},
  len <- outputs_len,
  stored <- outputs

\* Types; a shared counter never holds more than the samples of one input.
TypeOK ==
  /\ share \in [Inputs -> [0..(WarpsPerInput - 1) -> Shares]]
  /\ pc \in [Blocks -> [Warps -> SyncPoints \cup
       {"loop", "reset", "sample", "read_count", "add_sums", "read_sums", "emit",
        "next", "exit"}]]
  /\ base \in [Blocks -> [Warps -> Nat]]
  /\ total_valid \in [Blocks -> [Warps -> 0..(WarpsPerInput * WarpSamples)]]
  /\ sum_dx \in [Blocks -> [Warps -> Int]]
  /\ shared_counts \in [Blocks -> [Slots -> 0..(WarpsPerInput * WarpSamples)]]
  /\ shared_sums \in [Blocks -> [Slots -> Int]]
  /\ outputs_len \in Nat
  /\ outputs \in Seq([input : Inputs, moved : Int])

\* Every input is judged once, by the low samples of all its warps and by
\* nobody else's, although the counters of the block are used again for the
\* next input; what passes is appended at the centre of its own samples.
ImplementsFilter == Abstract!Spec

\* The warps of a block meet at the same __syncthreads: none waits at one
\* while another has returned or waits at a different one, also when only
\* some slots of the last round have an input.
UniformBarriers ==
  \A b \in Blocks :
    (\A w \in Warps : pc[b][w] \in SyncPoints \cup {"exit"}) =>
      \A v, w \in Warps : pc[b][v] = pc[b][w]
=============================================================================

------------------------------ MODULE SeedInit ------------------------------
(***************************************************************************)
(* One block of KernelSeed1::kernel (gpu.cu): for each of the first        *)
(* octaves, every thread makes the noise of its seed in shared memory,     *)
(* and then all threads together copy the block's noises to the results,   *)
(* word by word in strides of the block, between two barriers.             *)
(*                                                                         *)
(* A word of a noise is named by the seed and octave it belongs to; what   *)
(* init_noise computes is in modules Xrsr and Shuffle.                     *)
(***************************************************************************)
EXTENDS Integers, FiniteSets

CONSTANTS
  threads_per_block,
  u4_per_struct,   \* words of an ImprovedNoise
  block_base,      \* index of the block's first seed
  InputLens,       \* values of *input.len
  Octaves          \* number of octaves initialised

\* What the constants must satisfy.
BlockAssumption ==
  /\ threads_per_block \in Nat \ {0} /\ u4_per_struct \in Nat \ {0}
  /\ block_base \in Nat /\ InputLens \subseteq Nat /\ Octaves \in Nat

Threads == 0..(threads_per_block - 1)
Words == 0..(u4_per_struct - 1)
Inputs == 0..(block_base + threads_per_block)
Nothing == <<>>

VARIABLES
  input_len,
  pc,       \* "init", "sync", "copy", "sync_again", "end"
  octave,   \* octave a thread is at
  i,        \* index of a thread in the copy
  shared_noise,  \* thread -> word -> content
  results   \* input -> octave -> word -> content

vars == <<input_len, pc, octave, i, shared_noise, results>>

-----------------------------------------------------------------------------
(***************************************************************************)
(* Faulty variants of the operations below, each with one plausible slip,  *)
(* to show that the properties can fail.  No specification uses them.      *)
(***************************************************************************)
\* There is no barrier after the copy.
AfterCopyNoSync(t) ==
  IF octave[t] + 1 < Octaves
    THEN pc' = [pc EXCEPT ![t] = "init"] /\ octave' = [octave EXCEPT ![t] = @ + 1]
    ELSE pc' = [pc EXCEPT ![t] = "end"] /\ UNCHANGED octave

\* A thread without a seed returns.
ReturnsAlone(t) == block_base + t >= input_len

-----------------------------------------------------------------------------
\* A block without seeds returns as a whole.
Returns(t) == block_base >= input_len

active(t) == block_base + t < input_len

Init ==
  /\ input_len \in InputLens
  /\ pc = [t \in Threads |-> IF Returns(t) THEN "end" ELSE "init"]
  /\ octave = [t \in Threads |-> 0]
  /\ i = [t \in Threads |-> t]
  /\ shared_noise = [t \in Threads |-> [w \in Words |-> Nothing]]
  /\ results = [k \in Inputs |-> [o \in 0..(Octaves - 1) |-> [w \in Words |-> Nothing]]]

\* init_noise, by the threads that have a seed.
InitNoise(t) ==
  /\ pc[t] = "init" /\ pc' = [pc EXCEPT ![t] = "sync"]
  /\ shared_noise' = IF active(t)
       THEN [shared_noise EXCEPT ![t] = [w \in Words |-> <<block_base + t, octave[t]>>]]
       ELSE shared_noise
  /\ UNCHANGED <<input_len, octave, i, results>>

\* __syncthreads: all threads of the block that have not exited have arrived.
Arrived(at) ==
  (\E t \in Threads : pc[t] = at) /\ \A t \in Threads : pc[t] \in {at, "end"}

Sync ==
  /\ Arrived("sync")
  /\ pc' = [t \in Threads |-> IF pc[t] = "end" THEN "end" ELSE "copy"]
  /\ i' = [t \in Threads |-> t]
  /\ UNCHANGED <<input_len, octave, shared_noise, results>>

InInput(k) == block_base + k < input_len

\* One round of the loop of copy_noise.
CopyWord(t) ==
  LET k == i[t] \div u4_per_struct
      w == i[t] % u4_per_struct
  IN  /\ pc[t] = "copy" /\ i[t] < threads_per_block * u4_per_struct
      /\ results' = IF InInput(k)
           THEN [results EXCEPT ![block_base + k][octave[t]][w] = shared_noise[k][w]]
           ELSE results
      /\ i' = [i EXCEPT ![t] = @ + threads_per_block]
      /\ UNCHANGED <<input_len, pc, octave, shared_noise>>

AfterCopy(t) == pc' = [pc EXCEPT ![t] = "sync_again"] /\ UNCHANGED octave

CopyEnds(t) ==
  /\ pc[t] = "copy" /\ i[t] >= threads_per_block * u4_per_struct
  /\ AfterCopy(t)
  /\ UNCHANGED <<input_len, i, shared_noise, results>>

\* The next octave, or the end.
SyncAgain ==
  /\ Arrived("sync_again")
  /\ LET more(t) == pc[t] # "end" /\ octave[t] + 1 < Octaves
     IN  /\ pc' = [t \in Threads |-> IF more(t) THEN "init" ELSE "end"]
         /\ octave' = [t \in Threads |-> IF more(t) THEN octave[t] + 1 ELSE octave[t]]
  /\ UNCHANGED <<input_len, i, shared_noise, results>>

Ended == \A t \in Threads : pc[t] = "end"
Done == Ended /\ UNCHANGED vars

Next ==
  \/ \E t \in Threads : InitNoise(t) \/ CopyWord(t) \/ CopyEnds(t)
  \/ Sync \/ SyncAgain \/ Done

Spec == Init /\ [][Next]_vars /\ WF_vars(Next)

-----------------------------------------------------------------------------
\* A word of the results is nothing, or of its own seed and octave: no thread
\* copies a noise that another has not finished or has begun to overwrite.
\* Entries behind the input are left alone.
OwnNoise ==
  \A k \in Inputs, o \in 0..(Octaves - 1), w \in Words :
    \/ results[k][o][w] = Nothing
    \/ results[k][o][w] = <<k, o>> /\ k - block_base \in Threads /\ k < input_len

\* The block has ended, with all words of all octaves of its seeds.
Complete ==
  /\ Ended
  /\ \A k \in Inputs, o \in 0..(Octaves - 1), w \in Words :
       k - block_base \in Threads /\ k < input_len => results[k][o][w] = <<k, o>>
=============================================================================

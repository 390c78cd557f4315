---------------------------- MODULE FilterKernel ----------------------------
(***************************************************************************)
(* What a filter kernel of gpu.cu promises, whatever its blocks, warps and *)
(* lanes do: each of its items is judged once, on its own evidence, and    *)
(* what passes is appended to an OutputBuffer: the length is incremented,  *)
(* the result stored if there is room.  GpuBatch takes one item as one     *)
(* step because its kernels implement this.                                *)
(***************************************************************************)
EXTENDS Naturals, Sequences

CONSTANTS
  Results,    \* what can be appended
  Rejected,   \* the verdict on an item that does not pass
  MaxLen      \* OutputBuffer::max_len

VARIABLES
  verdict,    \* item -> what the kernel should make of it; never changes
  undecided,  \* items not judged yet
  len,        \* *outputs.len
  stored      \* outputs.data

vars == <<verdict, undecided, len, stored>>

Init ==
  /\ \A i \in DOMAIN verdict : verdict[i] \in Results \cup {Rejected}
  /\ undecided = DOMAIN verdict
  /\ len = 0 /\ stored = << >>

Decide(i) ==
  /\ i \in undecided
  /\ undecided' = undecided \ {i}
  /\ IF verdict[i] = Rejected
       THEN UNCHANGED <<len, stored>>
       ELSE /\ len' = len + 1
            /\ stored' = IF len < MaxLen THEN Append(stored, verdict[i]) ELSE stored
  /\ UNCHANGED verdict

Next == \E i \in undecided : Decide(i)

Spec == Init /\ [][Next]_vars
=============================================================================

--------------------------- MODULE LatticeWindow ----------------------------
(***************************************************************************)
(* How a thread of KernelFilterGradVecs1::kernel walks along a row of the  *)
(* noise lattice (gpu.cu): the hashes of 256 columns lie in idx_xy, with   *)
(* the first few repeated behind the last; the thread reads them four at a *)
(* time, keeps eight of the sixteen it holds for the next eight            *)
(* candidates, and gives each candidate a window of six columns.           *)
(*                                                                         *)
(* Real sizes.  A hash is represented by the column it was computed for.   *)
(***************************************************************************)
EXTENDS Integers, Sequences

CONSTANT Rows  \* threads (nz) of the block that are looked at

\* What the constants must satisfy.
RowAssumption == Rows \subseteq 0..255

Unwritten == -1
NoTable == -2

VARIABLES
  nz,          \* threadIdx.x
  nx,          \* columns done
  c0_0, c0_1,  \* registers kept from one iteration to the next
  lookups      \* candidate -> rows of conv_z0 its score reads, one per column

vars == <<nz, nx, c0_0, c0_1, lookups>>

-----------------------------------------------------------------------------
(***************************************************************************)
(* Faulty variants of the operations below, each with one plausible slip,  *)
(* to show that the properties can fail.  No specification uses them.      *)
(***************************************************************************)
\* Too few columns are repeated.
RepeatedShort == 4

-----------------------------------------------------------------------------
\* Threads with nz < 6 store their column a second time.
Repeated == 6

\* idx_xy[0] after the barrier.
idx_xy(k) ==
  IF k < 256 THEN k ELSE IF k < 256 + Repeated THEN k - 256 ELSE Unwritten

\* A uchar4 load.
uchar4(k) == <<idx_xy(k), idx_xy(k + 1), idx_xy(k + 2), idx_xy(k + 3)>>

\* Row of conv_z0 for a hash: conv_z0[nz + 256] repeats conv_z0[nz].  512 is
\* never written.
ConvRow(hash) ==
  IF hash = Unwritten \/ hash + nz > 511 THEN NoTable ELSE (hash + nz) % 256

Init ==
  /\ nz \in Rows /\ nx = 0
  /\ c0_0 = uchar4(0) /\ c0_1 = uchar4(4)
  /\ lookups = << >>

\* c0_0 = c0_2.
Kept(c0_2, c0_3) == c0_2

\* One iteration: eight candidates.
Walk ==
  LET c0_2 == uchar4(nx + 8)
      c0_3 == uchar4(nx + 12)
      w0 == c0_0 \o c0_1 \o c0_2 \o <<c0_3[1]>>
  IN  /\ nx < 256 /\ nx' = nx + 8
      /\ lookups' = [candidate \in 1..8 |-> [n \in 1..6 |-> ConvRow(w0[candidate + n - 1])]]
      /\ c0_0' = Kept(c0_2, c0_3) /\ c0_1' = c0_3
      /\ UNCHANGED nz

Done == nx = 256 /\ UNCHANGED vars

Next == Walk \/ Done

Spec == Init /\ [][Next]_vars

-----------------------------------------------------------------------------
\* The candidate at column c reads the table rows of columns c to c + 5 of
\* its own lattice row, wrapping around after column 255: what was loaded
\* past the last column written is never used, and no register is an
\* iteration old.
OwnWindow ==
  nx > 0 =>
    \A candidate \in 1..8, n \in 1..6 :
      lookups[candidate][n] = (((nx - 8 + candidate - 1 + n - 1) % 256) + nz) % 256
=============================================================================

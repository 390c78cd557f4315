------------------------------- MODULE Shuffle -------------------------------
(***************************************************************************)
(* The shuffle of init_noise (gpu.cu) with XrsrRandom::nextInt (Random.h): *)
(* numbers below the bound by multiplication, where draws that would make  *)
(* some numbers more likely than others are rejected.                      *)
(*                                                                         *)
(* A draw is any word of Bits bits (32 in the code).                       *)
(***************************************************************************)
EXTENDS Integers, FiniteSets, Functions

CONSTANTS
  Bits,   \* 32
  N       \* entries of the permutation, 256

Size == 2^Bits
Draws == 0..(Size - 1)

\* What the constants must satisfy.
ShuffleAssumption == Bits \in Nat /\ N \in 1..Size

VARIABLES
  i,      \* position to fill
  p       \* the table

vars == <<i, p>>

-----------------------------------------------------------------------------
(***************************************************************************)
(* Faulty variants of the operations below, each with one plausible slip,  *)
(* to show that the properties can fail.  No specification uses them.      *)
(***************************************************************************)
\* No draw is rejected.
RejectedNever(l, bound) == FALSE

-----------------------------------------------------------------------------
\* n, and o, of a draw l.
Low(l, bound) == (l * bound) % Size
High(l, bound) == (l * bound) \div Size

\* The loop of nextInt draws again.
Rejected(l, bound) == Low(l, bound) < bound /\ Low(l, bound) < (Size - bound) % bound

bound == N - i

Init == i = 0 /\ p = [k \in 0..(N - 1) |-> k]

Swapped(q, a, b) == [q EXCEPT ![a] = q[b], ![b] = q[a]]

\* A rejected draw changes nothing but the generator.
Swap(l) ==
  /\ i < N /\ ~Rejected(l, bound)
  /\ p' = Swapped(p, i, i + High(l, bound))
  /\ i' = i + 1

Done == i = N /\ UNCHANGED vars

Next == (\E l \in Draws : Swap(l)) \/ Done

Spec == Init /\ [][Next]_vars

-----------------------------------------------------------------------------
\* The table stays a permutation: every byte value is in it once, as the
\* gradient filters assume.
TableIsPermutation == p \in Bijection(0..(N - 1), 0..(N - 1))

\* Every entry is equally likely to be the next: as many draws that are not
\* rejected lead to each index below the bound, and none to another.
DrawsUniform ==
  i < N =>
    LET Kept == {l \in Draws : ~Rejected(l, bound)}
        Leading(o) == {l \in Kept : High(l, bound) = o}
    IN  /\ \A l \in Kept : High(l, bound) < bound
        /\ \A o \in 0..(bound - 1) :
             Cardinality(Leading(o)) > 0 /\ Cardinality(Leading(o)) = Cardinality(Leading(0))
=============================================================================

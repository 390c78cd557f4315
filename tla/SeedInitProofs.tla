--------------------------- MODULE SeedInitProofs ---------------------------
(***************************************************************************)
(* Proofs about KernelSeed1: about SeedInit, for any size of the block and *)
(* of a noise, any number of octaves and any input length, and about the   *)
(* table that each call of init_noise shuffles (Shuffle).                  *)
(***************************************************************************)
EXTENDS SeedInit, CountingLemmas

Contents == {Nothing} \cup (Nat \X Nat)

Type ==
  /\ input_len \in Nat
  /\ pc \in [Threads -> {"init", "sync", "copy", "sync_again", "end"}]
  /\ octave \in [Threads -> Nat]
  /\ i \in [Threads -> Nat]
  /\ shared_noise \in [Threads -> [Words -> Contents]]
  /\ results \in [Inputs -> [0..(Octaves - 1) -> [Words -> Contents]]]

\* Between two barriers all threads of the block are in the same part of
\* init_octave, for the same octave.
Together ==
  /\ \A s, t \in Threads : octave[s] = octave[t]
  /\ \/ \A t \in Threads : pc[t] \in {"init", "sync"}
     \/ \A t \in Threads : pc[t] \in {"copy", "sync_again"}
     \/ \A t \in Threads : pc[t] = "end"

\* A thread that has left init_noise has its seed's noise in shared memory.
Filled ==
  \A t \in Threads, w \in Words :
    active(t) /\ pc[t] \in {"sync", "copy", "sync_again"} =>
      shared_noise[t][w] = <<block_base + t, octave[t]>>

IInv == Type /\ Together /\ Filled /\ OwnNoise

\* A word of the flat shared array lies in the noise of one of the threads.
LEMMA StructOfWord ==
  ASSUME BlockAssumption, NEW n \in Nat, n < threads_per_block * u4_per_struct
  PROVE  n \div u4_per_struct \in Threads /\ n % u4_per_struct \in Words
<1> DEFINE q == n \div u4_per_struct
           r == n % u4_per_struct
<1>1. q \in Nat /\ r \in Words
  BY DEF BlockAssumption, Words
<1>2. n = u4_per_struct * q + r /\ r >= 0
  BY DEF BlockAssumption, Words
<1> HIDE DEF q, r
<1>3. u4_per_struct * q <= n
  BY <1>1, <1>2 DEF BlockAssumption, Words
<1>4. ~(q >= threads_per_block)
  <2> SUFFICES ASSUME q >= threads_per_block PROVE FALSE
    OBVIOUS
  <2>1. u4_per_struct * q >= u4_per_struct * threads_per_block
    BY <1>1 DEF BlockAssumption
  <2> QED
    BY <2>1, <1>1, <1>3 DEF BlockAssumption
<1>5. q \in Threads
  BY <1>1, <1>4 DEF BlockAssumption, Threads
<1> QED
  BY <1>1, <1>5 DEF q, r

LEMMA InitIInv ==
  ASSUME BlockAssumption, Init
  PROVE  IInv
<1> USE DEF BlockAssumption, Init
<1>1. Type
  BY DEF Type, Contents, Returns, Threads
<1>2. Together
  BY DEF Together, Returns
<1>3. Filled
  BY DEF Filled
<1>4. OwnNoise
  BY DEF OwnNoise
<1> QED
  BY <1>1, <1>2, <1>3, <1>4 DEF IInv

LEMMA InitNoiseIInv ==
  ASSUME BlockAssumption, IInv, NEW t \in Threads, InitNoise(t)
  PROVE  IInv'
<1> USE DEF BlockAssumption, IInv, InitNoise
<1>1. Type'
  <2>1. [w \in Words |-> <<block_base + t, octave[t]>>] \in [Words -> Contents]
    BY DEF Type, Contents, Threads
  <2> QED
    BY <2>1 DEF Type
<1>2. Together'
  <2>1. \A s \in Threads : pc[s] \in {"init", "sync"}
    BY DEF Together, Type
  <2>2. \A s \in Threads : pc'[s] \in {"init", "sync"}
    BY <2>1 DEF Type
  <2> QED
    BY <2>2 DEF Together
<1>3. Filled'
  BY DEF Filled, Type, active
<1>4. OwnNoise'
  BY DEF OwnNoise
<1> QED
  BY <1>1, <1>2, <1>3, <1>4

LEMMA CopyWordIInv ==
  ASSUME BlockAssumption, IInv, NEW t \in Threads, CopyWord(t)
  PROVE  IInv'
<1> DEFINE k == i[t] \div u4_per_struct
           v == i[t] % u4_per_struct
<1> USE DEF BlockAssumption, IInv
<1>1. k \in Threads /\ v \in Words
  BY StructOfWord DEF CopyWord, Type
<1>2. /\ results' = IF InInput(k)
           THEN [results EXCEPT ![block_base + k][octave[t]][v] = shared_noise[k][v]]
           ELSE results
      /\ i' = [i EXCEPT ![t] = @ + threads_per_block]
      /\ UNCHANGED <<input_len, pc, octave, shared_noise>>
      /\ pc[t] = "copy"
  BY DEF CopyWord
<1> HIDE DEF k, v
<1>3. shared_noise[k][v] \in Contents /\ block_base + k \in Inputs
  BY <1>1 DEF Type, Inputs, Threads
<1>4. Type'
  <2>1. results' \in [Inputs -> [0..(Octaves - 1) -> [Words -> Contents]]]
    <3> DEFINE Noises == [0..(Octaves - 1) -> [Words -> Contents]]
               word == [results[block_base + k][octave[t]] EXCEPT ![v] = shared_noise[k][v]]
               noise == [results[block_base + k] EXCEPT ![octave[t]] = word]
    <3>1. results \in [Inputs -> Noises] /\ results[block_base + k] \in Noises
      BY <1>3 DEF Type
    <3>2. octave[t] \in 0..(Octaves - 1) => word \in [Words -> Contents]
      BY <1>3, <3>1
    <3>3. noise \in Noises
      <4> HIDE DEF word
      <4> QED  BY <3>1, <3>2
    <3>4. InInput(k) => results' = [results EXCEPT ![block_base + k] = noise]
      BY <1>2
    <3>5. ~InInput(k) => results' = results
      BY <1>2
    <3> HIDE DEF Noises, noise
    <3> QED
      BY <1>3, <3>1, <3>3, <3>4, <3>5 DEF Noises
  <2> QED
    BY <1>2, <2>1 DEF Type
<1>5. Together'
  BY <1>2 DEF Together
<1>6. Filled'
  BY <1>2 DEF Filled, active
<1>7. InInput(k) => shared_noise[k][v] = <<block_base + k, octave[t]>>
  <2>1. pc[k] \in {"copy", "sync_again"} /\ octave[k] = octave[t]
    BY <1>1, <1>2 DEF Together
  <2> QED
    BY <1>1, <2>1 DEF Filled, active, InInput
<1>8. OwnNoise'
  <2> SUFFICES ASSUME NEW n \in Inputs, NEW o \in 0..(Octaves - 1), NEW w \in Words
               PROVE  \/ results'[n][o][w] = Nothing
                      \/ /\ results'[n][o][w] = <<n, o>>
                         /\ n - block_base \in Threads /\ n < input_len
    BY <1>2 DEF OwnNoise
  <2>1. CASE InInput(k) /\ n = block_base + k /\ o = octave[t] /\ w = v
    <3>1. results'[n][o][w] = shared_noise[k][v]
      BY <1>2, <1>3, <2>1 DEF Type
    <3>2. n - block_base \in Threads /\ n < input_len
      BY <1>1, <2>1 DEF InInput, Threads, Type
    <3> QED
      BY <1>7, <2>1, <3>1, <3>2
  <2>2. CASE ~(InInput(k) /\ n = block_base + k /\ o = octave[t] /\ w = v)
    <3>1. results'[n][o][w] = results[n][o][w]
      BY <1>2, <2>2 DEF Type
    <3> QED
      BY <3>1 DEF OwnNoise
  <2> QED
    BY <2>1, <2>2
<1> QED
  BY <1>4, <1>5, <1>6, <1>8

LEMMA CopyEndsIInv ==
  ASSUME BlockAssumption, IInv, NEW t \in Threads, CopyEnds(t)
  PROVE  IInv'
<1> USE DEF BlockAssumption, IInv, CopyEnds, AfterCopy
<1>1. Type'
  BY DEF Type
<1>2. Together'
  <2>1. \A s \in Threads : pc[s] \in {"copy", "sync_again"}
    BY DEF Together
  <2>2. \A s \in Threads : pc'[s] \in {"copy", "sync_again"}
    BY <2>1 DEF Type
  <2> QED
    BY <2>2 DEF Together
<1>3. Filled'
  BY DEF Filled, Type, active
<1>4. OwnNoise'
  BY DEF OwnNoise
<1> QED
  BY <1>1, <1>2, <1>3, <1>4

\* The barriers: all threads go on at once.
LEMMA SyncIInv ==
  ASSUME BlockAssumption, IInv, Sync \/ SyncAgain
  PROVE  IInv'
<1>0. ASSUME NEW at \in {"sync", "sync_again"}, Arrived(at)
      PROVE  \A t \in Threads : pc[t] = at
  BY <1>0 DEF Arrived, IInv, Together
<1> USE DEF BlockAssumption, IInv
<1>1. CASE Sync
  <2>0. /\ \A t \in Threads : pc[t] = "sync"
        /\ pc' = [t \in Threads |-> "copy"]
        /\ i' = [t \in Threads |-> t]
        /\ UNCHANGED <<input_len, octave, shared_noise, results>>
    <3>1. \A t \in Threads : pc[t] = "sync" BY <1>0, <1>1 DEF Sync
    <3>2. pc' = [t \in Threads |-> IF pc[t] = "end" THEN "end" ELSE "copy"]
      BY <1>1 DEF Sync
    <3> QED BY <1>1, <3>1, <3>2 DEF Sync
  <2>1. Type'
    BY <2>0 DEF Type, Threads
  <2>2. Together'
    BY <2>0 DEF Together
  <2>3. Filled'
    BY <2>0 DEF Filled, active
  <2>4. OwnNoise'
    BY <2>0 DEF OwnNoise
  <2> QED
    BY <2>1, <2>2, <2>3, <2>4
<1>2. CASE SyncAgain
  <2> DEFINE more == \A t \in Threads : octave[t] + 1 < Octaves
  <2>1. /\ pc' = [t \in Threads |-> IF more THEN "init" ELSE "end"]
        /\ octave' = [t \in Threads |-> IF more THEN octave[t] + 1 ELSE octave[t]]
        /\ UNCHANGED <<input_len, i, shared_noise, results>>
    <3>1. \A t \in Threads : pc[t] = "sync_again" BY <1>0, <1>2 DEF SyncAgain
    <3>2. \A t \in Threads : octave[t] + 1 < Octaves <=> more BY DEF Together
    <3> HIDE DEF more
    <3> QED BY <1>2, <3>1, <3>2 DEF SyncAgain
  <2> HIDE DEF more
  <2>2. Type'
    BY <2>1 DEF Type
  <2>3. Together'
    BY <2>1 DEF Together
  <2>4. Filled'
    BY <2>1 DEF Filled
  <2>5. OwnNoise'
    BY <2>1 DEF OwnNoise
  <2> QED
    BY <2>2, <2>3, <2>4, <2>5
<1> QED
  BY <1>1, <1>2

LEMMA NextIInv ==
  ASSUME BlockAssumption, IInv, [Next]_vars
  PROVE  IInv'
<1>1. CASE UNCHANGED vars
  <2>1. Type' /\ Together'
    BY <1>1 DEF IInv, vars, Type, Together
  <2>2. Filled' /\ OwnNoise'
    BY <1>1 DEF IInv, vars, Filled, OwnNoise, active
  <2> QED
    BY <2>1, <2>2 DEF IInv
<1>2. ASSUME NEW t \in Threads, InitNoise(t) \/ CopyWord(t) \/ CopyEnds(t)
      PROVE  IInv'
  BY <1>2, InitNoiseIInv, CopyWordIInv, CopyEndsIInv
<1>3. CASE Sync \/ SyncAgain
  BY <1>3, SyncIInv
<1> QED
  BY <1>1, <1>2, <1>3 DEF Next, Done

\* Whatever the sizes and however the threads are scheduled, KernelSeed1
\* writes into the results of a seed only noise of that seed and octave, and
\* nothing behind the input.
THEOREM ResultsAreOwnNoise ==
  ASSUME BlockAssumption
  PROVE  Spec => []OwnNoise
<1>1. Init => IInv
  BY InitIInv
<1>2. IInv /\ [Next]_vars => IInv'
  BY NextIInv
<1>3. IInv => OwnNoise
  BY DEF IInv
<1> QED
  BY <1>1, <1>2, <1>3, PTL DEF Spec

-----------------------------------------------------------------------------
(***************************************************************************)
(* The table that init_noise shuffles for one noise, and the draws of      *)
(* nextInt it is shuffled with, for words and tables of any size.          *)
(***************************************************************************)
CONSTANTS
  Bits,       \* bits of a draw, 32
  Entries     \* entries of the table, 256

VARIABLES
  position,   \* position to fill
  permutation \* the table

Table == INSTANCE Shuffle WITH N <- Entries, i <- position, p <- permutation

\* The number of words.
LEMMA TableSizes ==
  ASSUME Table!ShuffleAssumption
  PROVE  Table!Size \in Nat \ {0} /\ Entries \in Nat \ {0} /\ Entries <= Table!Size
<1>1. Table!Size \in Int BY DEF Table!ShuffleAssumption, Table!Size
<1>2. Entries \in 1..Table!Size BY DEF Table!ShuffleAssumption
<1> QED BY <1>1, <1>2

\* Quotient and remainder of the product nextInt computes.
LEMMA Product ==
  ASSUME NEW S \in Nat \ {0}, NEW x \in Nat
  PROVE  \E q \in Nat, r \in 0..(S - 1) : q = x \div S /\ r = x % S /\ x = q * S + r
<1>1. x \div S \in Nat /\ x % S \in 0..(S - 1) OBVIOUS
<1>2. x = (x \div S) * S + (x % S) OBVIOUS
<1> QED BY <1>1, <1>2

\* nextInt's result is below its bound, whether the draw is rejected or not.
LEMMA BelowBound ==
  ASSUME Table!ShuffleAssumption, NEW b \in 1..Entries, NEW l \in Table!Draws
  PROVE  Table!High(l, b) \in 0..(b - 1)
<1> DEFINE S == Table!Size
<1>1. S \in Nat \ {0} /\ b \in Nat \ {0} BY TableSizes
<1> HIDE DEF S
<1>2. l \in Nat /\ l < S BY <1>1 DEF Table!Draws, S
<1>3. PICK q \in Nat, r \in 0..(S - 1) :
        q = (l * b) \div S /\ r = (l * b) % S /\ l * b = q * S + r
  <2>1. PICK x \in Nat : x = l * b BY <1>1, <1>2
  <2> QED BY <2>1, <1>1, Product
<1>4. l * b < S * b BY <1>1, <1>2, Multiples
<1>5. q * S < b * S
  <2>1. PICK m \in Nat : m = q * S BY <1>1
  <2>2. S * b = b * S BY <1>1
  <2>3. b * S \in Nat BY <1>1
  <2> QED BY <2>1, <2>2, <2>3, <1>3, <1>4
<1>6. q < b BY <1>1, <1>5, Multiples
<1> QED BY <1>1, <1>3, <1>6 DEF Table!High, S

\* Two entries of a permutation change places.
LEMMA SwapPermutes ==
  ASSUME NEW D, NEW q \in Bijection(D, D), NEW a \in D, NEW b \in D
  PROVE  Table!Swapped(q, a, b) \in Bijection(D, D)
<1>1. /\ q \in [D -> D] /\ \A x, y \in D : q[x] = q[y] => x = y
      /\ \A y \in D : \E x \in D : q[x] = y
  BY DEF Bijection, Injection, Surjection, IsInjective
<1> DEFINE s == Table!Swapped(q, a, b)
<1>2. s \in [D -> D] /\ \A x \in D : s[x] = IF x = b THEN q[a] ELSE IF x = a THEN q[b] ELSE q[x]
  BY <1>1 DEF Table!Swapped
<1> HIDE DEF s
<1>3. \A x, y \in D : s[x] = s[y] => x = y BY <1>1, <1>2
<1>4. ASSUME NEW y \in D PROVE \E x \in D : s[x] = y
  <2>1. PICK x \in D : q[x] = y BY <1>1
  <2>2. CASE x = a BY <2>1, <2>2, <1>2
  <2>3. CASE x = b /\ x # a BY <2>1, <2>3, <1>2
  <2>4. CASE x # a /\ x # b BY <2>1, <2>4, <1>2
  <2> QED BY <2>2, <2>3, <2>4
<1>5. s \in Bijection(D, D)
  BY <1>2, <1>3, <1>4 DEF Bijection, Injection, Surjection, IsInjective
<1> QED BY <1>5 DEF s

\* The shuffle reaches permutations only: every byte value is once in the
\* table of init_noise, as the gradient filters assume.
THEOREM TableStaysPermutation ==
  ASSUME Table!ShuffleAssumption
  PROVE  Table!Spec => []Table!TableIsPermutation
<1> DEFINE D == 0..(Entries - 1)
           Inv == position \in 0..Entries /\ permutation \in Bijection(D, D)
<1>1. Entries \in Nat \ {0} BY TableSizes
<1>2. Table!Init => Inv
  BY <1>1 DEF Table!Init, Bijection, Injection, Surjection, IsInjective
<1>3. Inv /\ [Table!Next]_(Table!vars) => Inv'
  <2> SUFFICES ASSUME Inv, [Table!Next]_(Table!vars) PROVE Inv'
    OBVIOUS
  <2>1. ASSUME NEW l \in Table!Draws, Table!Swap(l) PROVE Inv'
    <3>1. /\ position < Entries /\ position' = position + 1
          /\ permutation' = Table!Swapped(permutation, position,
                                          position + Table!High(l, Table!bound))
      BY <2>1 DEF Table!Swap
    <3>2. Table!bound = Entries - position /\ Table!bound \in 1..Entries
      BY <3>1, <1>1 DEF Table!bound
    <3>3. PICK h : h = Table!High(l, Table!bound) OBVIOUS
    <3>4. h \in 0..(Table!bound - 1) BY <3>2, <3>3, BelowBound
    <3>5. position \in D /\ position + h \in D BY <3>1, <3>2, <3>4, <1>1
    <3> HIDE DEF D
    <3>6. permutation' \in Bijection(D, D)
      BY <3>1, <3>3, <3>5, SwapPermutes
    <3> QED BY <3>1, <3>6, <1>1
  <2>2. CASE UNCHANGED Table!vars BY <2>2 DEF Table!vars
  <2> QED BY <2>1, <2>2 DEF Table!Next, Table!Done
<1>4. Inv => Table!TableIsPermutation
  BY DEF Table!TableIsPermutation, Table!Bijection, Table!Injection, Table!Surjection,
         Table!IsInjective, Bijection, Injection, Surjection, IsInjective
<1> QED BY <1>2, <1>3, <1>4, PTL DEF Table!Spec

\* The draws that lead to o are Q numbers in a row.
LEMMA LeadingDraws ==
  ASSUME NEW S \in Nat \ {0}, NEW b \in 1..S, NEW o \in 0..(b - 1), NEW L,
         L = {l \in 0..(S - 1) : /\ ~((l * b) % S < b /\ (l * b) % S < (S - b) % b)
                                 /\ (l * b) \div S = o}
  PROVE  IsFiniteSet(L) /\ Cardinality(L) = S \div b /\ S \div b > 0
<1>1. b \in Nat \ {0} /\ o \in Nat OBVIOUS
<1>2. PICK Q \in Nat, r \in 0..(b - 1) : Q = S \div b /\ r = S % b /\ S = Q * b + r
  <2>1. S \in Nat OBVIOUS
  <2> QED BY <2>1, <1>1, Product
<1>3. Q > 0
  <2>1. CASE Q = 0
    <3>1. S = r BY <2>1, <1>1, <1>2
    <3> QED BY <3>1, <1>1, <1>2
  <2> QED BY <2>1, <1>2
<1>4. (S - b) % b = r
  <2>1. S - b \in Nat /\ (S - b) + b = S BY <1>1
  <2>2. ((S - b) + b) % b = (S - b) % b BY <2>1, <1>1, SameRemainder
  <2> QED BY <2>1, <2>2, <1>2
<1>5. PICK lo \in Nat : lo = o * S OBVIOUS
<1>6. PICK a \in Nat, t \in 0..(b - 1) : lo + r + b - 1 = a * b + t
  <2>1. PICK x \in Nat : x = lo + r + b - 1 BY <1>1, <1>2, <1>5
  <2>2. PICK a \in Nat, t \in 0..(b - 1) : a = x \div b /\ t = x % b /\ x = a * b + t
    BY <1>1, Product
  <2> QED BY <2>1, <2>2
<1>7. PICK ab \in Nat : ab = a * b BY <1>1
<1>8. lo + r <= ab /\ ab - b < lo + r BY <1>1, <1>2, <1>6, <1>7
<1>9. PICK Qb \in Nat : Qb = Q * b BY <1>1, <1>2
<1>10. ASSUME NEW l \in Nat
       PROVE  l * b \in lo + r .. lo + S - 1 <=> l \in a..(a + Q - 1)
  <2>1. PICK lb \in Nat : lb = l * b BY <1>1
  <2>2. ASSUME l >= a PROVE lb >= ab
    <3>1. l = a \/ a < l BY <2>2
    <3>2. a < l => a * b < l * b BY <1>1, Multiples
    <3> QED BY <3>1, <3>2, <2>1, <1>7
  <2>3. ASSUME l < a PROVE lb <= ab - b
    <3>1. PICK d \in Nat : a = l + 1 + d
      <4>1. a - l - 1 \in Nat /\ a = l + 1 + (a - l - 1) BY <2>3
      <4> QED BY <4>1
    <3>2. PICK db \in Nat : db = d * b BY <1>1
    <3>3. ab = lb + b + db BY <3>1, <3>2, <2>1, <1>1, <1>7
    <3> QED BY <3>2, <3>3, <2>1, <1>1
  <2>4. (a + Q) * b = ab + Qb BY <1>1, <1>7, <1>9
  <2>5. ASSUME l >= a + Q PROVE lb >= ab + Qb
    <3>1. a + Q \in Nat /\ (l = a + Q \/ a + Q < l) BY <2>5
    <3>2. a + Q < l => (a + Q) * b < l * b BY <3>1, <1>1, Multiples
    <3> QED BY <3>1, <3>2, <2>1, <2>4, <1>7, <1>9
  <2>6. ASSUME l < a + Q PROVE lb <= ab + Qb - b
    <3>1. PICK d \in Nat : a + Q = l + 1 + d
      <4>1. a + Q - l - 1 \in Nat /\ a + Q = l + 1 + (a + Q - l - 1) BY <2>6
      <4> QED BY <4>1
    <3>2. PICK db \in Nat : db = d * b BY <1>1
    <3>3. (l + 1 + d) * b = lb + b + db BY <3>2, <2>1, <1>1
    <3>4. ab + Qb = lb + b + db BY <3>1, <3>3, <2>4
    <3> QED BY <3>2, <3>4, <2>1, <1>1, <1>7, <1>9
  <2>7. S = Qb + r BY <1>2, <1>9
  <2>8. lb \in lo + r .. lo + S - 1 <=> l \in a..(a + Q - 1)
    <3>1. ASSUME l >= a, l < a + Q PROVE lb \in lo + r .. lo + S - 1
      <4>1. lb >= ab /\ lb <= ab + Qb - b BY <2>2, <2>6, <3>1
      <4> QED BY <4>1, <2>1, <2>7, <1>1, <1>2, <1>5, <1>7, <1>8, <1>9
    <3>2. ASSUME lb \in lo + r .. lo + S - 1 PROVE l >= a /\ l < a + Q
      <4>1. ~(l < a)
        BY <2>3, <2>1, <3>2, <1>1, <1>2, <1>5, <1>7, <1>8
      <4>2. ~(l >= a + Q)
        BY <2>5, <2>1, <2>7, <3>2, <1>1, <1>2, <1>5, <1>7, <1>8, <1>9
      <4> QED BY <4>1, <4>2
    <3> QED BY <3>1, <3>2
  <2> QED BY <2>1, <2>8
<1>11. ASSUME NEW l \in Nat
       PROVE  l \in L <=> l * b \in lo + r .. lo + S - 1
  <2>1. PICK x \in Nat : x = l * b BY <1>1
  <2>2. PICK q \in Nat, m \in 0..(S - 1) : q = x \div S /\ m = x % S /\ x = q * S + m
    BY Product
  <2>3. q \in Nat /\ m \in 0..(S - 1) /\ x = q * S + m BY <2>2
  <2>4. l \in L <=> l \in 0..(S - 1) /\ ~(m < b /\ m < r) /\ q = o
    BY <2>1, <2>2, <1>4
  <2>5. ~(m < b /\ m < r) <=> m >= r BY <2>3, <1>1, <1>2
  <2>6. ASSUME q = o, m >= r PROVE x \in lo + r .. lo + S - 1
    BY <2>3, <2>6, <1>2, <1>5
  <2>7. ASSUME x \in lo + r .. lo + S - 1 PROVE q = o /\ m >= r
    <3>1. PICK y \in Nat : y = x - lo BY <2>1, <2>7, <1>2, <1>5
    <3>2. y \in 0..(S - 1) /\ y >= r /\ x = o * S + y BY <3>1, <2>1, <2>7, <1>2, <1>5
    <3>3. x \div S = o /\ x % S = y BY <3>2, <1>1, Division
    <3> QED BY <3>2, <3>3, <2>2
  <2>8. ASSUME x \in lo + r .. lo + S - 1 PROVE l \in 0..(S - 1)
    <3>1. (o + 1) * S = lo + S /\ b * S \in Nat BY <1>1, <1>5
    <3>2. o + 1 = b \/ o + 1 < b BY <1>1
    <3>3. o + 1 < b => (o + 1) * S < b * S BY <1>1, Multiples
    <3>4. lo + S <= b * S BY <3>1, <3>2, <3>3, <1>5
    <3>5. x < b * S BY <3>1, <3>4, <2>1, <2>8, <1>2, <1>5
    <3>6. b * S = S * b BY <1>1
    <3>7. l * b < S * b BY <3>5, <3>6, <2>1
    <3>8. l < S BY <3>7, <1>1, Multiples
    <3> QED BY <3>8
  <2> QED BY <2>1, <2>4, <2>5, <2>6, <2>7, <2>8
<1>12. L = a..(a + Q - 1)
  <2>1. L \subseteq Nat /\ a..(a + Q - 1) \subseteq Nat BY <1>2, <1>6
  <2> QED BY <2>1, <1>10, <1>11
<1>13. IsFiniteSet(a..(a + Q - 1)) /\ Cardinality(a..(a + Q - 1)) = Q
  <2>0. a + Q - 1 \in Int OBVIOUS
  <2>1. PICK z \in Int : z = a + Q - 1 BY <2>0
  <2>2. IsFiniteSet(a..z) /\ Cardinality(a..z) = IF a > z THEN 0 ELSE z - a + 1
    BY FS_Interval
  <2>3. (IF a > z THEN 0 ELSE z - a + 1) = Q BY <2>1, <1>2, <1>3
  <2> QED BY <2>1, <2>2, <2>3
<1> QED BY <1>2, <1>3, <1>12, <1>13

\* nextInt prefers no index: of the draws it keeps, equally many lead to each
\* one below its bound.
THEOREM DrawsAlwaysUniform ==
  ASSUME Table!ShuffleAssumption
  PROVE  Table!Spec => []Table!DrawsUniform
<1> DEFINE S == Table!Size
           Inv == position \in 0..Entries
<1>1. S \in Nat \ {0} /\ Entries \in Nat \ {0} /\ Entries <= S BY TableSizes
<1>2. Table!Init => Inv BY <1>1 DEF Table!Init
<1>3. Inv /\ [Table!Next]_(Table!vars) => Inv'
  BY <1>1 DEF Table!Next, Table!Swap, Table!Done, Table!vars
<1>4. Inv => Table!DrawsUniform
  <2> SUFFICES ASSUME position \in 0..Entries, position < Entries
               PROVE  Table!DrawsUniform
    BY DEF Table!DrawsUniform
  <2> DEFINE b == Table!bound
             Kept == {l \in Table!Draws : ~Table!Rejected(l, b)}
             Leading(o) == {l \in Kept : Table!High(l, b) = o}
  <2>1. b \in 1..Entries /\ b \in 1..S BY <1>1 DEF Table!bound
  <2>2. \A l \in Kept : Table!High(l, b) < b
    <3> HIDE DEF b
    <3>1. \A l \in Table!Draws : Table!High(l, b) \in 0..(b - 1) BY <2>1, BelowBound
    <3> QED BY <3>1, <2>1, <1>1
  <2>3. ASSUME NEW o \in 0..(b - 1)
        PROVE  Cardinality(Leading(o)) = S \div b /\ S \div b > 0
    <3>1. PICK L : L = Leading(o) OBVIOUS
    <3>2. L = {l \in 0..(S - 1) : /\ ~((l * b) % S < b /\ (l * b) % S < (S - b) % b)
                                  /\ (l * b) \div S = o}
      BY <3>1 DEF Table!Draws, Table!Rejected, Table!Low, Table!High
    <3> HIDE DEF b, S
    <3>3. Cardinality(L) = S \div b /\ S \div b > 0 BY <3>2, <2>1, <1>1, LeadingDraws
    <3> QED BY <3>1, <3>3
  <2>4. 0 \in 0..(b - 1) BY <2>1, <1>1
  <2> HIDE DEF Leading
  <2>5. /\ \A l \in Kept : Table!High(l, b) < b
        /\ \A o \in 0..(b - 1) :
             Cardinality(Leading(o)) > 0 /\ Cardinality(Leading(o)) = Cardinality(Leading(0))
    BY <2>2, <2>3, <2>4
  <2>6. \A T : Table!Cardinality(T) = Cardinality(T) BY DEF Table!Cardinality, Cardinality
  <2> QED BY <2>5, <2>6 DEF Table!DrawsUniform, Leading
<1> QED BY <1>2, <1>3, <1>4, PTL DEF Table!Spec
=============================================================================

-------------------------- MODULE Filter2BlockProofs --------------------------
(***************************************************************************)
(* KernelFilter2 implements FilterKernel and its warps meet at the same    *)
(* __syncthreads, for any numbers of blocks, inputs per block, warps per   *)
(* input and inputs, and for any samples.                                  *)
(***************************************************************************)
EXTENDS Filter2Block, CountingLemmas

-----------------------------------------------------------------------------
(***************************************************************************)
(* The inductive invariant.                                                *)
(***************************************************************************)
\* The first input of a warp's round, or of its next round once it has gone on.
NextBase(b, w) == IF pc[b][w] = "next" THEN base[b][w] + Stride(b) ELSE base[b][w]

\* Between two barriers the warps of a block are in the same part of the loop,
\* in the same round; the first part lets a warp begin a round while others
\* have not ended the one before.
Together(b) ==
  /\ \A v, w \in Warps : NextBase(b, v) = NextBase(b, w)
  /\ \/ \A w \in Warps : pc[b][w] \in {"next", "loop", "reset", "sync_reset", "exit"}
     \/ \A w \in Warps : pc[b][w] \in {"sample", "sync_counts"}
     \/ MoveCenter /\ \A w \in Warps : pc[b][w] \in {"read_count", "add_sums", "sync_sums"}
     \/ MoveCenter /\ \A w \in Warps : pc[b][w] \in {"read_sums", "emit", "sync_end"}
     \/ ~MoveCenter /\ \A w \in Warps : pc[b][w] \in {"read_count", "emit", "sync_end"}

\* The rounds of a block, and when a warp takes part in one.
Own(b, w) ==
  /\ \E q \in Nat : base[b][w] = q * InputsPerBlock /\ q % GridDim = b
  /\ pc[b][w] \notin {"loop", "exit"} => base[b][w] < InputsLen
  /\ pc[b][w] = "exit" => base[b][w] >= InputsLen

\* Phases of a warp that has added its count, and its sum.
Counted == {"sync_counts", "read_count", "add_sums", "sync_sums", "read_sums", "emit",
            "sync_end"}
Summed == {"sync_sums", "read_sums", "emit", "sync_end"}

\* The kth warp of a slot, and the input of the slot.
WarpOf(s, k) == s * WarpsPerInput + k
InputOf(b, s) == base[b][WarpOf(s, 0)] + s

\* The numbers of the warps of an input.
Ranks == 0..(WarpsPerInput - 1)

\* What the warps of a slot have contributed so far.
LowSoFar(b, s) ==
  [k \in Ranks |-> IF pc[b][WarpOf(s, k)] \in Counted THEN share[InputOf(b, s)][k].low ELSE 0]
DxSoFar(b, s) ==
  [k \in Ranks |-> IF pc[b][WarpOf(s, k)] \in Summed THEN share[InputOf(b, s)][k].dx ELSE 0]

\* What all warps of an input contribute.
LowOf(i) == SumOf([k \in Ranks |-> share[i][k].low], WarpsPerInput)
DxOf(i) == SumOf([k \in Ranks |-> share[i][k].dx], WarpsPerInput)
Moved(i) == IF LowOf(i) # 0 THEN Quotient(DxOf(i), LowOf(i)) ELSE DxOf(i)

\* Warp 0 has reset the counters of the block; from then on they hold what the
\* warps of the slot's own input have contributed.
Counters(b, s) ==
  /\ pc[b][0] = "sync_reset" =>
       shared_counts[b][s] = 0 /\ (MoveCenter => shared_sums[b][s] = 0)
  /\ pc[b][0] \in {"sample"} \cup Counted /\ InputOf(b, s) < InputsLen =>
       /\ shared_counts[b][s] = SumOf(LowSoFar(b, s), WarpsPerInput)
       /\ MoveCenter => shared_sums[b][s] = SumOf(DxSoFar(b, s), WarpsPerInput)

\* What a warp has in its own variables when it needs it.
Locals(b, w) ==
  is_valid_input(b, w) =>
    /\ pc[b][w] \in {"sync_counts", "read_count", "add_sums"} =>
         sum_dx[b][w] = OwnShare(b, w).dx
    /\ pc[b][w] \in {"add_sums"} \cup Summed => total_valid[b][w] = LowOf(input_index(b, w))
    /\ pc[b][w] = "emit" /\ MoveCenter => sum_dx[b][w] = Moved(input_index(b, w))

\* The inductive invariant.
IInv ==
  /\ TypeOK
  /\ \A b \in Blocks : Together(b)
  /\ \A b \in Blocks, w \in Warps : Own(b, w) /\ Locals(b, w)
  /\ \A b \in Blocks, s \in Slots : Counters(b, s)

\* The phases of a warp.
PCs == SyncPoints \cup
  {"loop", "reset", "sample", "read_count", "add_sums", "read_sums", "emit", "next", "exit"}

-----------------------------------------------------------------------------
(***************************************************************************)
(* Warps and slots.                                                        *)
(***************************************************************************)
\* A warp is one of the warps of one slot.
LEMMA SlotOfWarp ==
  ASSUME BlockAssumption, NEW w \in Warps
  PROVE  /\ w \in Nat /\ w \div WarpsPerInput \in Slots /\ w % WarpsPerInput \in Ranks
         /\ w = WarpOf(w \div WarpsPerInput, w % WarpsPerInput)
<1> USE DEF BlockAssumption
<1>1. PICK n \in Nat \ {0}, m \in Nat \ {0} : n = WarpsPerInput /\ m = InputsPerBlock
  OBVIOUS
<1>2. w \in Nat /\ w < m * n BY <1>1 DEF Warps
<1>3. PICK q \in Nat, r \in 0..(n - 1) : q = w \div n /\ r = w % n /\ w = n * q + r
  <2>1. w \div n \in Nat /\ w % n \in 0..(n - 1) /\ w = n * (w \div n) + (w % n) BY <1>2
  <2> QED BY <2>1
<1>4. n * q = q * n BY <1>3
<1>5. q < m
  <2> SUFFICES ASSUME q >= m PROVE FALSE BY <1>3, <1>1
  <2>1. PICK d \in Nat : q = m + d
    <3>1. q - m \in Nat /\ q = m + (q - m) BY <1>3
    <3> QED BY <3>1
  <2>2. q * n = m * n + d * n /\ d * n \in Nat /\ m * n \in Nat BY <2>1
  <2>3. PICK a \in Nat, e \in Nat : a = m * n /\ e = d * n BY <2>2
  <2>4. w = a + e + r /\ w < a BY <2>2, <2>3, <1>2, <1>3, <1>4
  <2> QED BY <2>4
<1>6. q \in 0..(m - 1) BY <1>5
<1> QED BY <1>1, <1>2, <1>3, <1>4, <1>6 DEF Slots, Ranks, WarpOf

\* Every slot has its warps.
LEMMA WarpOfSlot ==
  ASSUME BlockAssumption, NEW s \in Slots, NEW k \in Ranks
  PROVE  /\ WarpOf(s, k) \in Warps
         /\ WarpOf(s, k) \div WarpsPerInput = s /\ WarpOf(s, k) % WarpsPerInput = k
<1> USE DEF BlockAssumption
<1>1. PICK n \in Nat \ {0}, m \in Nat \ {0} : n = WarpsPerInput /\ m = InputsPerBlock
  OBVIOUS
<1>2. s \in Nat /\ s <= m - 1 /\ k \in 0..(n - 1) BY <1>1 DEF Slots, Ranks
<1>3. PICK x : x = s * n + k OBVIOUS
<1>4. x \in Nat /\ x \div n = s /\ x % n = k BY <1>2, <1>3, Division
<1>5. x <= (m * n) - 1
  <2>1. PICK d \in Nat : m = s + 1 + d
    <3>1. m - (s + 1) \in Nat /\ m = s + 1 + (m - (s + 1)) BY <1>2
    <3> QED BY <3>1
  <2>2. m * n = s * n + n + d * n /\ d * n \in Nat /\ s * n \in Nat BY <2>1, <1>2
  <2>3. PICK a \in Nat, e \in Nat, z \in Nat : a = s * n /\ e = d * n /\ z = m * n
    BY <2>2
  <2>4. z = a + n + e /\ x = a + k BY <2>2, <2>3, <1>3
  <2>5. x <= z - 1 BY <2>4, <1>2
  <2> QED BY <2>3, <2>5
<1>6. x \in 0..(m * n - 1)
  <2>1. PICK z \in Nat : z = m * n OBVIOUS
  <2> QED BY <2>1, <1>4, <1>5
<1> QED BY <1>1, <1>3, <1>4, <1>6 DEF Warps, WarpOf

\* There are warps, and their numbers start at 0.
LEMMA FirstWarp ==
  ASSUME BlockAssumption
  PROVE  0 \in Warps /\ 0 \in Ranks /\ 0 \in Slots
<1>1. 0 \in Ranks /\ 0 \in Slots BY DEF BlockAssumption, Ranks, Slots
<1>2. WarpOf(0, 0) \in Warps BY <1>1, WarpOfSlot
<1>3. WarpOf(0, 0) = 0 BY DEF BlockAssumption, WarpOf
<1> QED BY <1>1, <1>2, <1>3

\* What the warps of an input find, and what that makes together.
LEMMA ShareTypes ==
  ASSUME BlockAssumption, TypeOK, NEW i \in Inputs
  PROVE  /\ \A k \in Ranks : share[i][k].low \in 0..WarpSamples /\ share[i][k].dx \in Int
         /\ LowOf(i) \in 0..(WarpsPerInput * WarpSamples) /\ DxOf(i) \in Int
         /\ Moved(i) \in Int
<1>1. ASSUME NEW k \in Ranks
      PROVE  share[i][k].low \in 0..WarpSamples /\ share[i][k].dx \in Int
  <2>1. share[i][k] \in Shares
    <3>1. share \in [Inputs -> [Ranks -> Shares]] BY DEF TypeOK, Ranks
    <3> QED BY <3>1
  <2>2. share[i][k] \in [low : 0..WarpSamples, dx : Int] BY <2>1 DEF BlockAssumption
  <2> QED BY <2>2
<1> DEFINE f == [k \in Ranks |-> share[i][k].low]
           g == [k \in Ranks |-> share[i][k].dx]
<1>2. f \in [0..(WarpsPerInput - 1) -> 0..WarpSamples] BY <1>1 DEF Ranks
<1>3. g \in [0..(WarpsPerInput - 1) -> Int] BY <1>1 DEF Ranks
<1>4. WarpsPerInput \in Nat /\ WarpSamples \in Nat BY DEF BlockAssumption
<1> HIDE DEF f, g
<1>5. SumOf(f, WarpsPerInput) \in 0..(WarpsPerInput * WarpSamples) BY <1>2, <1>4, SumBounds
<1>6. SumOf(g, WarpsPerInput) \in Int BY <1>3, <1>4, SumExists, SumIs
<1>7. LowOf(i) \in 0..(WarpsPerInput * WarpSamples) /\ DxOf(i) \in Int
  BY <1>5, <1>6 DEF f, g, LowOf, DxOf
<1>8. LowOf(i) \in Nat
  <2>1. PICK n \in Nat : n = WarpsPerInput * WarpSamples BY <1>4
  <2> QED BY <2>1, <1>7
<1>9. Moved(i) \in Int
  <2>1. ASSUME NEW a \in Int, NEW n \in Nat, n # 0 PROVE Quotient(a, n) \in Int
    <3>1. a >= 0 => a \div n \in Int BY <2>1
    <3>2. a < 0 => -a \in Nat /\ (-a) \div n \in Int BY <2>1
    <3> QED BY <3>1, <3>2 DEF Quotient
  <2> QED BY <2>1, <1>7, <1>8 DEF Moved
<1> QED BY <1>1, <1>7, <1>9

\* A warp's input is that of its slot, unless warps are between two rounds.
LEMMA SameInput ==
  ASSUME BlockAssumption, IInv, NEW b \in Blocks, NEW w \in Warps,
         \A u \in Warps : pc[b][u] # "next"
  PROVE  /\ input_index(b, w) = InputOf(b, w \div WarpsPerInput)
         /\ input_index(b, w) \in Nat
         /\ is_valid_input(b, w) => input_index(b, w) \in Inputs
<1>1. w \div WarpsPerInput \in Slots BY SlotOfWarp
<1>2. WarpOf(w \div WarpsPerInput, 0) \in Warps BY <1>1, FirstWarp, WarpOfSlot
<1>3. base[b][WarpOf(w \div WarpsPerInput, 0)] = base[b][w]
  BY <1>2 DEF IInv, Together, NextBase
<1>4. base[b][w] \in Nat BY DEF IInv, TypeOK
<1>5. w \div WarpsPerInput \in Nat BY <1>1 DEF Slots, BlockAssumption
<1>6. input_index(b, w) = InputOf(b, w \div WarpsPerInput)
  BY <1>3 DEF input_index, InputOf, block_input_index
<1>7. input_index(b, w) \in Nat BY <1>4, <1>5 DEF input_index, block_input_index
<1>8. is_valid_input(b, w) => input_index(b, w) \in Inputs
  BY <1>7 DEF is_valid_input, Inputs, BlockAssumption
<1> QED BY <1>6, <1>7, <1>8

\* The input of a slot.
LEMMA SlotInput ==
  ASSUME BlockAssumption, TypeOK, NEW b \in Blocks, NEW s \in Slots
  PROVE  InputOf(b, s) \in Nat /\ (InputOf(b, s) < InputsLen => InputOf(b, s) \in Inputs)
<1>1. WarpOf(s, 0) \in Warps BY FirstWarp, WarpOfSlot
<1>2. base[b][WarpOf(s, 0)] \in Nat BY <1>1 DEF TypeOK
<1>3. s \in Nat BY DEF Slots, BlockAssumption
<1> QED BY <1>2, <1>3 DEF InputOf, Inputs, BlockAssumption

\* The contributions so far are numbers.
LEMMA SoFarTypes ==
  ASSUME BlockAssumption, TypeOK, NEW b \in Blocks, NEW s \in Slots,
         InputOf(b, s) < InputsLen
  PROVE  /\ LowSoFar(b, s) \in [Ranks -> 0..WarpSamples] /\ DxSoFar(b, s) \in [Ranks -> Int]
         /\ LowSoFar(b, s) \in [Ranks -> Int]
<1>1. PICK i \in Inputs : i = InputOf(b, s) BY SlotInput
<1>2. \A k \in Ranks : share[i][k].low \in 0..WarpSamples /\ share[i][k].dx \in Int
  BY ShareTypes
<1>3. 0 \in 0..WarpSamples /\ 0..WarpSamples \subseteq Int BY DEF BlockAssumption
<1> QED BY <1>1, <1>2, <1>3 DEF LowSoFar, DxSoFar

-----------------------------------------------------------------------------
(***************************************************************************)
(* What a step of one warp leaves alone.                                   *)
(***************************************************************************)
\* A block of which nothing changes.
LEMMA OtherBlock ==
  ASSUME IInv, NEW c \in Blocks, share' = share, pc'[c] = pc[c], base'[c] = base[c],
         total_valid'[c] = total_valid[c], sum_dx'[c] = sum_dx[c],
         shared_counts'[c] = shared_counts[c], shared_sums'[c] = shared_sums[c]
  PROVE  /\ Together(c)'
         /\ \A w \in Warps : Own(c, w)' /\ Locals(c, w)'
         /\ \A s \in Slots : Counters(c, s)'
<1>1. Together(c)' BY DEF IInv, Together, NextBase, Stride
<1>2. ASSUME NEW w \in Warps PROVE Own(c, w)' BY DEF IInv, Own
<1>3. \A i : LowOf(i)' = LowOf(i) /\ Moved(i)' = Moved(i)
  BY DEF LowOf, DxOf, Moved
<1>4. ASSUME NEW w \in Warps PROVE Locals(c, w)'
  <2>1. /\ input_index(c, w)' = input_index(c, w) /\ OwnShare(c, w)' = OwnShare(c, w)
        /\ is_valid_input(c, w)' <=> is_valid_input(c, w)
    BY DEF input_index, OwnShare, is_valid_input
  <2>2. /\ LowOf(input_index(c, w))' = LowOf(input_index(c, w))
        /\ Moved(input_index(c, w))' = Moved(input_index(c, w))
    BY <2>1, <1>3 DEF LowOf, Moved, DxOf
  <2>3. Locals(c, w) BY DEF IInv
  <2> QED BY <2>1, <2>2, <2>3 DEF Locals
<1>5. ASSUME NEW s \in Slots PROVE Counters(c, s)'
  <2>1. InputOf(c, s)' = InputOf(c, s) BY DEF InputOf
  <2>2. LowSoFar(c, s)' = LowSoFar(c, s) BY <2>1 DEF LowSoFar
  <2>3. DxSoFar(c, s)' = DxSoFar(c, s) BY <2>1 DEF DxSoFar
  <2>4. Counters(c, s) BY DEF IInv
  <2> QED BY <2>1, <2>2, <2>3, <2>4 DEF Counters
<1> QED BY <1>1, <1>2, <1>4, <1>5

\* Two phases between the same two barriers.
SamePart(x, y) ==
  \/ {x, y} \subseteq {"loop", "reset", "sync_reset", "exit"}
  \/ {x, y} \subseteq {"sample", "sync_counts"}
  \/ MoveCenter /\ {x, y} \subseteq {"read_count", "add_sums", "sync_sums"}
  \/ MoveCenter /\ {x, y} \subseteq {"read_sums", "emit", "sync_end"}
  \/ ~MoveCenter /\ {x, y} \subseteq {"read_count", "emit", "sync_end"}

\* A warp that goes on to a phase before the next barrier, and changes only
\* variables of its own and of its block.
LEMMA OneWarp ==
  ASSUME BlockAssumption, IInv, NEW b \in Blocks, NEW w \in Warps, NEW x,
         Goto(b, w, x), SamePart(pc[b][w], x), UNCHANGED <<share, base>>, TypeOK',
         \A c \in Blocks \ {b} :
           /\ total_valid'[c] = total_valid[c] /\ sum_dx'[c] = sum_dx[c]
           /\ shared_counts'[c] = shared_counts[c] /\ shared_sums'[c] = shared_sums[c],
         \A u \in Warps \ {w} :
           total_valid'[b][u] = total_valid[b][u] /\ sum_dx'[b][u] = sum_dx[b][u],
         Own(b, w)', Locals(b, w)', \A s \in Slots : Counters(b, s)'
  PROVE  IInv'
<1>1. TypeOK BY DEF IInv
<1>2. /\ pc'[b][w] = x /\ \A u \in Warps \ {w} : pc'[b][u] = pc[b][u]
      /\ \A c \in Blocks \ {b} : pc'[c] = pc[c]
  BY <1>1 DEF Goto, Update, TypeOK
<1>3. x # "next" /\ pc[b][w] # "next" BY DEF SamePart
<1>4. Together(b)'
  <2>1. Together(b) BY DEF IInv
  <2>2. \A u \in Warps : NextBase(b, u)' = NextBase(b, u) BY <1>2, <1>3 DEF NextBase, Stride
  <2>3. \A u, v \in Warps : NextBase(b, u)' = NextBase(b, v)' BY <2>1, <2>2 DEF Together
  <2>4. \A u \in Warps : pc'[b][u] = IF u = w THEN x ELSE pc[b][u] BY <1>2
  <2>5. \/ /\ pc[b][w] \in {"loop", "reset", "sync_reset", "exit"}
           /\ x \in {"loop", "reset", "sync_reset", "exit"}
        \/ pc[b][w] \in {"sample", "sync_counts"} /\ x \in {"sample", "sync_counts"}
        \/ /\ MoveCenter /\ pc[b][w] \in {"read_count", "add_sums", "sync_sums"}
           /\ x \in {"read_count", "add_sums", "sync_sums"}
        \/ /\ MoveCenter /\ pc[b][w] \in {"read_sums", "emit", "sync_end"}
           /\ x \in {"read_sums", "emit", "sync_end"}
        \/ /\ ~MoveCenter /\ pc[b][w] \in {"read_count", "emit", "sync_end"}
           /\ x \in {"read_count", "emit", "sync_end"}
    BY DEF SamePart
  <2> QED BY <2>1, <2>3, <2>4, <2>5 DEF Together
<1>5. ASSUME NEW u \in Warps \ {w} PROVE Own(b, u)' /\ Locals(b, u)'
  <2>1. Own(b, u) /\ Locals(b, u) BY DEF IInv
  <2>2. Own(b, u)' BY <2>1, <1>2 DEF Own
  <2>3. /\ input_index(b, u)' = input_index(b, u) /\ OwnShare(b, u)' = OwnShare(b, u)
        /\ is_valid_input(b, u)' <=> is_valid_input(b, u)
    BY DEF input_index, OwnShare, is_valid_input
  <2>4. /\ LowOf(input_index(b, u))' = LowOf(input_index(b, u))
        /\ Moved(input_index(b, u))' = Moved(input_index(b, u))
    BY <2>3 DEF LowOf, Moved, DxOf
  <2> QED BY <2>1, <2>2, <2>3, <2>4, <1>2 DEF Locals
<1>6. ASSUME NEW c \in Blocks \ {b}
      PROVE  /\ Together(c)'
             /\ \A u \in Warps : Own(c, u)' /\ Locals(c, u)'
             /\ \A s \in Slots : Counters(c, s)'
  BY <1>2, OtherBlock
<1>7. ASSUME NEW c \in Blocks, NEW u \in Warps PROVE Own(c, u)' /\ Locals(c, u)'
  BY <1>5, <1>6
<1>8. ASSUME NEW c \in Blocks, NEW s \in Slots PROVE Counters(c, s)' BY <1>6
<1>9. ASSUME NEW c \in Blocks PROVE Together(c)' BY <1>4, <1>6
<1> QED BY <1>7, <1>8, <1>9 DEF IInv

\* A phase of a warp outside the counting, or one that does not change which
\* warps have contributed, leaves the counters right if it does not write them.
LEMMA CountersStay ==
  ASSUME BlockAssumption, IInv, NEW b \in Blocks, NEW w \in Warps, NEW x,
         Goto(b, w, x), SamePart(pc[b][w], x),
         pc[b][w] \in Counted <=> x \in Counted,
         MoveCenter => (pc[b][w] \in Summed <=> x \in Summed), w = 0 => x # "sync_reset",
         UNCHANGED <<share, base, shared_counts, shared_sums>>
  PROVE  \A s \in Slots : Counters(b, s)'
<1> TAKE s \in Slots
<1>1. TypeOK /\ Counters(b, s) BY DEF IInv
<1>2. pc'[b][w] = x /\ \A u \in Warps \ {w} : pc'[b][u] = pc[b][u]
  BY <1>1 DEF Goto, Update, TypeOK
<1>3. InputOf(b, s)' = InputOf(b, s) BY DEF InputOf
<1>4. ASSUME NEW k \in Ranks
      PROVE  /\ pc'[b][WarpOf(s, k)] \in Counted <=> pc[b][WarpOf(s, k)] \in Counted
             /\ MoveCenter =>
                  (pc'[b][WarpOf(s, k)] \in Summed <=> pc[b][WarpOf(s, k)] \in Summed)
  <2>1. WarpOf(s, k) \in Warps BY WarpOfSlot
  <2> QED BY <2>1, <1>2
<1>5. LowSoFar(b, s)' = LowSoFar(b, s)
  <2>1. LowSoFar(b, s)' = [k \in Ranks |-> IF pc'[b][WarpOf(s, k)] \in Counted
                             THEN share[InputOf(b, s)][k].low ELSE 0]
    BY <1>3 DEF LowSoFar, WarpOf, Counted, Ranks
  <2> QED BY <2>1, <1>4 DEF LowSoFar
<1>6. MoveCenter => DxSoFar(b, s)' = DxSoFar(b, s)
  <2>1. DxSoFar(b, s)' = [k \in Ranks |-> IF pc'[b][WarpOf(s, k)] \in Summed
                            THEN share[InputOf(b, s)][k].dx ELSE 0]
    BY <1>3 DEF DxSoFar, WarpOf, Summed, Ranks
  <2> QED BY <2>1, <1>4 DEF DxSoFar
<1>7. 0 \in Warps BY FirstWarp
<1>8. /\ pc'[b][0] = "sync_reset" => pc[b][0] = "sync_reset"
      /\ pc'[b][0] \in {"sample"} \cup Counted => pc[b][0] \in {"sample"} \cup Counted
  BY <1>2, <1>7 DEF SamePart, Counted
<1>9. SumOf(LowSoFar(b, s), WarpsPerInput)' = SumOf(LowSoFar(b, s), WarpsPerInput)
  BY <1>5 DEF SumOf, PrefixSum, IsPrefixSum
<1>10. MoveCenter =>
        SumOf(DxSoFar(b, s), WarpsPerInput)' = SumOf(DxSoFar(b, s), WarpsPerInput)
  BY <1>6 DEF SumOf, PrefixSum, IsPrefixSum
<1> QED BY <1>1, <1>3, <1>8, <1>9, <1>10 DEF Counters

-----------------------------------------------------------------------------
(***************************************************************************)
(* Each step keeps the invariant.                                          *)
(***************************************************************************)
\* At the start all warps are at the top of the loop, with the block's first
\* inputs.
LEMMA InitIInv == ASSUME BlockAssumption, Init PROVE IInv
<1> USE DEF Init
<1>0. /\ GridDim \in Nat \ {0} /\ InputsPerBlock \in Nat \ {0} /\ WarpsPerInput \in Nat \ {0}
      /\ WarpSamples \in Nat
  BY DEF BlockAssumption
<1>1. \A b \in Blocks : b \in Nat /\ b < GridDim /\ b * InputsPerBlock \in Nat
  BY <1>0 DEF Blocks
<1>2. 0 \in 0..(WarpsPerInput * WarpSamples)
  <2>1. PICK n \in Nat : n = WarpsPerInput * WarpSamples BY <1>0
  <2> QED BY <2>1
<1>3. TypeOK
  <2>1. base \in [Blocks -> [Warps -> Nat]] BY <1>1
  <2>2. /\ total_valid \in [Blocks -> [Warps -> 0..(WarpsPerInput * WarpSamples)]]
        /\ shared_counts \in [Blocks -> [Slots -> 0..(WarpsPerInput * WarpSamples)]]
    BY <1>2
  <2>3. sum_dx \in [Blocks -> [Warps -> Int]] /\ shared_sums \in [Blocks -> [Slots -> Int]]
    OBVIOUS
  <2>4. pc \in [Blocks -> [Warps -> PCs]] BY DEF PCs
  <2>5. outputs_len \in Nat /\ outputs \in Seq([input : Inputs, moved : Int]) OBVIOUS
  <2> QED BY <2>1, <2>2, <2>3, <2>4, <2>5 DEF TypeOK, PCs
<1>4. \A b \in Blocks : Together(b) BY DEF Together, NextBase
<1>5. ASSUME NEW b \in Blocks, NEW w \in Warps PROVE Own(b, w) /\ Locals(b, w)
  <2>1. b % GridDim = b
    <3>1. b \in 0..(GridDim - 1) /\ b = 0 * GridDim + b BY <1>0, <1>1
    <3>2. 0 \in Nat /\ GridDim \in Nat \ {0} BY <1>0
    <3>3. ASSUME NEW x, x = 0 * GridDim + b PROVE x % GridDim = b
      BY ONLY <3>1, <3>2, <3>3, Division
    <3> QED BY <3>1, <3>3
  <2>2. base[b][w] = b * InputsPerBlock /\ pc[b][w] = "loop" OBVIOUS
  <2> QED BY <2>1, <2>2, <1>1 DEF Own, Locals, Summed
<1>6. ASSUME NEW b \in Blocks, NEW s \in Slots PROVE Counters(b, s)
  <2>1. 0 \in Warps BY FirstWarp
  <2> QED BY <2>1 DEF Counters, Counted
<1> QED BY <1>3, <1>4, <1>5, <1>6 DEF IInv

\* The loop condition sends all warps of a block the same way.
LEMMA LoopIInv ==
  ASSUME BlockAssumption, IInv, NEW b \in Blocks, NEW w \in Warps, Loop(b, w)
  PROVE  IInv'
<1>1. TypeOK /\ Own(b, w) BY DEF IInv
<1>2. PICK x \in {"reset", "exit"} :
        /\ x = "reset" <=> base[b][w] < InputsLen
        /\ pc[b][w] = "loop" /\ Goto(b, w, x) /\ UNCHANGED <<share, locals, shared, outs>>
  BY DEF Loop
<1>3. SamePart(pc[b][w], x) BY <1>2 DEF SamePart
<1>4. TypeOK' /\ pc'[b][w] = x
  <2>1. pc \in [Blocks -> [Warps -> PCs]] BY <1>1 DEF TypeOK, PCs
  <2>2. x \in PCs BY DEF PCs
  <2>3. pc' \in [Blocks -> [Warps -> PCs]] /\ pc'[b][w] = x
    BY <2>1, <2>2, <1>2, UpdateCell DEF Goto, Update
  <2> QED BY <2>3, <1>1, <1>2 DEF TypeOK, PCs, locals, shared, outs
<1>5. Own(b, w)'
  <2>1. base[b][w] \in Nat /\ InputsLen \in Nat BY <1>1 DEF TypeOK, BlockAssumption
  <2> QED BY <2>1, <1>1, <1>2, <1>4 DEF Own, locals
<1>6. Locals(b, w)' BY <1>4 DEF Locals, Summed
<1>7. \A s \in Slots : Counters(b, s)'
  BY <1>2, <1>3, CountersStay DEF Counted, Summed, locals, shared
<1> QED BY <1>2, <1>3, <1>4, <1>5, <1>6, <1>7, OneWarp DEF locals, shared

\* Warp 0 resets the counters of its block, of which no warp counts.
LEMMA ResetIInv ==
  ASSUME BlockAssumption, IInv, NEW b \in Blocks, NEW w \in Warps, Reset(b, w)
  PROVE  IInv'
<1>1. TypeOK /\ Own(b, w) BY DEF IInv
<1>2. /\ pc[b][w] = "reset" /\ Goto(b, w, "sync_reset") /\ UNCHANGED <<share, base, outs>>
      /\ total_valid' = [total_valid EXCEPT ![b][w] = 0]
      /\ sum_dx' = [sum_dx EXCEPT ![b][w] = 0]
  BY DEF Reset, Update
<1> DEFINE zeros == [s \in Slots |-> 0]
<1>3. /\ shared_counts' = IF w = 0 THEN [shared_counts EXCEPT ![b] = zeros] ELSE shared_counts
      /\ shared_sums' = IF w = 0 /\ MoveCenter THEN [shared_sums EXCEPT ![b] = zeros]
                        ELSE shared_sums
  BY DEF Reset, shared
<1>4. SamePart(pc[b][w], "sync_reset") BY <1>2 DEF SamePart
<1>5. PICK Nums : Nums = 0..(WarpsPerInput * WarpSamples) OBVIOUS
<1>6. 0 \in Nums
  <2>1. PICK n \in Nat : n = WarpsPerInput * WarpSamples BY DEF BlockAssumption
  <2> QED BY <2>1, <1>5
<1>7. /\ pc' \in [Blocks -> [Warps -> PCs]] /\ pc'[b][w] = "sync_reset"
      /\ \A u \in Warps \ {w} : pc'[b][u] = pc[b][u]
  <2>1. pc \in [Blocks -> [Warps -> PCs]] BY <1>1 DEF TypeOK, PCs
  <2>2. "sync_reset" \in PCs BY DEF PCs, SyncPoints
  <2> QED BY <2>1, <2>2, <1>2, UpdateCell DEF Goto, Update
<1>8. /\ total_valid' \in [Blocks -> [Warps -> Nums]]
      /\ \A c \in Blocks \ {b} : total_valid'[c] = total_valid[c]
      /\ \A u \in Warps \ {w} : total_valid'[b][u] = total_valid[b][u]
  <2>1. total_valid \in [Blocks -> [Warps -> Nums]] BY <1>1, <1>5 DEF TypeOK
  <2> QED BY <2>1, <1>2, <1>6, UpdateCell
<1>9. /\ sum_dx' \in [Blocks -> [Warps -> Int]]
      /\ \A c \in Blocks \ {b} : sum_dx'[c] = sum_dx[c]
      /\ \A u \in Warps \ {w} : sum_dx'[b][u] = sum_dx[b][u]
  <2>1. sum_dx \in [Blocks -> [Warps -> Int]] BY <1>1 DEF TypeOK
  <2> QED BY <2>1, <1>2, UpdateCell
<1>10. /\ shared_counts' \in [Blocks -> [Slots -> Nums]]
       /\ shared_sums' \in [Blocks -> [Slots -> Int]]
       /\ \A c \in Blocks \ {b} :
            shared_counts'[c] = shared_counts[c] /\ shared_sums'[c] = shared_sums[c]
       /\ w = 0 => shared_counts'[b] = zeros /\ (MoveCenter => shared_sums'[b] = zeros)
  <2>1. shared_counts \in [Blocks -> [Slots -> Nums]] /\ shared_sums \in [Blocks -> [Slots -> Int]]
    BY <1>1, <1>5 DEF TypeOK
  <2>2. zeros \in [Slots -> Nums] /\ zeros \in [Slots -> Int] BY <1>6
  <2> HIDE DEF zeros
  <2> QED BY <2>1, <2>2, <1>3
<1>11. TypeOK' BY <1>1, <1>2, <1>5, <1>7, <1>8, <1>9, <1>10 DEF TypeOK, PCs, outs
<1>12. Own(b, w)' BY <1>1, <1>2, <1>7 DEF Own
<1>13. Locals(b, w)' BY <1>7 DEF Locals, Summed
<1>14. \A s \in Slots : Counters(b, s)'
  <2>1. CASE w = 0 BY <2>1, <1>7, <1>10 DEF Counters, Counted
  <2>2. CASE w # 0
    BY <2>2, <1>2, <1>3, <1>4, CountersStay DEF Counted, Summed
  <2> QED BY <2>1, <2>2
<1> HIDE DEF zeros
<1> QED BY <1>2, <1>4, <1>8, <1>9, <1>10, <1>11, <1>12, <1>13, <1>14, OneWarp

\* What the warps of a slot have contributed changes only by a warp of the slot.
LEMMA OtherSlot ==
  ASSUME BlockAssumption, TypeOK, NEW b \in Blocks, NEW w \in Warps, NEW x,
         Goto(b, w, x), UNCHANGED <<share, base>>, NEW s \in Slots, s # w \div WarpsPerInput
  PROVE  LowSoFar(b, s)' = LowSoFar(b, s) /\ DxSoFar(b, s)' = DxSoFar(b, s)
<1>1. \A u \in Warps \ {w} : pc'[b][u] = pc[b][u] BY DEF Goto, Update, TypeOK
<1>2. ASSUME NEW k \in Ranks PROVE pc'[b][WarpOf(s, k)] = pc[b][WarpOf(s, k)]
  <2>1. WarpOf(s, k) \in Warps /\ WarpOf(s, k) \div WarpsPerInput = s BY WarpOfSlot
  <2> QED BY <2>1, <1>1
<1>3. InputOf(b, s)' = InputOf(b, s) BY DEF InputOf
<1>4. LowSoFar(b, s)' = [k \in Ranks |-> IF pc'[b][WarpOf(s, k)] \in Counted
                           THEN share[InputOf(b, s)][k].low ELSE 0]
  BY <1>3 DEF LowSoFar, WarpOf, Counted, Ranks
<1>5. DxSoFar(b, s)' = [k \in Ranks |-> IF pc'[b][WarpOf(s, k)] \in Summed
                          THEN share[InputOf(b, s)][k].dx ELSE 0]
  BY <1>3 DEF DxSoFar, WarpOf, Summed, Ranks
<1> QED BY <1>2, <1>4, <1>5 DEF LowSoFar, DxSoFar

\* Within the slot, the others' contributions stay and the warp's own is what
\* its new phase says.
LEMMA OwnSlot ==
  ASSUME BlockAssumption, TypeOK, NEW b \in Blocks, NEW w \in Warps, NEW x,
         Goto(b, w, x), UNCHANGED <<share, base>>,
         NEW s \in Slots, s = w \div WarpsPerInput, NEW r \in Ranks, r = w % WarpsPerInput
  PROVE  /\ LowSoFar(b, s)' = [k \in Ranks |-> LowSoFar(b, s)'[k]]
         /\ DxSoFar(b, s)' = [k \in Ranks |-> DxSoFar(b, s)'[k]]
         /\ \A k \in Ranks \ {r} : /\ LowSoFar(b, s)'[k] = LowSoFar(b, s)[k]
                                  /\ DxSoFar(b, s)'[k] = DxSoFar(b, s)[k]
         /\ x \in Counted => LowSoFar(b, s)'[r] = share[InputOf(b, s)][r].low
         /\ x \notin Summed => DxSoFar(b, s)'[r] = 0
         /\ x \in Summed => DxSoFar(b, s)'[r] = share[InputOf(b, s)][r].dx
<1>1. pc'[b][w] = x /\ \A u \in Warps \ {w} : pc'[b][u] = pc[b][u]
  BY DEF Goto, Update, TypeOK
<1>2. w = WarpOf(s, r) BY SlotOfWarp
<1>3. ASSUME NEW k \in Ranks, k # r PROVE pc'[b][WarpOf(s, k)] = pc[b][WarpOf(s, k)]
  <2>1. WarpOf(s, k) \in Warps /\ WarpOf(s, k) % WarpsPerInput = k BY WarpOfSlot
  <2> QED BY <2>1, <1>1, <1>3
<1>4. InputOf(b, s)' = InputOf(b, s) BY DEF InputOf
<1>5. LowSoFar(b, s)' = [k \in Ranks |-> IF pc'[b][WarpOf(s, k)] \in Counted
                           THEN share[InputOf(b, s)][k].low ELSE 0]
  BY <1>4 DEF LowSoFar, WarpOf, Counted, Ranks
<1>6. DxSoFar(b, s)' = [k \in Ranks |-> IF pc'[b][WarpOf(s, k)] \in Summed
                          THEN share[InputOf(b, s)][k].dx ELSE 0]
  BY <1>4 DEF DxSoFar, WarpOf, Summed, Ranks
<1>7. pc'[b][WarpOf(s, r)] = x BY <1>1, <1>2
<1> QED BY <1>3, <1>5, <1>6, <1>7 DEF LowSoFar, DxSoFar

\* A warp that adds its count adds it to its own input's, which held the counts
\* of the others so far.
LEMMA SampleIInv ==
  ASSUME BlockAssumption, IInv, NEW b \in Blocks, NEW w \in Warps, Sample(b, w)
  PROVE  IInv'
<1>1. TypeOK /\ Own(b, w) /\ Together(b) BY DEF IInv
<1>2. /\ pc[b][w] = "sample" /\ Goto(b, w, "sync_counts")
      /\ UNCHANGED <<share, base, total_valid, shared_sums, outs>>
  BY DEF Sample
<1>3. \A u \in Warps : pc[b][u] \in {"sample", "sync_counts"} BY <1>1, <1>2 DEF Together
<1>4. SamePart(pc[b][w], "sync_counts") BY <1>2 DEF SamePart
<1>5. /\ pc' \in [Blocks -> [Warps -> PCs]] /\ pc'[b][w] = "sync_counts"
      /\ \A u \in Warps \ {w} : pc'[b][u] = pc[b][u]
  <2>1. pc \in [Blocks -> [Warps -> PCs]] BY <1>1 DEF TypeOK, PCs
  <2>2. "sync_counts" \in PCs BY DEF PCs, SyncPoints
  <2> QED BY <2>1, <2>2, <1>2, UpdateCell DEF Goto, Update
<1>6. \A u \in Warps : pc'[b][u] \in {"sample", "sync_counts"} BY <1>3, <1>5
<1>7. Own(b, w)' BY <1>1, <1>2, <1>5 DEF Own
<1>8. PICK s \in Slots, r \in Ranks : s = w \div WarpsPerInput /\ r = w % WarpsPerInput
  BY SlotOfWarp
<1>9. PICK i \in Nat : i = input_index(b, w) /\ i = InputOf(b, s)
  BY <1>3, <1>8, SameInput
<1>10. is_valid_input(b, w) <=> i < InputsLen BY <1>9 DEF is_valid_input
<1>11. 0 \in Warps BY FirstWarp
<1>12. ASSUME NEW z \in Slots, z # s, shared_counts'[b][z] = shared_counts[b][z]
       PROVE  Counters(b, z)'
  <2>1. LowSoFar(b, z)' = LowSoFar(b, z) /\ DxSoFar(b, z)' = DxSoFar(b, z)
    BY <1>1, <1>2, <1>8, <1>12, OtherSlot
  <2>2. InputOf(b, z)' = InputOf(b, z) BY <1>2 DEF InputOf
  <2>3. pc[b][0] \in {"sample"} \cup Counted /\ pc'[b][0] # "sync_reset"
    BY <1>3, <1>6, <1>11 DEF Counted
  <2>4. Counters(b, z) BY DEF IInv
  <2> QED BY <2>1, <2>2, <2>3, <2>4, <1>2, <1>12 DEF Counters
<1>13. CASE ~(i < InputsLen)
  <2>1. UNCHANGED <<sum_dx, shared_counts>> BY <1>10, <1>13 DEF Sample
  <2>2. TypeOK' BY <2>1, <1>1, <1>2, <1>5 DEF TypeOK, PCs, outs
  <2>3. ~is_valid_input(b, w)' BY <1>2, <1>10, <1>13 DEF is_valid_input, input_index
  <2>4. Locals(b, w)' BY <2>3 DEF Locals
  <2>5. InputOf(b, s)' = i BY <1>2, <1>9 DEF InputOf
  <2>6. Counters(b, s)' BY <2>5, <1>6, <1>11, <1>13 DEF Counters
  <2>7. \A z \in Slots : Counters(b, z)' BY <2>1, <2>6, <1>12
  <2> QED BY <2>1, <2>2, <2>4, <2>7, <1>2, <1>4, <1>7, OneWarp
<1>14. CASE i < InputsLen
  <2>1. i \in Inputs BY <1>14 DEF Inputs, BlockAssumption
  <2>2. PICK low \in 0..WarpSamples, dx \in Int :
          low = share[i][r].low /\ dx = share[i][r].dx
    BY <2>1, <1>1, ShareTypes
  <2>3. OwnShare(b, w).low = low /\ OwnShare(b, w).dx = dx
    BY <2>2, <1>8, <1>9 DEF OwnShare
  <2>4. /\ sum_dx' = [sum_dx EXCEPT ![b][w] = dx]
        /\ shared_counts' = [shared_counts EXCEPT ![b][s] = @ + low]
    BY <2>3, <1>8, <1>10, <1>14 DEF Sample, Update, block_input_index
  <2>5. PICK f : f = LowSoFar(b, s) OBVIOUS
  <2>6. f \in [Ranks -> 0..WarpSamples] /\ f \in [Ranks -> Int]
    BY <2>5, <1>1, <1>9, <1>14, SoFarTypes
  <2>7. f[r] = 0
    <3>1. WarpOf(s, r) = w BY <1>8, SlotOfWarp
    <3> QED BY <3>1, <2>5, <1>2 DEF LowSoFar, Counted
  <2>8. PICK h : h = [k \in Ranks |-> IF k # r THEN f[k] ELSE low] OBVIOUS
  <2>9. h \in [Ranks -> 0..WarpSamples] /\ h \in [Ranks -> Int] BY <2>2, <2>6, <2>8
  <2>10. LowSoFar(b, s)' = h
    <3>1. "sync_counts" \in Counted BY DEF Counted
    <3>2. /\ LowSoFar(b, s)' = [k \in Ranks |-> LowSoFar(b, s)'[k]]
          /\ \A k \in Ranks \ {r} : LowSoFar(b, s)'[k] = LowSoFar(b, s)[k]
          /\ LowSoFar(b, s)'[r] = share[InputOf(b, s)][r].low
      BY <3>1, <1>1, <1>2, <1>8, OwnSlot
    <3>3. share[InputOf(b, s)][r].low = low BY <2>2, <1>9
    <3> QED BY <3>1, <3>2, <3>3, <2>5, <2>8
  <2>11. DxSoFar(b, s)' = DxSoFar(b, s)
    <3>1. "sync_counts" \notin Summed /\ "sample" \notin Summed BY DEF Summed
    <3>2. /\ DxSoFar(b, s)' = [k \in Ranks |-> DxSoFar(b, s)'[k]]
          /\ \A k \in Ranks \ {r} : DxSoFar(b, s)'[k] = DxSoFar(b, s)[k]
          /\ DxSoFar(b, s)'[r] = 0
      BY <3>1, <1>1, <1>2, <1>8, OwnSlot
    <3>3. DxSoFar(b, s)[r] = 0
      <4>1. WarpOf(s, r) = w BY <1>8, SlotOfWarp
      <4> QED BY <4>1, <3>1, <1>2 DEF DxSoFar
    <3>4. DxSoFar(b, s) \in [Ranks -> Int] BY <1>1, <1>9, <1>14, SoFarTypes
    <3> QED BY <3>1, <3>2, <3>3, <3>4
  <2>12. WarpsPerInput \in Nat /\ WarpSamples \in Nat BY DEF BlockAssumption
  <2>13. SumOf(h, WarpsPerInput) = SumOf(f, WarpsPerInput) + low
    <3>1. \A n \in Ranks \ {r} : h[n] = f[n] BY <2>8
    <3>2. SumOf(h, WarpsPerInput) = SumOf(f, WarpsPerInput) + (h[r] - f[r])
      BY <3>1, <2>6, <2>9, <2>12, SumChange DEF Ranks
    <3>3. h[r] - f[r] = low BY <2>2, <2>7, <2>8
    <3> QED BY <3>2, <3>3
  <2>14. PICK Nums : Nums = 0..(WarpsPerInput * WarpSamples) OBVIOUS
  <2>15. SumOf(h, WarpsPerInput) \in Nums BY <2>9, <2>12, <2>14, SumBounds DEF Ranks
  <2>16. shared_counts[b][s] = SumOf(f, WarpsPerInput)
    <3>1. Counters(b, s) BY DEF IInv
    <3>2. pc[b][0] \in {"sample"} \cup Counted BY <1>3, <1>11 DEF Counted
    <3> QED BY <3>1, <3>2, <2>5, <1>9, <1>14 DEF Counters
  <2>17. /\ shared_counts' \in [Blocks -> [Slots -> Nums]]
         /\ shared_counts'[b][s] = SumOf(h, WarpsPerInput)
         /\ \A z \in Slots \ {s} : shared_counts'[b][z] = shared_counts[b][z]
         /\ \A c \in Blocks \ {b} : shared_counts'[c] = shared_counts[c]
    <3>1. shared_counts \in [Blocks -> [Slots -> Nums]] BY <2>14, <1>1 DEF TypeOK
    <3>2. shared_counts' = [shared_counts EXCEPT ![b][s] = SumOf(h, WarpsPerInput)]
      BY <2>4, <2>13, <2>16
    <3> QED BY <3>1, <3>2, <2>15, UpdateCell
  <2>18. /\ sum_dx' \in [Blocks -> [Warps -> Int]] /\ sum_dx'[b][w] = dx
         /\ \A u \in Warps \ {w} : sum_dx'[b][u] = sum_dx[b][u]
         /\ \A c \in Blocks \ {b} : sum_dx'[c] = sum_dx[c]
    <3>1. sum_dx \in [Blocks -> [Warps -> Int]] BY <1>1 DEF TypeOK
    <3> QED BY <3>1, <2>4, UpdateCell
  <2>19. TypeOK' BY <2>14, <2>17, <2>18, <1>1, <1>2, <1>5 DEF TypeOK, PCs, outs
  <2>20. Locals(b, w)'
    <3>1. OwnShare(b, w)' = OwnShare(b, w) BY <1>2 DEF OwnShare, input_index
    <3>2. sum_dx'[b][w] = OwnShare(b, w)'.dx BY <3>1, <2>3, <2>18
    <3> QED BY <3>2, <1>5 DEF Locals, Summed
  <2>21. Counters(b, s)'
    <3>1. InputOf(b, s)' = InputOf(b, s) BY <1>2 DEF InputOf
    <3>2. pc[b][0] \in {"sample"} \cup Counted /\ pc'[b][0] # "sync_reset"
      BY <1>3, <1>6, <1>11 DEF Counted
    <3>3. Counters(b, s) BY DEF IInv
    <3> QED BY <3>1, <3>2, <3>3, <2>10, <2>11, <2>17, <1>2, <1>9, <1>14 DEF Counters
  <2>22. \A z \in Slots : Counters(b, z)' BY <2>17, <2>21, <1>12
  <2> QED BY <2>17, <2>18, <2>19, <2>20, <2>22, <1>2, <1>4, <1>7, OneWarp
<1> QED BY <1>13, <1>14

\* When all warps have added their counts, the counter of a slot is the count of
\* its input; when all have added their sums, likewise.
LEMMA AllContributed ==
  ASSUME BlockAssumption, IInv, NEW b \in Blocks, NEW s \in Slots,
         \A u \in Warps : pc[b][u] \in Counted, InputOf(b, s) < InputsLen
  PROVE  /\ shared_counts[b][s] = LowOf(InputOf(b, s))
         /\ MoveCenter /\ (\A u \in Warps : pc[b][u] \in Summed) =>
              shared_sums[b][s] = DxOf(InputOf(b, s))
<1>1. Counters(b, s) BY DEF IInv
<1>2. 0 \in Warps BY FirstWarp
<1>3. \A k \in Ranks : WarpOf(s, k) \in Warps BY WarpOfSlot
<1>4. LowSoFar(b, s) = [k \in Ranks |-> share[InputOf(b, s)][k].low] BY <1>3 DEF LowSoFar
<1>5. (\A u \in Warps : pc[b][u] \in Summed) =>
        DxSoFar(b, s) = [k \in Ranks |-> share[InputOf(b, s)][k].dx]
  BY <1>3 DEF DxSoFar
<1> QED BY <1>1, <1>2, <1>4, <1>5 DEF Counters, LowOf, DxOf

\* A warp reads the count of its input after all warps have added theirs.
LEMMA ReadCountIInv ==
  ASSUME BlockAssumption, IInv, NEW b \in Blocks, NEW w \in Warps, ReadCount(b, w)
  PROVE  IInv'
<1>1. TypeOK /\ Own(b, w) /\ Together(b) /\ Locals(b, w) BY DEF IInv
<1>2. PICK x \in {"add_sums", "emit"} :
        /\ x = IF MoveCenter THEN "add_sums" ELSE "emit"
        /\ pc[b][w] = "read_count" /\ Goto(b, w, x)
        /\ UNCHANGED <<share, base, sum_dx, shared, outs>>
  BY DEF ReadCount
<1>3. \A u \in Warps : pc[b][u] \in Counted /\ pc[b][u] # "next"
  BY <1>1, <1>2 DEF Together, Counted
<1>4. SamePart(pc[b][w], x) BY <1>2 DEF SamePart
<1>5. /\ pc' \in [Blocks -> [Warps -> PCs]] /\ pc'[b][w] = x
  <2>1. pc \in [Blocks -> [Warps -> PCs]] BY <1>1 DEF TypeOK, PCs
  <2>2. x \in PCs BY DEF PCs, SyncPoints
  <2> QED BY <2>1, <2>2, <1>2, UpdateCell DEF Goto, Update
<1>6. Own(b, w)' BY <1>1, <1>2, <1>5 DEF Own
<1>7. PICK s \in Slots : s = w \div WarpsPerInput BY SlotOfWarp
<1>8. PICK i \in Nat : i = input_index(b, w) /\ i = InputOf(b, s) BY <1>3, <1>7, SameInput
<1>9. is_valid_input(b, w) <=> i < InputsLen BY <1>8 DEF is_valid_input
<1>10. i < InputsLen => shared_counts[b][s] = LowOf(i) BY <1>3, <1>8, AllContributed
<1>11. PICK Nums : Nums = 0..(WarpsPerInput * WarpSamples) OBVIOUS
<1>12. /\ total_valid \in [Blocks -> [Warps -> Nums]]
       /\ shared_counts \in [Blocks -> [Slots -> Nums]]
  BY <1>1, <1>11 DEF TypeOK
<1>13. PICK v \in Nums : /\ total_valid' = [total_valid EXCEPT ![b][w] = v]
                         /\ i < InputsLen => v = LowOf(i)
  <2>1. CASE i < InputsLen
    <3>1. total_valid' = [total_valid EXCEPT ![b][w] = shared_counts[b][s]]
      BY <2>1, <1>7, <1>9 DEF ReadCount, Update, block_input_index
    <3>2. shared_counts[b][s] \in Nums BY <1>12
    <3> QED BY <3>1, <3>2, <1>10
  <2>2. CASE ~(i < InputsLen)
    <3>1. total_valid' = total_valid BY <2>2, <1>9 DEF ReadCount
    <3>2. total_valid = [total_valid EXCEPT ![b][w] = total_valid[b][w]] BY <1>12
    <3> QED BY <3>1, <3>2, <2>2, <1>12
  <2> QED BY <2>1, <2>2
<1>14. /\ total_valid' \in [Blocks -> [Warps -> Nums]] /\ total_valid'[b][w] = v
       /\ \A u \in Warps \ {w} : total_valid'[b][u] = total_valid[b][u]
       /\ \A c \in Blocks \ {b} : total_valid'[c] = total_valid[c]
  BY <1>12, <1>13, UpdateCell
<1>15. TypeOK' BY <1>1, <1>2, <1>5, <1>11, <1>14 DEF TypeOK, PCs, shared, outs
<1>16. Locals(b, w)'
  <2>1. /\ input_index(b, w)' = i /\ OwnShare(b, w)' = OwnShare(b, w)
        /\ is_valid_input(b, w)' <=> i < InputsLen
    BY <1>2, <1>8 DEF input_index, OwnShare, is_valid_input
  <2>2. LowOf(input_index(b, w))' = LowOf(i) BY <2>1, <1>2 DEF LowOf
  <2>3. i < InputsLen => sum_dx'[b][w] = OwnShare(b, w)'.dx
    BY <2>1, <1>1, <1>2, <1>9 DEF Locals
  <2> QED BY <2>1, <2>2, <2>3, <1>2, <1>5, <1>13, <1>14 DEF Locals, Summed
<1>17. \A z \in Slots : Counters(b, z)'
  BY <1>2, <1>4, CountersStay DEF Counted, Summed, shared
<1> QED BY <1>2, <1>4, <1>6, <1>14, <1>15, <1>16, <1>17, OneWarp DEF shared

\* A warp reads the sum of its input after all warps have added theirs, and
\* divides it by the count of the input.
LEMMA ReadSumsIInv ==
  ASSUME BlockAssumption, IInv, NEW b \in Blocks, NEW w \in Warps, ReadSums(b, w)
  PROVE  IInv'
<1>1. TypeOK /\ Own(b, w) /\ Together(b) /\ Locals(b, w) BY DEF IInv
<1>2. /\ pc[b][w] = "read_sums" /\ Goto(b, w, "emit")
      /\ UNCHANGED <<share, base, total_valid, shared, outs>>
  BY DEF ReadSums
<1>3. /\ \A u \in Warps : pc[b][u] \in Counted /\ pc[b][u] \in Summed /\ pc[b][u] # "next"
      /\ MoveCenter
  BY <1>1, <1>2 DEF Together, Counted, Summed
<1>4. SamePart(pc[b][w], "emit") BY <1>2, <1>3 DEF SamePart
<1>5. /\ pc' \in [Blocks -> [Warps -> PCs]] /\ pc'[b][w] = "emit"
  <2>1. pc \in [Blocks -> [Warps -> PCs]] BY <1>1 DEF TypeOK, PCs
  <2>2. "emit" \in PCs BY DEF PCs, SyncPoints
  <2> QED BY <2>1, <2>2, <1>2, UpdateCell DEF Goto, Update
<1>6. Own(b, w)' BY <1>1, <1>2, <1>5 DEF Own
<1>7. PICK s \in Slots : s = w \div WarpsPerInput BY SlotOfWarp
<1>8. PICK i \in Nat : i = input_index(b, w) /\ i = InputOf(b, s) BY <1>3, <1>7, SameInput
<1>9. is_valid_input(b, w) <=> i < InputsLen BY <1>8 DEF is_valid_input
<1>10. i < InputsLen => shared_sums[b][s] = DxOf(i) BY <1>3, <1>8, AllContributed
<1>11. i < InputsLen => total_valid[b][w] = LowOf(i)
  BY <1>1, <1>2, <1>8, <1>9 DEF Locals, Summed
<1>12. sum_dx \in [Blocks -> [Warps -> Int]] BY <1>1 DEF TypeOK
<1>13. PICK v \in Int : /\ sum_dx' = [sum_dx EXCEPT ![b][w] = v]
                        /\ i < InputsLen => v = Moved(i)
  <2>1. CASE i < InputsLen
    <3>1. sum_dx' = [sum_dx EXCEPT ![b][w] =
            IF total_valid[b][w] # 0
              THEN Quotient(shared_sums[b][s], total_valid[b][w]) ELSE shared_sums[b][s]]
      BY <2>1, <1>7, <1>9 DEF ReadSums, Update, block_input_index
    <3>2. sum_dx' = [sum_dx EXCEPT ![b][w] = Moved(i)]
      BY <3>1, <2>1, <1>10, <1>11 DEF Moved
    <3>3. i \in Inputs BY <2>1 DEF Inputs, BlockAssumption
    <3>4. Moved(i) \in Int BY <3>3, <1>1, ShareTypes
    <3> QED BY <3>2, <3>4
  <2>2. CASE ~(i < InputsLen)
    <3>1. sum_dx' = sum_dx BY <2>2, <1>9 DEF ReadSums
    <3>2. sum_dx = [sum_dx EXCEPT ![b][w] = sum_dx[b][w]] BY <1>12
    <3> QED BY <3>1, <3>2, <2>2, <1>12
  <2> QED BY <2>1, <2>2
<1>14. /\ sum_dx' \in [Blocks -> [Warps -> Int]] /\ sum_dx'[b][w] = v
       /\ \A u \in Warps \ {w} : sum_dx'[b][u] = sum_dx[b][u]
       /\ \A c \in Blocks \ {b} : sum_dx'[c] = sum_dx[c]
  BY <1>12, <1>13, UpdateCell
<1>15. TypeOK' BY <1>1, <1>2, <1>5, <1>14 DEF TypeOK, PCs, shared, outs
<1>16. Locals(b, w)'
  <2>1. input_index(b, w)' = i /\ (is_valid_input(b, w)' <=> i < InputsLen)
    BY <1>2, <1>8 DEF input_index, is_valid_input
  <2>2. LowOf(input_index(b, w))' = LowOf(i) BY <2>1, <1>2 DEF LowOf
  <2>3. Moved(input_index(b, w))' = Moved(i) BY <2>1, <1>2 DEF Moved, LowOf, DxOf
  <2> QED BY <2>1, <2>2, <2>3, <1>2, <1>5, <1>11, <1>13, <1>14 DEF Locals
<1>17. \A z \in Slots : Counters(b, z)'
  BY <1>2, <1>4, CountersStay DEF Counted, Summed, shared
<1> QED BY <1>2, <1>4, <1>6, <1>14, <1>15, <1>16, <1>17, OneWarp DEF shared

\* A warp that adds its sum adds it to its own input's, which held the sums of
\* the others so far.
LEMMA AddSumsIInv ==
  ASSUME BlockAssumption, IInv, NEW b \in Blocks, NEW w \in Warps, AddSums(b, w)
  PROVE  IInv'
<1>1. TypeOK /\ Own(b, w) /\ Together(b) /\ Locals(b, w) BY DEF IInv
<1>2. /\ pc[b][w] = "add_sums" /\ Goto(b, w, "sync_sums")
      /\ UNCHANGED <<share, base, total_valid, sum_dx, shared_counts, outs>>
  BY DEF AddSums, locals
<1>3. /\ \A u \in Warps : pc[b][u] \in {"read_count", "add_sums", "sync_sums"}
      /\ MoveCenter
  BY <1>1, <1>2 DEF Together
<1>4. SamePart(pc[b][w], "sync_sums") BY <1>2, <1>3 DEF SamePart
<1>5. /\ pc' \in [Blocks -> [Warps -> PCs]] /\ pc'[b][w] = "sync_sums"
      /\ \A u \in Warps \ {w} : pc'[b][u] = pc[b][u]
  <2>1. pc \in [Blocks -> [Warps -> PCs]] BY <1>1 DEF TypeOK, PCs
  <2>2. "sync_sums" \in PCs BY DEF PCs, SyncPoints
  <2> QED BY <2>1, <2>2, <1>2, UpdateCell DEF Goto, Update
<1>6. \A u \in Warps : pc'[b][u] \in {"read_count", "add_sums", "sync_sums"} BY <1>3, <1>5
<1>7. Own(b, w)' BY <1>1, <1>2, <1>5 DEF Own
<1>8. PICK s \in Slots, r \in Ranks : s = w \div WarpsPerInput /\ r = w % WarpsPerInput
  BY SlotOfWarp
<1>9. PICK i \in Nat : i = input_index(b, w) /\ i = InputOf(b, s)
  BY <1>3, <1>8, SameInput
<1>10. is_valid_input(b, w) <=> i < InputsLen BY <1>9 DEF is_valid_input
<1>11. 0 \in Warps BY FirstWarp
<1>12. pc[b][0] \in {"sample"} \cup Counted /\ pc'[b][0] # "sync_reset"
  BY <1>3, <1>6, <1>11 DEF Counted
<1>13. ASSUME NEW z \in Slots, z # s, shared_sums'[b][z] = shared_sums[b][z]
       PROVE  Counters(b, z)'
  <2>1. LowSoFar(b, z)' = LowSoFar(b, z) /\ DxSoFar(b, z)' = DxSoFar(b, z)
    BY <1>1, <1>2, <1>8, <1>13, OtherSlot
  <2>2. InputOf(b, z)' = InputOf(b, z) BY <1>2 DEF InputOf
  <2>3. Counters(b, z) BY DEF IInv
  <2> QED BY <2>1, <2>2, <2>3, <1>2, <1>12, <1>13 DEF Counters
<1>14. Locals(b, w)'
  <2>1. input_index(b, w)' = input_index(b, w) /\ (is_valid_input(b, w)' <=> is_valid_input(b, w))
    BY <1>2 DEF input_index, is_valid_input
  <2>2. LowOf(input_index(b, w))' = LowOf(input_index(b, w)) BY <2>1, <1>2 DEF LowOf
  <2> QED BY <2>1, <2>2, <1>1, <1>2, <1>5 DEF Locals
<1>15. CASE ~(i < InputsLen)
  <2>1. shared_sums' = shared_sums BY <1>10, <1>15 DEF AddSums
  <2>2. TypeOK' BY <2>1, <1>1, <1>2, <1>5 DEF TypeOK, PCs, outs
  <2>3. InputOf(b, s)' = i BY <1>2, <1>9 DEF InputOf
  <2>4. Counters(b, s)' BY <2>3, <1>12, <1>15 DEF Counters
  <2>5. \A z \in Slots : Counters(b, z)' BY <2>1, <2>4, <1>13
  <2> QED BY <2>1, <2>2, <2>5, <1>2, <1>4, <1>7, <1>14, OneWarp
<1>16. CASE i < InputsLen
  <2>1. i \in Inputs BY <1>16 DEF Inputs, BlockAssumption
  <2>2. PICK dx \in Int : dx = share[i][r].dx BY <2>1, <1>1, ShareTypes
  <2>3. sum_dx[b][w] = dx
    BY <2>2, <1>1, <1>2, <1>8, <1>9, <1>10, <1>16 DEF Locals, OwnShare
  <2>4. shared_sums' = [shared_sums EXCEPT ![b][s] = @ + dx]
    BY <2>3, <1>8, <1>10, <1>16 DEF AddSums, block_input_index
  <2>5. PICK f : f = DxSoFar(b, s) OBVIOUS
  <2>6. f \in [Ranks -> Int] BY <2>5, <1>1, <1>9, <1>16, SoFarTypes
  <2>7. WarpOf(s, r) = w BY <1>8, SlotOfWarp
  <2>8. f[r] = 0 BY <2>5, <2>7, <1>2 DEF DxSoFar, Summed
  <2>9. PICK h : h = [k \in Ranks |-> IF k # r THEN f[k] ELSE dx] OBVIOUS
  <2>10. h \in [Ranks -> Int] BY <2>2, <2>6, <2>9
  <2>11. DxSoFar(b, s)' = h
    <3>1. "sync_sums" \in Summed BY DEF Summed
    <3>2. /\ DxSoFar(b, s)' = [k \in Ranks |-> DxSoFar(b, s)'[k]]
          /\ \A k \in Ranks \ {r} : DxSoFar(b, s)'[k] = DxSoFar(b, s)[k]
          /\ DxSoFar(b, s)'[r] = share[InputOf(b, s)][r].dx
      BY <3>1, <1>1, <1>2, <1>8, OwnSlot
    <3>3. share[InputOf(b, s)][r].dx = dx BY <2>2, <1>9
    <3> QED BY <3>1, <3>2, <3>3, <2>5, <2>9
  <2>12. LowSoFar(b, s)' = LowSoFar(b, s)
    <3>1. "sync_sums" \in Counted /\ "add_sums" \in Counted BY DEF Counted
    <3>2. /\ LowSoFar(b, s)' = [k \in Ranks |-> LowSoFar(b, s)'[k]]
          /\ \A k \in Ranks \ {r} : LowSoFar(b, s)'[k] = LowSoFar(b, s)[k]
          /\ LowSoFar(b, s)'[r] = share[InputOf(b, s)][r].low
      BY <3>1, <1>1, <1>2, <1>8, OwnSlot
    <3>3. LowSoFar(b, s)[r] = share[InputOf(b, s)][r].low
      BY <3>1, <2>7, <1>2 DEF LowSoFar
    <3>4. LowSoFar(b, s) \in [Ranks -> Int] BY <1>1, <1>9, <1>16, SoFarTypes
    <3> QED BY <3>1, <3>2, <3>3, <3>4
  <2>13. WarpsPerInput \in Nat BY DEF BlockAssumption
  <2>14. SumOf(h, WarpsPerInput) = SumOf(f, WarpsPerInput) + dx
    <3>1. \A n \in Ranks \ {r} : h[n] = f[n] BY <2>9
    <3>2. SumOf(h, WarpsPerInput) = SumOf(f, WarpsPerInput) + (h[r] - f[r])
      BY <3>1, <2>6, <2>10, <2>13, SumChange DEF Ranks
    <3>3. h[r] - f[r] = dx BY <2>2, <2>8, <2>9
    <3> QED BY <3>2, <3>3
  <2>15. SumOf(h, WarpsPerInput) \in Int
    BY <2>10, <2>13, SumExists, SumIs DEF Ranks
  <2>16. shared_sums[b][s] = SumOf(f, WarpsPerInput)
    <3>1. Counters(b, s) BY DEF IInv
    <3> QED BY <3>1, <2>5, <1>3, <1>9, <1>12, <1>16 DEF Counters
  <2>17. /\ shared_sums' \in [Blocks -> [Slots -> Int]]
         /\ shared_sums'[b][s] = SumOf(h, WarpsPerInput)
         /\ \A z \in Slots \ {s} : shared_sums'[b][z] = shared_sums[b][z]
         /\ \A c \in Blocks \ {b} : shared_sums'[c] = shared_sums[c]
    <3>1. shared_sums \in [Blocks -> [Slots -> Int]] BY <1>1 DEF TypeOK
    <3>2. shared_sums' = [shared_sums EXCEPT ![b][s] = SumOf(h, WarpsPerInput)]
      BY <2>4, <2>14, <2>16
    <3> QED BY <3>1, <3>2, <2>15, UpdateCell
  <2>18. TypeOK' BY <2>17, <1>1, <1>2, <1>5 DEF TypeOK, PCs, outs
  <2>19. Counters(b, s)'
    <3>1. InputOf(b, s)' = InputOf(b, s) BY <1>2 DEF InputOf
    <3>2. Counters(b, s) BY DEF IInv
    <3> QED BY <3>1, <3>2, <2>11, <2>12, <2>17, <1>2, <1>9, <1>12, <1>16 DEF Counters
  <2>20. \A z \in Slots : Counters(b, z)' BY <2>17, <2>19, <1>13
  <2> QED BY <2>17, <2>18, <2>20, <1>2, <1>4, <1>7, <1>14, OneWarp
<1> QED BY <1>15, <1>16

\* What a warp emits: the input of a leading warp, moved to the centre of all
\* its low samples, if there are enough of them.
LEMMA EmitEffect ==
  ASSUME BlockAssumption, IInv, NEW b \in Blocks, NEW w \in Warps, Emit(b, w),
         NEW i, i = input_index(b, w)
  PROVE  /\ i \in Nat /\ i = InputOf(b, w \div WarpsPerInput)
         /\ pc[b][w] = "emit" /\ Goto(b, w, "sync_end") /\ UNCHANGED <<share, locals, shared>>
         /\ IF i \in Inputs /\ LowOf(i) >= MinCount /\ w % WarpsPerInput = 0
              THEN /\ outputs_len' = outputs_len + 1
                   /\ outputs' = IF outputs_len < MaxLen
                        THEN Append(outputs, [input |-> i,
                               moved |-> IF MoveCenter THEN Moved(i) ELSE 0])
                        ELSE outputs
              ELSE UNCHANGED outs
<1>1. TypeOK /\ Together(b) /\ Locals(b, w) BY DEF IInv
<1>2. pc[b][w] = "emit" /\ Goto(b, w, "sync_end") /\ UNCHANGED <<share, locals, shared>>
  BY DEF Emit, AfterEmit
<1>3. \A u \in Warps : pc[b][u] # "next" BY <1>1, <1>2 DEF Together
<1>4. i \in Nat /\ i = InputOf(b, w \div WarpsPerInput) BY <1>3, SameInput
<1>5. is_valid_input(b, w) <=> i \in Inputs
  BY <1>4 DEF is_valid_input, Inputs, BlockAssumption
<1>6. i \in Inputs => /\ total_valid[b][w] = LowOf(i)
                      /\ MoveCenter => sum_dx[b][w] = Moved(i)
  BY <1>1, <1>2, <1>5 DEF Locals, Summed
<1> QED BY <1>2, <1>4, <1>5, <1>6 DEF Emit

\* Emitting leaves the counters and the warp's own variables as they are.
LEMMA EmitIInv ==
  ASSUME BlockAssumption, IInv, NEW b \in Blocks, NEW w \in Warps, Emit(b, w)
  PROVE  IInv'
<1>1. TypeOK /\ Own(b, w) /\ Locals(b, w) BY DEF IInv
<1>2. PICK i : i = input_index(b, w) OBVIOUS
<1>3. /\ pc[b][w] = "emit" /\ Goto(b, w, "sync_end") /\ UNCHANGED <<share, locals, shared>>
  BY <1>2, EmitEffect
<1>4. SamePart(pc[b][w], "sync_end") BY <1>3 DEF SamePart, BlockAssumption
<1>5. /\ pc' \in [Blocks -> [Warps -> PCs]] /\ pc'[b][w] = "sync_end"
  <2>1. pc \in [Blocks -> [Warps -> PCs]] BY <1>1 DEF TypeOK, PCs
  <2>2. "sync_end" \in PCs BY DEF PCs, SyncPoints
  <2> QED BY <2>1, <2>2, <1>3, UpdateCell DEF Goto, Update
<1>6. outputs_len' \in Nat /\ outputs' \in Seq([input : Inputs, moved : Int])
  <2>1. outputs_len \in Nat /\ outputs \in Seq([input : Inputs, moved : Int])
    BY <1>1 DEF TypeOK
  <2>2. ASSUME i \in Inputs
        PROVE  [input |-> i, moved |-> IF MoveCenter THEN Moved(i) ELSE 0]
                 \in [input : Inputs, moved : Int]
    BY <2>2, <1>1, ShareTypes
  <2>3. CASE UNCHANGED outs BY <2>1, <2>3 DEF outs
  <2>4. CASE ~UNCHANGED outs
    <3>1. /\ i \in Inputs /\ outputs_len' = outputs_len + 1
          /\ outputs' = IF outputs_len < MaxLen
               THEN Append(outputs, [input |-> i, moved |-> IF MoveCenter THEN Moved(i) ELSE 0])
               ELSE outputs
      BY <2>4, <1>2, EmitEffect
    <3>2. PICK e \in [input : Inputs, moved : Int] :
            e = [input |-> i, moved |-> IF MoveCenter THEN Moved(i) ELSE 0]
      BY <3>1, <2>2
    <3>3. outputs' = outputs \/ outputs' = Append(outputs, e) BY <3>1, <3>2
    <3>4. PICK R : R = [input : Inputs, moved : Int] OBVIOUS
    <3>5. e \in R /\ outputs \in Seq(R) BY <3>2, <3>4, <2>1
    <3>6. Append(outputs, e) \in Seq(R) BY <3>5
    <3>7. outputs' \in Seq(R) BY <3>3, <3>5, <3>6
    <3>8. outputs_len' \in Nat BY <3>1, <2>1
    <3> QED BY <3>4, <3>7, <3>8
  <2> QED BY <2>3, <2>4
<1>7. TypeOK' BY <1>1, <1>3, <1>5, <1>6 DEF TypeOK, PCs, locals, shared
<1>8. Own(b, w)' BY <1>1, <1>3, <1>5 DEF Own, locals
<1>9. Locals(b, w)'
  <2>1. input_index(b, w)' = input_index(b, w) /\ (is_valid_input(b, w)' <=> is_valid_input(b, w))
    BY <1>3 DEF input_index, is_valid_input, locals
  <2>2. LowOf(input_index(b, w))' = LowOf(input_index(b, w)) BY <2>1, <1>3 DEF LowOf
  <2> QED BY <2>1, <2>2, <1>1, <1>3, <1>5 DEF Locals, locals, Summed
<1>10. \A z \in Slots : Counters(b, z)'
  BY <1>3, <1>4, CountersStay DEF Counted, Summed, locals, shared
<1> QED BY <1>3, <1>4, <1>7, <1>8, <1>9, <1>10, OneWarp DEF locals, shared

\* A warp that goes on to its next round is where the others are, or will be.
LEMMA NextInputsIInv ==
  ASSUME BlockAssumption, IInv, NEW b \in Blocks, NEW w \in Warps, NextInputs(b, w)
  PROVE  IInv'
<1>1. TypeOK /\ Own(b, w) /\ Together(b) BY DEF IInv
<1>2. /\ pc[b][w] = "next" /\ Goto(b, w, "loop")
      /\ base' = [base EXCEPT ![b][w] = base[b][w] + Stride(b)]
      /\ UNCHANGED <<share, total_valid, sum_dx, shared_counts, shared_sums, outs>>
  BY DEF NextInputs, Update, shared
<1>3. \A u \in Warps : pc[b][u] \in {"next", "loop", "reset", "sync_reset", "exit"}
  BY <1>1, <1>2 DEF Together
<1>4. /\ pc' \in [Blocks -> [Warps -> PCs]] /\ pc'[b][w] = "loop"
      /\ \A u \in Warps \ {w} : pc'[b][u] = pc[b][u]
      /\ \A c \in Blocks \ {b} : pc'[c] = pc[c]
  <2>1. pc \in [Blocks -> [Warps -> PCs]] BY <1>1 DEF TypeOK, PCs
  <2>2. "loop" \in PCs BY DEF PCs
  <2> QED BY <2>1, <2>2, <1>2, UpdateCell DEF Goto, Update
<1>5. PICK g \in Nat \ {0}, m \in Nat \ {0} :
        g = GridDim /\ m = InputsPerBlock /\ Stride(b) = g * m
  BY DEF BlockAssumption, Stride
<1>6. /\ base' \in [Blocks -> [Warps -> Nat]] /\ base'[b][w] = base[b][w] + g * m
      /\ \A u \in Warps \ {w} : base'[b][u] = base[b][u]
      /\ \A c \in Blocks \ {b} : base'[c] = base[c]
  <2>1. base \in [Blocks -> [Warps -> Nat]] BY <1>1 DEF TypeOK
  <2>2. base[b][w] + g * m \in Nat
    <3>1. g * m \in Nat /\ base[b][w] \in Nat BY <2>1
    <3> QED BY <3>1
  <2>3. base' = [base EXCEPT ![b][w] = base[b][w] + g * m] BY <1>2, <1>5
  <2> QED BY <2>1, <2>2, <2>3, UpdateCell
<1>7. TypeOK' BY <1>1, <1>2, <1>4, <1>6 DEF TypeOK, PCs, outs
<1>8. Together(b)'
  <2>1. \A u \in Warps : NextBase(b, u)' = NextBase(b, u)
    BY <1>2, <1>4, <1>5, <1>6 DEF NextBase, Stride
  <2>2. \A u \in Warps : pc'[b][u] \in {"next", "loop", "reset", "sync_reset", "exit"}
    BY <1>3, <1>4
  <2> QED BY <2>1, <2>2, <1>1 DEF Together
<1>9. Own(b, w)'
  <2>1. PICK q \in Nat : base[b][w] = q * m /\ q % g = b BY <1>1, <1>5 DEF Own
  <2>2. q + g \in Nat /\ base'[b][w] = (q + g) * m
    <3>1. (q + g) * m = q * m + g * m OBVIOUS
    <3> QED BY <3>1, <2>1, <1>6
  <2>3. (q + g) % g = b
    <3>1. PICK p \in Nat : q = p * g + b
      <4>1. q \div g \in Nat /\ q = g * (q \div g) + (q % g) OBVIOUS
      <4>2. g * (q \div g) = (q \div g) * g BY <4>1
      <4> QED BY <4>1, <4>2, <2>1
    <3>2. PICK n \in Nat : n = p + 1 OBVIOUS
    <3>3. b \in 0..(g - 1) BY <1>5 DEF Blocks
    <3>4. PICK x : x = q + g OBVIOUS
    <3>5. x = n * g + b
      <4>1. n * g = p * g + g /\ p * g \in Nat BY <3>2
      <4> QED BY <4>1, <3>1, <3>3, <3>4
    <3>6. x % g = b BY <3>3, <3>5, Division
    <3> QED BY <3>4, <3>6
  <2> QED BY <2>2, <2>3, <1>4, <1>5 DEF Own
<1>10. Locals(b, w)' BY <1>4 DEF Locals, Summed
<1>11. ASSUME NEW u \in Warps \ {w} PROVE Own(b, u)' /\ Locals(b, u)'
  <2>1. Own(b, u)' BY <1>4, <1>6 DEF IInv, Own
  <2>2. pc'[b][u] \in {"next", "loop", "reset", "sync_reset", "exit"} BY <1>3, <1>4
  <2> QED BY <2>1, <2>2 DEF Locals, Summed
<1>12. ASSUME NEW s \in Slots PROVE Counters(b, s)'
  <2>1. 0 \in Warps /\ Counters(b, s) BY FirstWarp DEF IInv
  <2>2. /\ pc'[b][0] \in {"next", "loop", "reset", "sync_reset", "exit"}
        /\ pc'[b][0] = "sync_reset" => pc[b][0] = "sync_reset"
    BY <2>1, <1>3, <1>4
  <2> QED BY <2>1, <2>2, <1>2 DEF Counters, Counted
<1>13. ASSUME NEW c \in Blocks \ {b}
       PROVE  /\ Together(c)'
              /\ \A u \in Warps : Own(c, u)' /\ Locals(c, u)'
              /\ \A s \in Slots : Counters(c, s)'
  BY <1>2, <1>4, <1>6, OtherBlock
<1>14. ASSUME NEW c \in Blocks, NEW u \in Warps PROVE Own(c, u)' /\ Locals(c, u)'
  BY <1>9, <1>10, <1>11, <1>13
<1>15. ASSUME NEW c \in Blocks, NEW s \in Slots PROVE Counters(c, s)' BY <1>12, <1>13
<1>16. ASSUME NEW c \in Blocks PROVE Together(c)' BY <1>8, <1>13
<1> QED BY <1>7, <1>14, <1>15, <1>16 DEF IInv

\* The warps of a block that all wait or have returned do so at the same place.
LEMMA MeetAtOne == ASSUME BlockAssumption, IInv PROVE UniformBarriers
<1> SUFFICES ASSUME NEW b \in Blocks, \A w \in Warps : pc[b][w] \in SyncPoints \cup {"exit"},
                    NEW v \in Warps, NEW w \in Warps
             PROVE  pc[b][v] = pc[b][w]
  BY DEF UniformBarriers
<1>1. Together(b) /\ Own(b, v) /\ Own(b, w) /\ TypeOK BY DEF IInv
<1>2. \/ \A u \in Warps : pc[b][u] \in {"sync_reset", "exit"}
      \/ \A u \in Warps : pc[b][u] = "sync_counts"
      \/ \A u \in Warps : pc[b][u] = "sync_sums"
      \/ \A u \in Warps : pc[b][u] = "sync_end"
  BY <1>1 DEF Together, SyncPoints
<1>3. ASSUME \A u \in Warps : pc[b][u] \in {"sync_reset", "exit"} PROVE pc[b][v] = pc[b][w]
  <2>1. base[b][v] = base[b][w] BY <1>1, <1>3 DEF Together, NextBase
  <2>2. base[b][v] \in Nat /\ InputsLen \in Nat BY <1>1 DEF TypeOK, BlockAssumption
  <2> QED BY <2>1, <2>2, <1>1, <1>3 DEF Own
<1> QED BY <1>2, <1>3

\* What the barrier makes of a phase.
Opened(x) ==
  CASE x = "sync_reset" -> "sample"
    [] x = "sync_counts" -> "read_count"
    [] x = "sync_sums" -> "read_sums"
    [] x = "sync_end" -> "next"
    [] x = "exit" -> "exit"

\* The barrier opens for all warps of a block from the same place.
LEMMA SyncEffect ==
  ASSUME BlockAssumption, IInv, NEW b \in Blocks, syncthreads(b)
  PROVE  \E x \in SyncPoints :
           /\ \A w \in Warps : pc[b][w] = x /\ pc'[b][w] = Opened(x)
           /\ x = "sync_sums" => MoveCenter
           /\ \A c \in Blocks \ {b} : pc'[c] = pc[c]
           /\ pc' \in [Blocks -> [Warps -> PCs]]
           /\ UNCHANGED <<share, locals, shared, outs>>
<1>1. /\ \A w \in Warps : pc[b][w] \in SyncPoints \cup {"exit"}
      /\ pc' = [pc EXCEPT ![b] = [w \in Warps |-> Opened(pc[b][w])]]
      /\ UNCHANGED <<share, locals, shared, outs>>
  BY DEF syncthreads, Opened
<1>2. PICK v \in Warps : pc[b][v] # "exit" BY DEF syncthreads
<1>3. PICK x \in SyncPoints : x = pc[b][v] BY <1>1, <1>2
<1>4. \A w \in Warps : pc[b][w] = x BY <1>1, <1>3, MeetAtOne DEF UniformBarriers
<1>5. x = "sync_sums" => MoveCenter
  <2>1. Together(b) BY DEF IInv
  <2> QED BY <2>1, <1>3 DEF Together
<1>6. Opened(x) \in PCs BY DEF Opened, PCs, SyncPoints
<1>7. pc \in [Blocks -> [Warps -> PCs]] BY DEF IInv, TypeOK, PCs
<1>8. PICK f : f = [w \in Warps |-> Opened(pc[b][w])] OBVIOUS
<1>9. f \in [Warps -> PCs] /\ \A w \in Warps : f[w] = Opened(x) BY <1>4, <1>6, <1>8
<1>10. /\ pc' \in [Blocks -> [Warps -> PCs]] /\ pc'[b] = f
       /\ \A c \in Blocks \ {b} : pc'[c] = pc[c]
  BY <1>1, <1>7, <1>8, <1>9
<1> QED BY <1>1, <1>4, <1>5, <1>9, <1>10

\* Behind the barrier every warp finds what the warps before it were to leave:
\* counters that are reset, then the counts and the sums of all.
LEMMA SyncIInv ==
  ASSUME BlockAssumption, IInv, NEW b \in Blocks, syncthreads(b)
  PROVE  IInv'
<1>1. TypeOK /\ Together(b) BY DEF IInv
<1>2. PICK x \in SyncPoints :
        /\ \A w \in Warps : pc[b][w] = x /\ pc'[b][w] = Opened(x)
        /\ x = "sync_sums" => MoveCenter
        /\ \A c \in Blocks \ {b} : pc'[c] = pc[c]
        /\ pc' \in [Blocks -> [Warps -> PCs]]
        /\ UNCHANGED <<share, locals, shared, outs>>
  BY SyncEffect
<1>3. UNCHANGED <<share, base, total_valid, sum_dx, shared_counts, shared_sums, outs>>
  BY <1>2 DEF locals, shared
<1>4. TypeOK' BY <1>1, <1>2, <1>3 DEF TypeOK, PCs, outs
<1>5. \A w \in Warps : Own(b, w) /\ Locals(b, w) BY DEF IInv
<1>6. \/ x = "sync_reset" /\ Opened(x) = "sample"
      \/ x = "sync_counts" /\ Opened(x) = "read_count"
      \/ x = "sync_sums" /\ Opened(x) = "read_sums" /\ MoveCenter
      \/ x = "sync_end" /\ Opened(x) = "next"
  BY <1>2 DEF SyncPoints, Opened
<1>7. Together(b)'
  <2>1. \A v, w \in Warps : base[b][v] = base[b][w]
    <3>1. x # "next" BY DEF SyncPoints
    <3> QED BY <3>1, <1>1, <1>2 DEF Together, NextBase
  <2>2. \A v, w \in Warps : NextBase(b, v)' = NextBase(b, w)'
    BY <2>1, <1>2, <1>3 DEF NextBase, Stride
  <2>3. MoveCenter \in BOOLEAN BY DEF BlockAssumption
  <2> QED BY <2>2, <2>3, <1>2, <1>6 DEF Together
<1>8. ASSUME NEW w \in Warps PROVE Own(b, w)' /\ Locals(b, w)'
  <2>1. Own(b, w)' BY <1>2, <1>3, <1>5, <1>6 DEF Own
  <2>2. /\ input_index(b, w)' = input_index(b, w) /\ OwnShare(b, w)' = OwnShare(b, w)
        /\ is_valid_input(b, w)' <=> is_valid_input(b, w)
    BY <1>3 DEF input_index, OwnShare, is_valid_input
  <2>3. LowOf(input_index(b, w))' = LowOf(input_index(b, w)) BY <2>2, <1>3 DEF LowOf
  <2>4. Locals(b, w)'
    BY <2>2, <2>3, <1>2, <1>3, <1>5, <1>6 DEF Locals, Summed
  <2> QED BY <2>1, <2>4
<1>9. ASSUME NEW s \in Slots PROVE Counters(b, s)'
  <2>1. 0 \in Warps /\ Counters(b, s) BY FirstWarp DEF IInv
  <2>2. pc[b][0] = x /\ pc'[b][0] = Opened(x) BY <2>1, <1>2
  <2>3. InputOf(b, s)' = InputOf(b, s) BY <1>3 DEF InputOf
  <2>4. \A k \in Ranks : pc[b][WarpOf(s, k)] = x /\ pc'[b][WarpOf(s, k)] = Opened(x)
    BY <1>2, WarpOfSlot
  <2>5. LowSoFar(b, s)' = [k \in Ranks |-> IF pc'[b][WarpOf(s, k)] \in Counted
                             THEN share[InputOf(b, s)][k].low ELSE 0]
    BY <2>3, <1>3 DEF LowSoFar, WarpOf, Counted, Ranks
  <2>6. DxSoFar(b, s)' = [k \in Ranks |-> IF pc'[b][WarpOf(s, k)] \in Summed
                            THEN share[InputOf(b, s)][k].dx ELSE 0]
    BY <2>3, <1>3 DEF DxSoFar, WarpOf, Summed, Ranks
  <2>7. CASE x = "sync_end"
    <3>1. pc'[b][0] = "next" BY <2>2, <2>7, <1>6
    <3> QED BY <3>1 DEF Counters, Counted
  <2>8. CASE x \in {"sync_counts", "sync_sums"}
    <3>1. /\ x \in Counted /\ Opened(x) \in Counted /\ Opened(x) # "sync_reset"
          /\ x \in Summed <=> Opened(x) \in Summed
      BY <2>8, <1>6 DEF Counted, Summed
    <3>2. LowSoFar(b, s)' = LowSoFar(b, s) BY <3>1, <2>4, <2>5 DEF LowSoFar
    <3>3. DxSoFar(b, s)' = DxSoFar(b, s) BY <3>1, <2>4, <2>6 DEF DxSoFar
    <3> QED BY <3>1, <3>2, <3>3, <2>1, <2>2, <2>3, <1>3 DEF Counters
  <2>9. CASE x = "sync_reset"
    <3>1. Opened(x) = "sample" /\ Opened(x) \notin Counted /\ Opened(x) \notin Summed
      BY <2>9, <1>6 DEF Counted, Summed
    <3>2. PICK z : z = [k \in Ranks |-> 0] OBVIOUS
    <3>3. LowSoFar(b, s)' = z BY <3>1, <3>2, <2>4, <2>5
    <3>4. DxSoFar(b, s)' = z BY <3>1, <3>2, <2>4, <2>6
    <3>5. SumOf(z, WarpsPerInput) = 0
      <4>1. z \in [0..(WarpsPerInput - 1) -> Int] /\ \A k \in 0..(WarpsPerInput - 1) : z[k] = 0
        BY <3>2 DEF Ranks
      <4>2. WarpsPerInput \in Nat BY DEF BlockAssumption
      <4> QED BY <4>1, <4>2, SumOfZeros
    <3>6. shared_counts'[b][s] = 0 /\ (MoveCenter => shared_sums'[b][s] = 0)
      BY <2>1, <2>2, <2>9, <1>3 DEF Counters
    <3>7. pc'[b][0] = "sample" BY <3>1, <2>2
    <3> QED BY <3>3, <3>4, <3>5, <3>6, <3>7 DEF Counters
  <2> QED BY <2>7, <2>8, <2>9 DEF SyncPoints
<1>10. ASSUME NEW c \in Blocks \ {b}
       PROVE  /\ Together(c)'
              /\ \A u \in Warps : Own(c, u)' /\ Locals(c, u)'
              /\ \A s \in Slots : Counters(c, s)'
  BY <1>2, <1>3, OtherBlock
<1>11. ASSUME NEW c \in Blocks, NEW u \in Warps PROVE Own(c, u)' /\ Locals(c, u)'
  BY <1>8, <1>10
<1>12. ASSUME NEW c \in Blocks, NEW s \in Slots PROVE Counters(c, s)' BY <1>9, <1>10
<1>13. ASSUME NEW c \in Blocks PROVE Together(c)' BY <1>7, <1>10
<1> QED BY <1>4, <1>11, <1>12, <1>13 DEF IInv

\* Every step keeps the invariant.
LEMMA NextIInv == BlockAssumption /\ IInv /\ [Next]_vars => IInv'
<1> SUFFICES ASSUME BlockAssumption, IInv, [Next]_vars PROVE IInv'
  OBVIOUS
<1>1. CASE UNCHANGED vars
  <2>1. /\ UNCHANGED <<share, pc, base, total_valid, sum_dx, shared_counts, shared_sums>>
        /\ UNCHANGED outs
    BY <1>1 DEF vars, locals, shared
  <2>2. TypeOK' BY <2>1 DEF IInv, TypeOK, outs
  <2>3. ASSUME NEW c \in Blocks
        PROVE  /\ Together(c)'
               /\ \A u \in Warps : Own(c, u)' /\ Locals(c, u)'
               /\ \A s \in Slots : Counters(c, s)'
    BY <2>1, OtherBlock
  <2> QED BY <2>2, <2>3 DEF IInv
<1>2. ASSUME NEW b \in Blocks, syncthreads(b) PROVE IInv' BY <1>2, SyncIInv
<1>3. ASSUME NEW b \in Blocks, NEW w \in Warps, WarpStep(b, w) PROVE IInv'
  BY <1>3, LoopIInv, ResetIInv, SampleIInv, ReadCountIInv, AddSumsIInv, ReadSumsIInv,
     EmitIInv, NextInputsIInv DEF WarpStep
<1>4. CASE Done BY <1>1, <1>4 DEF Done
<1> QED BY <1>1, <1>2, <1>3, <1>4 DEF Next

\* For any numbers of blocks, slots, warps and inputs, and for any samples: the
\* warps of a block stay together, and the counters in shared memory hold what
\* the warps of the slot's own input have contributed.
THEOREM BlockInvariant == BlockAssumption => (Spec => []IInv)
<1> SUFFICES ASSUME BlockAssumption PROVE Spec => []IInv
  OBVIOUS
<1>1. Init => IInv BY InitIInv
<1>2. IInv /\ [Next]_vars => IInv' BY NextIInv
<1> QED BY <1>1, <1>2, PTL DEF Spec

\* The types of the kernel's variables; a shared counter never holds more than
\* the samples of one input.
THEOREM TypeCorrect == BlockAssumption => (Spec => []TypeOK)
<1>1. IInv => TypeOK BY DEF IInv
<1> QED BY <1>1, BlockInvariant, PTL

\* No warp waits at a __syncthreads while another of its block has returned or
\* waits at a different one.
THEOREM BarriersUniform == BlockAssumption => (Spec => []UniformBarriers)
<1> SUFFICES ASSUME BlockAssumption PROVE Spec => []UniformBarriers
  OBVIOUS
<1>1. IInv => UniformBarriers BY MeetAtOne
<1>2. Spec => []IInv BY BlockInvariant
<1> QED BY <1>1, <1>2, PTL

-----------------------------------------------------------------------------
(***************************************************************************)
(* The kernel implements FilterKernel.                                     *)
(***************************************************************************)
\* What Total makes of the totals of fewer warps.
TotalOf(F) ==
  [n \in 0..WarpsPerInput |->
    IF n = 0 THEN [i \in Inputs |-> [low |-> 0, dx |-> 0]]
    ELSE [i \in Inputs |-> [low |-> F[n - 1][i].low + share[i][n - 1].low,
                            dx |-> F[n - 1][i].dx + share[i][n - 1].dx]]]

\* The recursive definition of the totals defines them: they are the sums of
\* what the warps contribute.
LEMMA TotalIs ==
  ASSUME BlockAssumption, TypeOK, NEW i \in Inputs
  PROVE  Total[WarpsPerInput][i] = [low |-> LowOf(i), dx |-> DxOf(i)]
<1> DEFINE W == WarpsPerInput
           L(j) == PrefixSum([k \in Ranks |-> share[j][k].low], W)
           D(j) == PrefixSum([k \in Ranks |-> share[j][k].dx], W)
           T == [n \in 0..W |-> [j \in Inputs |-> [low |-> L(j)[n], dx |-> D(j)[n]]]]
<1>1. Total = CHOOSE F : F = TotalOf(F) BY DEF Total, TotalOf
<1>2. W \in Nat BY DEF BlockAssumption
<1>3. ASSUME NEW j \in Inputs
      PROVE  /\ L(j)[0] = 0 /\ \A n \in 1..W : L(j)[n] = L(j)[n - 1] + share[j][n - 1].low
             /\ D(j)[0] = 0 /\ \A n \in 1..W : D(j)[n] = D(j)[n - 1] + share[j][n - 1].dx
  <2>1. PICK f, g : /\ f = [k \in Ranks |-> share[j][k].low]
                    /\ g = [k \in Ranks |-> share[j][k].dx]
    OBVIOUS
  <2>2. \A k \in Ranks : share[j][k].low \in 0..WarpSamples /\ share[j][k].dx \in Int
    BY ShareTypes
  <2>3. f \in [0..(W - 1) -> Int] /\ g \in [0..(W - 1) -> Int]
    <3>1. 0..WarpSamples \subseteq Int OBVIOUS
    <3> QED BY <3>1, <2>1, <2>2 DEF Ranks
  <2>4. IsPrefixSum(PrefixSum(f, W), f, W) /\ IsPrefixSum(PrefixSum(g, W), g, W)
    BY <2>3, <1>2, SumExists
  <2>5. L(j) = PrefixSum(f, W) /\ D(j) = PrefixSum(g, W) BY <2>1
  <2>6. \A n \in 1..W : f[n - 1] = share[j][n - 1].low /\ g[n - 1] = share[j][n - 1].dx
    <3>1. \A n \in 1..W : n - 1 \in Ranks BY <1>2 DEF Ranks
    <3> QED BY <3>1, <2>1
  <2> HIDE DEF L, D
  <2> QED BY <2>4, <2>5, <2>6 DEF IsPrefixSum
<1> HIDE DEF L, D
<1>4. \A n \in 0..W : T[n] = [j \in Inputs |-> [low |-> L(j)[n], dx |-> D(j)[n]]] OBVIOUS
<1>5. T = TotalOf(T)
  <2>1. ASSUME NEW n \in 0..W
        PROVE  T[n] = IF n = 0 THEN [j \in Inputs |-> [low |-> 0, dx |-> 0]]
                 ELSE [j \in Inputs |-> [low |-> T[n - 1][j].low + share[j][n - 1].low,
                                         dx |-> T[n - 1][j].dx + share[j][n - 1].dx]]
    <3>1. CASE n = 0
      <4>1. \A j \in Inputs : L(j)[0] = 0 /\ D(j)[0] = 0 BY <1>3
      <4>2. T[n] = [j \in Inputs |-> [low |-> L(j)[n], dx |-> D(j)[n]]] BY <1>4
      <4> HIDE DEF T
      <4> QED BY <4>1, <4>2, <3>1
    <3>2. CASE n # 0
      <4>1. n \in 1..W /\ n - 1 \in 0..W BY <3>2, <1>2
      <4>2. T[n - 1] = [j \in Inputs |-> [low |-> L(j)[n - 1], dx |-> D(j)[n - 1]]]
        BY <4>1, <1>4
      <4>3. \A j \in Inputs : /\ L(j)[n] = T[n - 1][j].low + share[j][n - 1].low
                              /\ D(j)[n] = T[n - 1][j].dx + share[j][n - 1].dx
        <5> HIDE DEF T
        <5> QED BY <4>1, <4>2, <1>3
      <4>4. T[n] = [j \in Inputs |-> [low |-> L(j)[n], dx |-> D(j)[n]]] BY <1>4
      <4> HIDE DEF T
      <4> QED BY <4>3, <4>4, <3>2
    <3> QED BY <3>1, <3>2
  <2>2. T = [n \in 0..W |-> T[n]] OBVIOUS
  <2> HIDE DEF T
  <2> QED BY <2>1, <2>2 DEF TotalOf
<1> HIDE DEF T
<1>6. Total = TotalOf(Total)
  <2>1. \E F : F = TotalOf(F) BY <1>5
  <2> QED BY <2>1, <1>1
<1>7. \A n \in 0..W :
        Total[n][i] = IF n = 0 THEN [low |-> 0, dx |-> 0]
          ELSE [low |-> Total[n - 1][i].low + share[i][n - 1].low,
                dx |-> Total[n - 1][i].dx + share[i][n - 1].dx]
  <2>1. PICK F : F = Total OBVIOUS
  <2>2. F = TotalOf(F) BY <2>1, <1>6
  <2>3. \A n \in 0..W : F[n] = IF n = 0 THEN [j \in Inputs |-> [low |-> 0, dx |-> 0]]
          ELSE [j \in Inputs |-> [low |-> F[n - 1][j].low + share[j][n - 1].low,
                                  dx |-> F[n - 1][j].dx + share[j][n - 1].dx]]
    <3>1. PICK R : R = TotalOf(F) OBVIOUS
    <3>2. \A n \in 0..W : R[n] = IF n = 0 THEN [j \in Inputs |-> [low |-> 0, dx |-> 0]]
            ELSE [j \in Inputs |-> [low |-> F[n - 1][j].low + share[j][n - 1].low,
                                    dx |-> F[n - 1][j].dx + share[j][n - 1].dx]]
      BY <3>1 DEF TotalOf
    <3> QED BY <3>1, <3>2, <2>2
  <2>4. ASSUME NEW n \in 0..W, n = 0 PROVE F[n][i] = [low |-> 0, dx |-> 0]
    <3>1. F[n] = [j \in Inputs |-> [low |-> 0, dx |-> 0]] BY <2>3, <2>4
    <3> QED BY <3>1
  <2>5. ASSUME NEW n \in 0..W, n # 0
        PROVE  F[n][i] = [low |-> F[n - 1][i].low + share[i][n - 1].low,
                          dx |-> F[n - 1][i].dx + share[i][n - 1].dx]
    <3>1. F[n] = [j \in Inputs |-> [low |-> F[n - 1][j].low + share[j][n - 1].low,
                                    dx |-> F[n - 1][j].dx + share[j][n - 1].dx]]
      BY <2>3, <2>5
    <3> QED BY <3>1
  <2> QED BY <2>1, <2>4, <2>5
<1> DEFINE Good == {n \in 0..W : Total[n][i] = [low |-> L(i)[n], dx |-> D(i)[n]]}
<1>8. 0 \in Good
  <2>1. 0 \in 0..W BY <1>2
  <2>2. Total[0][i] = [low |-> 0, dx |-> 0] BY <2>1, <1>7
  <2>3. L(i)[0] = 0 /\ D(i)[0] = 0 BY <1>3
  <2> QED BY <2>1, <2>2, <2>3
<1>9. ASSUME NEW n \in 0..W, n + 1 \in 0..W, n \in Good PROVE n + 1 \in Good
  <2>1. n + 1 \in 1..W /\ (n + 1) - 1 = n /\ n + 1 # 0 BY <1>2, <1>9
  <2>2. L(i)[n + 1] = L(i)[n] + share[i][n].low /\ D(i)[n + 1] = D(i)[n] + share[i][n].dx
    BY <2>1, <1>3
  <2>3. Total[n + 1][i] = [low |-> Total[n][i].low + share[i][n].low,
                           dx |-> Total[n][i].dx + share[i][n].dx]
    BY <2>1, <1>7, <1>9
  <2>4. Total[n][i].low = L(i)[n] /\ Total[n][i].dx = D(i)[n] BY <1>9
  <2> QED BY <2>2, <2>3, <2>4, <1>9
<1> HIDE DEF Good
<1>10. 0..W \subseteq Good BY <1>2, <1>8, <1>9, UpTo
<1>11. Total[W][i] = [low |-> L(i)[W], dx |-> D(i)[W]] BY <1>2, <1>10 DEF Good
<1>12. L(i)[W] = LowOf(i) /\ D(i)[W] = DxOf(i) BY DEF L, D, LowOf, DxOf, SumOf
<1> QED BY <1>11, <1>12

\* The round, slot, block and leading warp of an input, and when it is decided.
Place(i, q, s, c, u) ==
  /\ i = q * InputsPerBlock + s /\ q = i \div InputsPerBlock /\ s = i % InputsPerBlock
  /\ c = q % GridDim /\ c <= q
  /\ u = WarpOf(s, 0) /\ u \div WarpsPerInput = s /\ u % WarpsPerInput = 0
  /\ Decided(i) <=>
       \/ base[c][u] > q * InputsPerBlock
       \/ base[c][u] = q * InputsPerBlock /\ pc[c][u] \in {"sync_end", "next"}
  /\ Decided(i)' <=>
       \/ base'[c][u] > q * InputsPerBlock
       \/ base'[c][u] = q * InputsPerBlock /\ pc'[c][u] \in {"sync_end", "next"}

\* Every input has its place.
LEMMA PlaceOf ==
  ASSUME BlockAssumption, NEW i \in Inputs
  PROVE  \E q \in Nat, s \in Slots, c \in Blocks, u \in Warps : Place(i, q, s, c, u)
<1>1. PICK g \in Nat \ {0}, m \in Nat \ {0}, n \in Nat \ {0} :
        g = GridDim /\ m = InputsPerBlock /\ n = WarpsPerInput
  BY DEF BlockAssumption
<1>2. i \in Nat BY DEF Inputs, BlockAssumption
<1>3. PICK q \in Nat, s \in 0..(m - 1) : q = i \div m /\ s = i % m /\ i = m * q + s
  <2>1. i \div m \in Nat /\ i % m \in 0..(m - 1) /\ i = m * (i \div m) + (i % m) BY <1>2
  <2> QED BY <2>1
<1>4. i = q * m + s BY <1>3
<1>5. s \in Slots BY <1>1, <1>3 DEF Slots
<1>6. PICK c \in 0..(g - 1) : c = q % g /\ c <= q BY SameRemainder
<1>7. c \in Blocks BY <1>1, <1>6 DEF Blocks
<1>8. PICK u \in Warps : /\ u = WarpOf(s, 0) /\ u \div WarpsPerInput = s
                         /\ u % WarpsPerInput = 0
  BY <1>5, FirstWarp, WarpOfSlot
<1>9. u = s * n
  <2>1. s * n \in Nat BY <1>3
  <2> QED BY <2>1, <1>1, <1>8 DEF WarpOf
<1>10. i - s = q * m
  <2>1. q * m \in Nat BY <1>3
  <2> QED BY <2>1, <1>3, <1>4
<1>11. /\ Decided(i) <=>
            \/ base[c][u] > q * m
            \/ base[c][u] = q * m /\ pc[c][u] \in {"sync_end", "next"}
       /\ Decided(i)' <=>
            \/ base'[c][u] > q * m
            \/ base'[c][u] = q * m /\ pc'[c][u] \in {"sync_end", "next"}
  BY <1>1, <1>3, <1>6, <1>9, <1>10 DEF Decided
<1>12. Place(i, q, s, c, u) BY <1>1, <1>3, <1>4, <1>6, <1>8, <1>11 DEF Place
<1> QED BY <1>5, <1>7, <1>12

\* The verdict in terms of the sums.
LEMMA VerdictIs ==
  ASSUME BlockAssumption, TypeOK, NEW i \in Inputs
  PROVE  /\ LowOf(i) < MinCount => Verdict(i) = NotAnInput
         /\ LowOf(i) >= MinCount =>
              /\ Verdict(i) = [input |-> i, moved |-> IF MoveCenter THEN Moved(i) ELSE 0]
              /\ Verdict(i) # NotAnInput
         /\ LowOf(i) < MinCount \/ LowOf(i) >= MinCount
         /\ Verdict(i) \in [input : Inputs, moved : Int] \cup {NotAnInput}
<1>1. Total[WarpsPerInput][i] = [low |-> LowOf(i), dx |-> DxOf(i)] BY TotalIs
<1>2. MinCount \in Nat \ {0} BY DEF BlockAssumption
<1>3. LowOf(i) \in Nat /\ Moved(i) \in Int
  <2>1. LowOf(i) \in 0..(WarpsPerInput * WarpSamples) /\ Moved(i) \in Int BY ShareTypes
  <2>2. PICK n \in Nat : n = WarpsPerInput * WarpSamples BY DEF BlockAssumption
  <2> QED BY <2>1, <2>2
<1>4. Verdict(i) = IF LowOf(i) < MinCount THEN NotAnInput
        ELSE [input |-> i, moved |-> IF MoveCenter THEN Quotient(DxOf(i), LowOf(i)) ELSE 0]
  BY <1>1 DEF Verdict
<1>5. LowOf(i) < MinCount \/ (LowOf(i) >= MinCount /\ ~(LowOf(i) < MinCount))
  BY <1>2, <1>3
<1>6. LowOf(i) >= MinCount => LowOf(i) # 0 BY <1>2, <1>3
<1>7. LowOf(i) >= MinCount => ~(LowOf(i) < MinCount) BY <1>2, <1>3
<1>8. LowOf(i) >= MinCount =>
        Verdict(i) = [input |-> i, moved |-> IF MoveCenter THEN Moved(i) ELSE 0]
  BY <1>4, <1>6, <1>7 DEF Moved
<1>9. i # -1 BY DEF Inputs, BlockAssumption
<1>10. LowOf(i) >= MinCount => Verdict(i).input = i BY <1>8
<1>11. NotAnInput.input = -1 BY DEF NotAnInput
<1>12. (IF MoveCenter THEN Moved(i) ELSE 0) \in Int BY <1>3
<1>13. LowOf(i) >= MinCount => Verdict(i) \in [input : Inputs, moved : Int]
  BY <1>8, <1>12
<1> QED BY <1>4, <1>5, <1>8, <1>9, <1>10, <1>11, <1>13

\* At the start nothing is decided.
LEMMA InitAbstract == ASSUME BlockAssumption, Init PROVE Abstract!Init
<1>1. TypeOK BY InitIInv DEF IInv
<1>2. ASSUME NEW i \in Inputs PROVE ~Decided(i)
  <2>0. PICK q \in Nat, s \in Slots, c \in Blocks, u \in Warps : Place(i, q, s, c, u)
    BY PlaceOf
  <2>1. /\ c <= q
        /\ Decided(i) <=>
             \/ base[c][u] > q * InputsPerBlock
             \/ base[c][u] = q * InputsPerBlock /\ pc[c][u] \in {"sync_end", "next"}
    BY <2>0 DEF Place
  <2>2. base[c][u] = c * InputsPerBlock /\ pc[c][u] = "loop" BY DEF Init
  <2>3. c \in Nat /\ InputsPerBlock \in Nat \ {0} BY DEF Blocks, BlockAssumption
  <2>4. PICK x \in Nat, y \in Nat : x = c * InputsPerBlock /\ y = q * InputsPerBlock
    BY <2>3, Multiples
  <2>5. ~(x > y)
    <3>1. c < q \/ c = q BY <2>1, <2>3
    <3>2. (c < q => x < y) /\ (c = q => x = y) BY <2>3, <2>4, Multiples
    <3> QED BY <3>1, <3>2
  <2> QED BY <2>1, <2>2, <2>4, <2>5
<1>3. {i \in Inputs : ~Decided(i)} = Inputs BY <1>2
<1>4. \A i \in Inputs : Verdict(i) \in [input : Inputs, moved : Int] \cup {NotAnInput}
  BY <1>1, VerdictIs
<1> QED BY <1>3, <1>4 DEF Init, Abstract!Init

\* A step after which the same inputs are decided and nothing is appended.
LEMMA Stutters ==
  ASSUME \A i \in Inputs : Decided(i)' <=> Decided(i), UNCHANGED <<share, outs>>
  PROVE  UNCHANGED Abstract!vars
<1>1. {i \in Inputs : ~Decided(i)}' = {i \in Inputs : ~Decided(i)} OBVIOUS
<1>2. Total' = Total BY DEF Total
<1>3. [i \in Inputs |-> Verdict(i)]' = [i \in Inputs |-> Verdict(i)] BY <1>2 DEF Verdict
<1> QED BY <1>1, <1>3 DEF Abstract!vars, outs

\* Only emitting and going on to the next round could decide anything.
LEMMA QuietStep ==
  ASSUME BlockAssumption, base' = base, UNCHANGED <<share, outs>>,
         \A c \in Blocks, u \in Warps :
           pc'[c][u] \in {"sync_end", "next"} <=> pc[c][u] \in {"sync_end", "next"}
  PROVE  UNCHANGED Abstract!vars
<1>1. ASSUME NEW i \in Inputs PROVE Decided(i)' <=> Decided(i)
  <2>1. PICK q \in Nat, s \in Slots, c \in Blocks, u \in Warps : Place(i, q, s, c, u)
    BY PlaceOf
  <2> QED BY <2>1 DEF Place
<1> QED BY <1>1, Stutters

\* Going on to the next round decides nothing: the input of this round was
\* decided before, and no round between the two is the block's.
LEMMA NextInputsStutters ==
  ASSUME BlockAssumption, IInv, NEW b \in Blocks, NEW w \in Warps, NextInputs(b, w)
  PROVE  UNCHANGED Abstract!vars
<1>1. TypeOK /\ Own(b, w) BY DEF IInv
<1>2. /\ pc[b][w] = "next" /\ Goto(b, w, "loop")
      /\ base' = [base EXCEPT ![b][w] = base[b][w] + Stride(b)]
      /\ UNCHANGED <<share, outs>>
  BY DEF NextInputs, Update
<1>3. PICK g \in Nat \ {0}, m \in Nat \ {0} :
        g = GridDim /\ m = InputsPerBlock /\ Stride(b) = g * m
  BY DEF BlockAssumption, Stride
<1>4. /\ pc'[b][w] = "loop" /\ base'[b][w] = base[b][w] + g * m
      /\ \A c \in Blocks, u \in Warps :
           c # b \/ u # w => pc'[c][u] = pc[c][u] /\ base'[c][u] = base[c][u]
  BY <1>1, <1>2, <1>3 DEF Goto, Update, TypeOK
<1>5. PICK p \in Nat : base[b][w] = p * m /\ p % g = b BY <1>1, <1>3 DEF Own
<1>6. ASSUME NEW i \in Inputs PROVE Decided(i)' <=> Decided(i)
  <2>0. PICK q \in Nat, s \in Slots, c \in Blocks, u \in Warps : Place(i, q, s, c, u)
    BY PlaceOf
  <2>1. /\ c = q % g
        /\ Decided(i) <=> \/ base[c][u] > q * m
                          \/ base[c][u] = q * m /\ pc[c][u] \in {"sync_end", "next"}
        /\ Decided(i)' <=> \/ base'[c][u] > q * m
                           \/ base'[c][u] = q * m /\ pc'[c][u] \in {"sync_end", "next"}
    BY <2>0, <1>3 DEF Place
  <2>2. CASE c # b \/ u # w BY <2>1, <2>2, <1>4
  <2>3. CASE c = b /\ u = w
    <3>1. PICK x \in Nat, y \in Nat, z \in Nat, n \in Nat :
            x = p * m /\ y = q * m /\ n = p + g /\ z = n * m
      BY Multiples
    <3>2. base[b][w] = x /\ base'[b][w] = z
      <4>1. (p + g) * m = p * m + g * m OBVIOUS
      <4> QED BY <4>1, <3>1, <1>4, <1>5
    <3>3. Decided(i) <=> x > y \/ x = y BY <3>1, <3>2, <2>1, <2>3, <1>2
    <3>4. Decided(i)' <=> z > y BY <3>1, <3>2, <2>1, <2>3, <1>4
    <3>5. p < q => n <= q BY <3>1, <2>1, <2>3, <1>5, SameRemainder
    <3>6. (p < q <=> x < y) /\ (p = q <=> x = y) /\ (q < n <=> y < z)
      <4>1. (p < q <=> x < y) /\ (p = q <=> x = y) BY <3>1, Multiples
      <4>2. q < n <=> y < z BY <3>1, Multiples
      <4> QED BY <4>1, <4>2
    <3>7. (q < n) <=> ~(p < q) BY <3>1, <3>5
    <3> QED BY <3>1, <3>3, <3>4, <3>6, <3>7
  <2> QED BY <2>2, <2>3
<1> QED BY <1>2, <1>6, Stutters

\* A leading warp that emits decides its input, if that exists: the input was
\* undecided, it is the only one decided now, and it is appended at the centre
\* of its low samples if there are enough of them.  Other warps decide nothing.
LEMMA EmitStep ==
  ASSUME BlockAssumption, IInv, NEW b \in Blocks, NEW w \in Warps, Emit(b, w)
  PROVE  Abstract!Next \/ UNCHANGED Abstract!vars
<1>1. TypeOK /\ Own(b, w) BY DEF IInv
<1>2. PICK i : i = input_index(b, w) OBVIOUS
<1>3. /\ i \in Nat
      /\ pc[b][w] = "emit" /\ Goto(b, w, "sync_end") /\ UNCHANGED <<share, base>>
      /\ IF i \in Inputs /\ LowOf(i) >= MinCount /\ w % WarpsPerInput = 0
           THEN /\ outputs_len' = outputs_len + 1
                /\ outputs' = IF outputs_len < MaxLen
                     THEN Append(outputs, [input |-> i,
                            moved |-> IF MoveCenter THEN Moved(i) ELSE 0])
                     ELSE outputs
           ELSE UNCHANGED outs
  BY <1>2, EmitEffect DEF locals
<1>4. /\ pc'[b][w] = "sync_end"
      /\ \A c \in Blocks, u \in Warps : c # b \/ u # w => pc'[c][u] = pc[c][u]
  BY <1>1, <1>3 DEF Goto, Update, TypeOK
<1>5. PICK g \in Nat \ {0}, m \in Nat \ {0} : g = GridDim /\ m = InputsPerBlock
  BY DEF BlockAssumption
<1>6. PICK p \in Nat : base[b][w] = p * m /\ p % g = b BY <1>1, <1>5 DEF Own
<1>7. PICK s \in Slots : s = w \div WarpsPerInput /\ s \in 0..(m - 1)
  BY <1>5, SlotOfWarp DEF Slots
<1>8. i = p * m + s BY <1>2, <1>6, <1>7 DEF input_index, block_input_index
<1>9. i \div m = p /\ i % m = s
  <2>1. s \in 0..(m - 1) BY <1>7
  <2> QED BY ONLY <2>1, <1>8, m \in Nat \ {0}, p \in Nat, Division
\* What the step decides of an input j.
<1>10. ASSUME NEW j \in Inputs
       PROVE  \/ Decided(j)' <=> Decided(j)
              \/ j = i /\ w % WarpsPerInput = 0 /\ ~Decided(j) /\ Decided(j)'
  <2>0. PICK q \in Nat, r \in Slots, c \in Blocks, u \in Warps : Place(j, q, r, c, u)
    BY PlaceOf
  <2>1. /\ j = q * m + r /\ u \div WarpsPerInput = r /\ u % WarpsPerInput = 0
        /\ Decided(j) <=> \/ base[c][u] > q * m
                          \/ base[c][u] = q * m /\ pc[c][u] \in {"sync_end", "next"}
        /\ Decided(j)' <=> \/ base'[c][u] > q * m
                           \/ base'[c][u] = q * m /\ pc'[c][u] \in {"sync_end", "next"}
    BY <2>0, <1>5 DEF Place
  <2>2. CASE c # b \/ u # w BY <2>1, <2>2, <1>3, <1>4
  <2>3. CASE c = b /\ u = w
    <3>1. PICK x \in Nat, y \in Nat : x = p * m /\ y = q * m BY Multiples
    <3>2. r = s BY <2>1, <2>3, <1>7
    <3>3. Decided(j) <=> x > y BY <3>1, <2>1, <2>3, <1>3, <1>6
    <3>4. Decided(j)' <=> x > y \/ x = y BY <3>1, <2>1, <2>3, <1>3, <1>4, <1>6
    <3>5. x = y => j = i BY <3>1, <3>2, <2>1, <1>8
    <3>6. x = y => ~(x > y) BY <3>1
    <3> QED BY <3>3, <3>4, <3>5, <3>6, <2>1, <2>3
  <2> QED BY <2>2, <2>3
<1>11. CASE ~(i \in Inputs /\ w % WarpsPerInput = 0)
  <2>1. \A j \in Inputs : Decided(j)' <=> Decided(j) BY <1>10, <1>11
  <2>2. UNCHANGED <<share, outs>> BY <1>3, <1>11
  <2> QED BY <2>1, <2>2, Stutters
<1>12. CASE i \in Inputs /\ w % WarpsPerInput = 0
  <2>1. ~Decided(i) /\ Decided(i)'
    <3>0. PICK q \in Nat, r \in Slots, c \in Blocks, u \in Warps : Place(i, q, r, c, u)
      BY <1>12, PlaceOf
    <3>1. /\ q = i \div m /\ r = i % m /\ c = q % g /\ u = WarpOf(r, 0)
          /\ Decided(i) <=> \/ base[c][u] > q * m
                            \/ base[c][u] = q * m /\ pc[c][u] \in {"sync_end", "next"}
          /\ Decided(i)' <=> \/ base'[c][u] > q * m
                             \/ base'[c][u] = q * m /\ pc'[c][u] \in {"sync_end", "next"}
      BY <3>0, <1>5 DEF Place
    <3>2. q = p /\ r = s /\ c = b BY <3>1, <1>6, <1>9
    <3>3. u = w BY <3>1, <3>2, <1>7, <1>12, SlotOfWarp
    <3>4. PICK x \in Nat : x = p * m BY Multiples
    <3>5. ~(x > x) BY <3>4
    <3> QED BY <3>1, <3>2, <3>3, <3>4, <3>5, <1>3, <1>4, <1>6
  <2> DEFINE Todo == {j \in Inputs : ~Decided(j)}
             V == [j \in Inputs |-> Verdict(j)]
  <2>2. i \in Todo /\ Todo' = Todo \ {i}
    <3>1. \A j \in Inputs : j # i => (Decided(j)' <=> Decided(j)) BY <1>10
    <3> QED BY <3>1, <2>1, <1>12
  <2>3. V' = V
    <3>1. Total' = Total BY <1>3 DEF Total
    <3> QED BY <3>1, <1>3 DEF Verdict
  <2>4. V[i] = Verdict(i) BY <1>12
  <2> HIDE DEF Todo, V
  <2>5. IF V[i] = NotAnInput
          THEN UNCHANGED <<outputs_len, outputs>>
          ELSE /\ outputs_len' = outputs_len + 1
               /\ outputs' = IF outputs_len < MaxLen THEN Append(outputs, V[i]) ELSE outputs
    <3>1. /\ LowOf(i) < MinCount => Verdict(i) = NotAnInput
          /\ LowOf(i) >= MinCount =>
               /\ Verdict(i) = [input |-> i, moved |-> IF MoveCenter THEN Moved(i) ELSE 0]
               /\ Verdict(i) # NotAnInput
          /\ LowOf(i) < MinCount \/ LowOf(i) >= MinCount
      BY <1>1, <1>12, VerdictIs
    <3>2. CASE LowOf(i) >= MinCount BY <3>1, <3>2, <2>4, <1>3, <1>12
    <3>3. CASE ~(LowOf(i) >= MinCount) BY <3>1, <3>3, <2>4, <1>3 DEF outs
    <3> QED BY <3>2, <3>3
  <2>6. Abstract!Decide(i) BY <2>2, <2>3, <2>5 DEF Abstract!Decide, Todo, V
  <2> QED BY <2>2, <2>6 DEF Abstract!Next, Todo
<1> QED BY <1>11, <1>12

\* Every step is one of FilterKernel's, or changes nothing it can see.
LEMMA NextAbstract ==
  ASSUME BlockAssumption, IInv, [Next]_vars
  PROVE  [Abstract!Next]_(Abstract!vars)
<1>0. TypeOK BY DEF IInv
<1>1. CASE UNCHANGED vars
  <2>1. UNCHANGED Abstract!vars BY <1>1, QuietStep DEF vars, locals
  <2> QED BY <2>1
<1>2. ASSUME NEW b \in Blocks, syncthreads(b) PROVE UNCHANGED Abstract!vars
  <2>1. PICK x \in SyncPoints :
          /\ \A w \in Warps : pc[b][w] = x /\ pc'[b][w] = Opened(x)
          /\ \A c \in Blocks \ {b} : pc'[c] = pc[c]
          /\ UNCHANGED <<share, locals, shared, outs>>
    BY <1>2, SyncEffect
  <2>2. Opened(x) \in {"sync_end", "next"} <=> x \in {"sync_end", "next"}
    BY DEF Opened, SyncPoints
  <2>3. \A c \in Blocks, u \in Warps :
          pc'[c][u] \in {"sync_end", "next"} <=> pc[c][u] \in {"sync_end", "next"}
    BY <2>1, <2>2
  <2> QED BY <2>1, <2>3, QuietStep DEF locals
<1>3. ASSUME NEW b \in Blocks, NEW w \in Warps, NEW x, x \notin {"sync_end", "next"},
             pc[b][w] \notin {"sync_end", "next"}, Goto(b, w, x),
             UNCHANGED <<share, base, outs>>
      PROVE  UNCHANGED Abstract!vars
  <2>1. \A c \in Blocks, u \in Warps : pc'[c][u] = IF c = b /\ u = w THEN x ELSE pc[c][u]
    BY <1>0, <1>3 DEF Goto, Update, TypeOK
  <2> QED BY <2>1, <1>3, QuietStep
<1>4. ASSUME NEW b \in Blocks, NEW w \in Warps,
             \/ Loop(b, w) \/ Reset(b, w) \/ Sample(b, w) \/ ReadCount(b, w)
             \/ AddSums(b, w) \/ ReadSums(b, w)
      PROVE  UNCHANGED Abstract!vars
  <2>1. \E x : /\ x \notin {"sync_end", "next"} /\ pc[b][w] \notin {"sync_end", "next"}
               /\ Goto(b, w, x) /\ UNCHANGED <<share, base, outs>>
    <3>1. CASE Loop(b, w) BY <3>1 DEF Loop, locals
    <3>2. CASE Reset(b, w) BY <3>2 DEF Reset
    <3>3. CASE Sample(b, w) BY <3>3 DEF Sample
    <3>4. CASE ReadCount(b, w) BY <3>4 DEF ReadCount
    <3>5. CASE AddSums(b, w) BY <3>5 DEF AddSums, locals
    <3>6. CASE ReadSums(b, w) BY <3>6 DEF ReadSums
    <3> QED BY <3>1, <3>2, <3>3, <3>4, <3>5, <3>6, <1>4
  <2> QED BY <2>1, <1>3
<1>5. CASE Done BY <1>1, <1>5 DEF Done
<1> QED BY <1>1, <1>2, <1>4, <1>5, NextInputsStutters, EmitStep DEF Next, WarpStep

\* KernelFilter2 judges every input once, by the low samples of all its warps in
\* whatever order they are added and by nobody else's, and appends what passes
\* at the centre of its own samples, for any numbers of blocks, slots, warps and
\* inputs.
THEOREM Filter2ImplementsFilter == BlockAssumption => (Spec => ImplementsFilter)
<1> SUFFICES ASSUME BlockAssumption PROVE Spec => ImplementsFilter
  OBVIOUS
<1>1. Init => Abstract!Init BY InitAbstract
<1>2. IInv /\ [Next]_vars => [Abstract!Next]_(Abstract!vars) BY NextAbstract
<1>3. Spec => []IInv BY BlockInvariant
<1> QED BY <1>1, <1>2, <1>3, PTL DEF Spec, ImplementsFilter, Abstract!Spec

=============================================================================

-------------------------------- MODULE Xrsr --------------------------------
(***************************************************************************)
(* The generator XrsrRandom of Random.h, stepped as init_noise and the     *)
(* forks use it, against the shortcuts of gpu.cu that replace it: the fork *)
(* of a seed and two forks in a row computed without a generator, and the  *)
(* y offset of an octave from a fork whose state was advanced once for all *)
(* octaves, before the octave's hash is mixed in.                          *)
(*                                                                         *)
(* Words have Bits bits; the code's 64-bit rotations, shifts and           *)
(* multipliers become constants of that width.                             *)
(***************************************************************************)
EXTENDS Integers, Sequences, Bitwise

CONSTANTS
  Bits,                \* 64
  Rol17, Rol49, Rol28, \* rotations of nextInternal
  Shl21,               \* its shift
  MixShifts,           \* <<30, 27, 31>>
  Mix1, Mix2,          \* XRSR_MIX1, XRSR_MIX2
  Silver, Golden,      \* XRSR_SILVER_RATIO, XRSR_GOLDEN_RATIO
  FloatBits,           \* 24, bits of nextFloat
  IntBits,             \* 8, bits of the offset before the point
  NoiseHashes,         \* fork hashes of the noise
  OctaveHashes         \* fork hashes of an octave

Size == 2^Bits
Word == 0..(Size - 1)

\* What the constants must satisfy.
WordAssumption ==
  /\ Bits \in Nat /\ {Rol17, Rol49, Rol28, Shl21} \subseteq 1..(Bits - 1)
  /\ MixShifts \in [1..3 -> (Bits \div 3)..Bits]
  /\ {Mix1, Mix2, Silver, Golden} \subseteq Word
  /\ Mix1 % 2 = 1 /\ Mix2 % 2 = 1 /\ Golden # 0
  /\ IntBits < FloatBits /\ FloatBits + IntBits <= Bits
  /\ NoiseHashes \subseteq Word \X Word /\ OctaveHashes \subseteq (Word \X Word) \ {<<0, 0>>}

VARIABLES
  seed, noise_hash, octave_hash,
  pc,        \* what the generator does next
  rng,       \* state <<lo, hi>> of the generator
  fork,      \* fork of the seed
  fork_a, fork_b,  \* forks of the noise
  yo         \* what nextFloat drew for the y offset, as an integer

inputs == <<seed, noise_hash, octave_hash>>
vars == <<inputs, pc, rng, fork, fork_a, fork_b, yo>>

-----------------------------------------------------------------------------
Add(a, b) == (a + b) % Size
rol64(a, n) == ((a * 2^n) % Size) + (a \div 2^(Bits - n))
XorShift(a, n) == a ^^ (a \div 2^n)

\* nextInternal: the value drawn, and the state after it.
Drawn(s) == Add(rol64(Add(s[1], s[2]), Rol17), s[1])
Advanced(s) ==
  LET h == s[1] ^^ s[2]
  IN  <<(rol64(s[1], Rol49) ^^ h) ^^ ((h * 2^Shl21) % Size), rol64(h, Rol28)>>

-----------------------------------------------------------------------------
(***************************************************************************)
(* Faulty variants of the operations below, each with one plausible slip,  *)
(* to show that the properties can fail.  No specification uses them.      *)
(***************************************************************************)
\* The octave's hash is not advanced.
octave_yo_fork_hash_same(h) == h

-----------------------------------------------------------------------------
mix64(a) ==
  LET b == (XorShift(a, MixShifts[1]) * Mix1) % Size
      c == (XorShift(b, MixShifts[2]) * Mix2) % Size
  IN  XorShift(c, MixShifts[3])

\* The state of all zeros, which no draw leaves, is replaced.
NonZero(s) == IF s = <<0, 0>> THEN <<Golden, Silver>> ELSE s

setSeed(s) == NonZero(<<mix64(s ^^ Silver), mix64(Add(s ^^ Silver, Golden))>>)

\* XrsrRandomFork::from.
from(f, hash) == NonZero(<<f[1] ^^ hash[1], f[2] ^^ hash[2]>>)

nextFloat(r) == r \div 2^(Bits - FloatBits)

Init ==
  /\ seed \in Word /\ noise_hash \in NoiseHashes /\ octave_hash \in OctaveHashes
  /\ pc = "fork" /\ rng = setSeed(seed)
  /\ fork = << >> /\ fork_a = << >> /\ fork_b = << >> /\ yo = 0

\* Two draws that make a fork.
Draw2(s) == <<Drawn(s), Drawn(Advanced(s))>>

ForkSeed ==
  /\ pc = "fork" /\ pc' = "fork_a"
  /\ fork' = Draw2(rng) /\ rng' = from(Draw2(rng), noise_hash)
  /\ UNCHANGED <<inputs, fork_a, fork_b, yo>>

ForkA ==
  /\ pc = "fork_a" /\ pc' = "fork_b"
  /\ fork_a' = Draw2(rng) /\ rng' = Advanced(Advanced(rng))
  /\ UNCHANGED <<inputs, fork, fork_b, yo>>

ForkB ==
  /\ pc = "fork_b" /\ pc' = "xo"
  /\ fork_b' = Draw2(rng) /\ rng' = from(fork_a, octave_hash)
  /\ UNCHANGED <<inputs, fork, fork_a, yo>>

\* init_noise draws xo, then yo.
DrawXo ==
  /\ pc = "xo" /\ pc' = "yo" /\ rng' = Advanced(rng)
  /\ UNCHANGED <<inputs, fork, fork_a, fork_b, yo>>

DrawYo ==
  /\ pc = "yo" /\ pc' = "end" /\ yo' = nextFloat(Drawn(rng)) /\ rng' = Advanced(rng)
  /\ UNCHANGED <<inputs, fork, fork_a, fork_b>>

Done == pc = "end" /\ UNCHANGED vars

Next == ForkSeed \/ ForkA \/ ForkB \/ DrawXo \/ DrawYo \/ Done

Spec == Init /\ [][Next]_vars

-----------------------------------------------------------------------------
(***************************************************************************)
(* The shortcuts of gpu.cu.                                                *)
(***************************************************************************)
\* r1 and r2 of a state that is not kept.
ForkOf(s) == <<Drawn(s), Drawn(Advanced(s))>>

XrsrRandom_seed_fork(s) ==
  ForkOf(<<mix64(s ^^ Silver), mix64(Add(s ^^ Silver, Golden))>>)

\* l3 and h3, where the second of two forks begins.
StateB(s) == Advanced(Advanced(s))

XrsrRandom_double_fork(s) == <<ForkOf(s), ForkOf(StateB(s))>>

noise_yo_fork(f) == Advanced(f)

octave_yo_fork_hash(h) == Advanced(NonZero(h))

\* The bits of a draw after the integer part of the offset: more of them than
\* nextFloat gives.
Fraction(r) == (r \div 2^(Bits - FloatBits - IntBits)) % 2^FloatBits

octave_yo_mod1(f, hash) ==
  LET h == octave_yo_fork_hash(hash)
  IN  Fraction(Drawn(<<f[1] ^^ h[1], f[2] ^^ h[2]>>))

-----------------------------------------------------------------------------
\* KernelFilterSeeds and KernelSeed1 see the forks a generator would make, for
\* every seed: leaving out the test for a zero state loses nothing, as the two
\* halves of a seed's state are never both zero.
ForksExact ==
  /\ pc = "fork_a" => fork = XrsrRandom_seed_fork(seed)
  /\ pc = "xo" =>
       LET s == from(XrsrRandom_seed_fork(seed), noise_hash)
       IN  <<fork_a, fork_b>> = XrsrRandom_double_fork(s)

\* The y offset KernelFilterSeeds judges a seed by is the one the noise will
\* have, up to the bits a float drops: the state advances linearly, so it may
\* be advanced before the hash is mixed in.  The one exception is a fork equal
\* to the hash, where the generator replaces the zero state.
YoOffsetExact ==
  pc = "end" /\ fork_a # octave_hash =>
    octave_yo_mod1(noise_yo_fork(fork_a), octave_hash) \div 2^IntBits
      = yo % 2^(FloatBits - IntBits)
=============================================================================

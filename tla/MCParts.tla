------------------------------ MODULE MCParts ------------------------------
(***************************************************************************)
(* The small closed parts of the program, one at a time: the kernels whose *)
(* threads share memory, the arithmetic of indices and generators, and the *)
(* sequential code on the host.  The initial state says which part runs.   *)
(***************************************************************************)
EXTENDS MCKernels, MCArithmetic, MCHost

Init == KernelsInit \/ ArithmeticInit \/ HostInit

Next == (KernelsNext \/ ArithmeticNext \/ HostNext) /\ UNCHANGED part

\* Some thread of a kernel that can go on does, and so does the search.
Spec ==
  /\ Init /\ [][Next]_vars
  /\ WF_vars((KernelsNext \/ SearchNext) /\ UNCHANGED part)

-----------------------------------------------------------------------------
\* The type invariants of the parts, with the bounds the code relies on: no
\* shared counter of a kernel holds more than the samples of one input, no
\* table is of an input that does not exist, the stack of a flood fill never
\* outgrows its allocation, and the score of a result is the wanted size up to
\* one cell of rounding.
TypeOK == KernelsTypeOK /\ HostTypeOK
=============================================================================

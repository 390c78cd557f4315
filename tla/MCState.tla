------------------------------ MODULE MCState ------------------------------
(***************************************************************************)
(* The state the small closed parts share in MCParts: which part runs, and *)
(* its variables.  A part uses as many of v1 to v11 as it has.             *)
(***************************************************************************)

VARIABLES part, v1, v2, v3, v4, v5, v6, v7, v8, v9, v10, v11

vars == <<part, v1, v2, v3, v4, v5, v6, v7, v8, v9, v10, v11>>

\* The variables that a part with fewer leaves alone, and their value.
From10 == <<v10, v11>>
From8 == <<v8, v9, v10, v11>>
From7 == <<v7, v8, v9, v10, v11>>
From6 == <<v6, v7, v8, v9, v10, v11>>
From3 == <<v3, v4, v5, v6, v7, v8, v9, v10, v11>>

Unused10 == v10 = 0 /\ v11 = 0
Unused8 == v8 = 0 /\ v9 = 0 /\ Unused10
Unused7 == v7 = 0 /\ Unused8
Unused6 == v6 = 0 /\ Unused7
Unused3 == v3 = 0 /\ v4 = 0 /\ v5 = 0 /\ Unused6
=============================================================================

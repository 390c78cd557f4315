---------------------------- MODULE MCCommission ----------------------------
(***************************************************************************)
(* Small instances of Commission.  Eight seeds in batches of two, starting *)
(* at seed 5, so that the second batch wraps around the end of the seed    *)
(* space.  Seeds 5 and 6 make the first batch the busy one.                *)
(***************************************************************************)
EXTENDS Commission, TLC

CONSTANTS g1, g2, c1, c2, isle, rock, cape, none

MCCandidate == {isle, rock, cape}
MCHits == [s \in 0..7 |-> CASE s = 5 -> {isle}
                            [] s = 6 -> {rock}
                            [] s = 0 -> {cape}
                            [] OTHER -> {}]
\* rock is too small an island.
MCProcess == (isle :> "large") @@ (rock :> none) @@ (cape :> "large")
=============================================================================

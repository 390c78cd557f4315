--------------------------- MODULE RecordChannel ---------------------------
(***************************************************************************)
(* What a client and a server promise each other: the candidates a client  *)
(* takes from its gpu_outputs queue reach the server's queue whole, in     *)
(* order, and at most once.  Nothing promises that all of them arrive.     *)
(***************************************************************************)
EXTENDS Naturals, Sequences

CONSTANTS
  Clients,
  MaxRecords  \* bound: candidates taken or delivered in one step

VARIABLES
  taken,    \* taken[c]: number of candidates client c took from its queue
  arrived   \* arrived[c]: numbers of the candidates the server queued for c

Init == taken = [c \in Clients |-> 0] /\ arrived = [c \in Clients |-> << >>]

Take(c, n) ==
  /\ taken' = [taken EXCEPT ![c] = @ + n]
  /\ UNCHANGED arrived

Arrive(c, n) ==
  LET have == Len(arrived[c])
  IN  /\ have + n <= taken[c]
      /\ arrived' = [arrived EXCEPT ![c] = @ \o [i \in 1..n |-> have + i]]
      /\ UNCHANGED taken

Next == \E c \in Clients, n \in 1..MaxRecords : Take(c, n) \/ Arrive(c, n)

Spec == Init /\ [][Next]_<<taken, arrived>>

=============================================================================

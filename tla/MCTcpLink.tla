----------------------------- MODULE MCTcpLink -----------------------------
(***************************************************************************)
(* Small instances of TcpLink: a client of the server's biome size and one *)
(* of the other; handshake and records of two bytes, so that every record  *)
(* can be cut in the middle, and a buffer of two records.                  *)
(***************************************************************************)
EXTENDS TcpLink

CONSTANTS same, other
=============================================================================

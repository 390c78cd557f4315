------------------------------ MODULE TcpLink ------------------------------
(***************************************************************************)
(* The wire between ClientThread::run (client.cpp) and tcp_server with its *)
(* tcp_connections (server.cpp).  A connection is a byte stream: handshake *)
(* first, then records of RecSize bytes.  A byte is named by its position  *)
(* in the stream it was written to, so that a record put together from the *)
(* wrong bytes shows.  TCP (external) keeps order and may cut, delay or    *)
(* break the stream anywhere.                                              *)
(***************************************************************************)
EXTENDS Integers, Sequences

CONSTANTS
  Clients,
  Matching,    \* clients built with the server's large_biomes setting
  HsSize,      \* sizeof(net_handshake)
  RecSize,     \* sizeof(GpuOutput)
  BufSize,     \* size of tcp_connection::pending_data_
  MaxRecords   \* bound: records one client takes from its queue

ASSUME SizeAssumption ==
  /\ HsSize \in Nat \ {0} /\ RecSize \in Nat \ {0} /\ MaxRecords \in Nat
  /\ BufSize \in Nat /\ RecSize <= BufSize
  /\ Matching \subseteq Clients

VARIABLES
  client_pc,         \* "start", "run", "done" (returned) or "gone" (aborted)
  goal,              \* bytes handed to asio::write so far
  wrote,             \* bytes of them the socket has accepted
  link,              \* "up", "eof" (client closed it) or "reset"
  accepting,         \* an async_accept is outstanding
  stopped,           \* io_context::stop was called
  conn,              \* state of the client's tcp_connection on the server
  read,              \* bytes the server has taken from the stream
  pending_data_, pending_data_len_,
  outputs_           \* outputs_[c]: records c's connection pushed to the queue

clientVars == <<client_pc, goal, wrote>>
connVars == <<conn, read, pending_data_, pending_data_len_, outputs_>>
vars == <<clientVars, link, accepting, stopped, connVars>>

Init ==
  /\ client_pc = [c \in Clients |-> "start"]
  /\ goal = [c \in Clients |-> 0] /\ wrote = [c \in Clients |-> 0]
  /\ link = [c \in Clients |-> "up"]
  /\ accepting = TRUE /\ stopped = FALSE
  /\ conn = [c \in Clients |-> "none"] /\ read = [c \in Clients |-> 0]
  /\ pending_data_ = [c \in Clients |-> [k \in 1..BufSize |-> 0]]
  /\ pending_data_len_ = [c \in Clients |-> 0]
  /\ outputs_ = [c \in Clients |-> << >>]

\* Records client c has taken from its queue and started to write.
Records(c) == IF goal[c] = 0 THEN 0 ELSE (goal[c] - HsSize) \div RecSize

\* Bytes of c's stream the server has not taken yet.
Unread(c) == wrote[c] - read[c]

\* The connection's socket is destroyed with its last shared_ptr.
CloseConn(c) ==
  /\ conn' = [conn EXCEPT ![c] = "closed"]
  /\ link' = [link EXCEPT ![c] = "reset"]

-----------------------------------------------------------------------------
(***************************************************************************)
(* The client.                                                             *)
(***************************************************************************)
\* asio::connect; asio::write is handed the handshake.
ClientConnect(c) ==
  /\ client_pc[c] = "start" /\ ~stopped
  /\ client_pc' = [client_pc EXCEPT ![c] = "run"]
  /\ conn' = [conn EXCEPT ![c] = "backlog"]
  /\ goal' = [goal EXCEPT ![c] = HsSize]
  /\ UNCHANGED <<wrote, link, accepting, stopped, read, pending_data_,
                 pending_data_len_, outputs_>>

ClientConnectFails(c) ==
  /\ client_pc[c] = "start" /\ stopped
  /\ client_pc' = [client_pc EXCEPT ![c] = "gone"]
  /\ UNCHANGED <<goal, wrote, link, accepting, stopped, connVars>>

\* asio::write calls write_some until everything is written; a broken
\* connection makes it throw, which aborts the process.
ClientWriteSome(c) ==
  /\ client_pc[c] = "run" /\ wrote[c] < goal[c] /\ link[c] = "up"
  /\ \E n \in (wrote[c] + 1)..goal[c] : wrote' = [wrote EXCEPT ![c] = n]
  /\ UNCHANGED <<client_pc, goal, link, accepting, stopped, connVars>>

ClientWriteFails(c) ==
  /\ client_pc[c] = "run" /\ wrote[c] < goal[c] /\ link[c] = "reset"
  /\ client_pc' = [client_pc EXCEPT ![c] = "gone"]
  /\ UNCHANGED <<goal, wrote, link, accepting, stopped, connVars>>

\* The queue was not empty: pending_data is written as one block.
ClientDrain(c) ==
  /\ client_pc[c] = "run" /\ wrote[c] = goal[c]
  /\ \E n \in 1..(MaxRecords - Records(c)) :
       goal' = [goal EXCEPT ![c] = @ + n * RecSize]
  /\ UNCHANGED <<client_pc, wrote, link, accepting, stopped, connVars>>

\* should_stop(): run returns and the socket is closed in an orderly way.
ClientReturn(c) ==
  /\ client_pc[c] = "run" /\ wrote[c] = goal[c]
  /\ client_pc' = [client_pc EXCEPT ![c] = "done"]
  /\ link' = [link EXCEPT ![c] = IF @ = "up" THEN "eof" ELSE @]
  /\ UNCHANGED <<goal, wrote, accepting, stopped, connVars>>

\* The process is killed in the middle of a write; what the socket accepted
\* is still delivered.
ClientKilled(c) ==
  /\ client_pc[c] = "run"
  /\ client_pc' = [client_pc EXCEPT ![c] = "gone"]
  /\ link' = [link EXCEPT ![c] = IF @ = "up" THEN "eof" ELSE @]
  /\ UNCHANGED <<goal, wrote, accepting, stopped, connVars>>

-----------------------------------------------------------------------------
(***************************************************************************)
(* The network.                                                            *)
(***************************************************************************)
LinkBreaks(c) ==
  /\ conn[c] # "none" /\ link[c] # "reset"
  /\ link' = [link EXCEPT ![c] = "reset"]
  /\ UNCHANGED <<clientVars, accepting, stopped, connVars>>

-----------------------------------------------------------------------------
(***************************************************************************)
(* Faulty variants of the handlers below, each with one plausible slip, to *)
(* show that the properties can fail.  No specification uses them.         *)
(***************************************************************************)
\* A failed accept returns without posting the next one.
handle_accept_once(c) ==
  /\ ~stopped /\ accepting /\ conn[c] = "backlog"
  /\ \/ /\ conn' = [conn EXCEPT ![c] = "handshake"]
        /\ UNCHANGED <<link, accepting>>
     \/ link[c] = "reset" /\ CloseConn(c) /\ accepting' = FALSE
  /\ UNCHANGED <<clientVars, stopped, read, pending_data_, pending_data_len_,
                 outputs_>>

\* Any sixteen bytes are taken for the handshake.
handle_handshake_unchecked(c) ==
  /\ ~stopped /\ conn[c] = "handshake"
  /\ link[c] # "reset" /\ Unread(c) >= HsSize
  /\ read' = [read EXCEPT ![c] = HsSize]
  /\ conn' = [conn EXCEPT ![c] = "reading"]
  /\ UNCHANGED <<clientVars, link, accepting, stopped, pending_data_,
                 pending_data_len_, outputs_>>

\* What a read leaves in the buffer when the rest is not moved to the front,
\* and the rest's length when it is dropped, never reduced or reduced by one
\* record too many.
KeptUnmoved(filled, count, rest) == filled
RestDropped(total) == 0
RestUnreduced(total) == total
RestOverreduced(total) == total - (total \div RecSize + 1) * RecSize

-----------------------------------------------------------------------------
(***************************************************************************)
(* The server: one action per completion handler.  The handlers run one at *)
(* a time on the thread that called io_context::run.                       *)
(***************************************************************************)
\* handle_accept: start the connection unless there was an error; in both
\* cases start_accept posts the next accept.
handle_accept(c) ==
  /\ ~stopped /\ accepting /\ conn[c] = "backlog"
  /\ \/ conn' = [conn EXCEPT ![c] = "handshake"] /\ UNCHANGED link
     \/ link[c] = "reset" /\ CloseConn(c)
  /\ accepting' = TRUE
  /\ UNCHANGED <<clientVars, stopped, read, pending_data_, pending_data_len_,
                 outputs_>>

\* handle_handshake after async_read delivered all its bytes.
handle_handshake(c) ==
  /\ ~stopped /\ conn[c] = "handshake"
  /\ link[c] # "reset" /\ Unread(c) >= HsSize
  /\ read' = [read EXCEPT ![c] = HsSize]
  /\ IF c \in Matching
       THEN conn' = [conn EXCEPT ![c] = "reading"] /\ UNCHANGED link
       ELSE CloseConn(c)
  /\ UNCHANGED <<clientVars, accepting, stopped, pending_data_,
                 pending_data_len_, outputs_>>

\* handle_handshake after async_read failed.  It does not look at the error:
\* handshake_ is compared with the bytes that did not arrive uninitialised,
\* so the comparison may come out either way.
handle_handshake_error(c) ==
  /\ ~stopped /\ conn[c] = "handshake"
  /\ link[c] = "reset" \/ (link[c] = "eof" /\ Unread(c) < HsSize)
  /\ read' = [read EXCEPT ![c] = wrote[c]]
  /\ \/ conn' = [conn EXCEPT ![c] = "reading"] /\ UNCHANGED link
     \/ CloseConn(c)
  /\ UNCHANGED <<clientVars, accepting, stopped, pending_data_,
                 pending_data_len_, outputs_>>

\* pending_data_ of c after the next n bytes of its stream were read into it
\* behind the pending_data_len_ bytes it held.
Filled(c, n) ==
  [k \in 1..BufSize |-> IF pending_data_len_[c] < k /\ k <= pending_data_len_[c] + n
                          THEN read[c] + (k - pending_data_len_[c])
                          ELSE pending_data_[c][k]]

\* The i-th record in a buffer, copied out with memcpy.
RecordAt(buffer, i) == [j \in 1..RecSize |-> buffer[(i - 1) * RecSize + j]]

\* The length of the rest, and the memmove that brings it to the front.
Rest(total) == total - (total \div RecSize) * RecSize
Kept(filled, count, rest) ==
  [k \in 1..BufSize |-> IF k <= rest THEN filled[k + count * RecSize]
                                     ELSE filled[k]]

\* handle_read without an error: push the whole records, keep the rest,
\* post the next read.
handle_read(c) ==
  /\ ~stopped /\ conn[c] = "reading" /\ link[c] # "reset"
  /\ \E n \in 1..Unread(c) :
       LET total == pending_data_len_[c] + n
           count == total \div RecSize
           filled == Filled(c, n)
       IN  /\ total <= BufSize
           /\ read' = [read EXCEPT ![c] = @ + n]
           /\ outputs_' = [outputs_ EXCEPT ![c] =
                              @ \o [i \in 1..count |-> RecordAt(filled, i)]]
           /\ pending_data_len_' = [pending_data_len_ EXCEPT ![c] = Rest(total)]
           /\ pending_data_' = [pending_data_ EXCEPT ![c] =
                                  Kept(filled, count, Rest(total))]
  /\ UNCHANGED <<clientVars, link, accepting, stopped, conn>>

\* handle_read with an error: no further read is posted.
handle_read_error(c) ==
  /\ ~stopped /\ conn[c] = "reading"
  /\ link[c] = "reset" \/ (link[c] = "eof" /\ Unread(c) = 0)
  /\ CloseConn(c)
  /\ UNCHANGED <<clientVars, accepting, stopped, read, pending_data_,
                 pending_data_len_, outputs_>>

\* io_context::stop: run returns, the acceptor and all sockets go away.
ServerStop ==
  /\ ~stopped
  /\ stopped' = TRUE /\ accepting' = FALSE
  /\ conn' = [c \in Clients |-> IF conn[c] = "none" THEN "none" ELSE "closed"]
  /\ link' = [c \in Clients |-> IF conn[c] = "none" THEN link[c] ELSE "reset"]
  /\ UNCHANGED <<clientVars, read, pending_data_, pending_data_len_, outputs_>>

-----------------------------------------------------------------------------
ClientWrite(c) == ClientWriteSome(c) \/ ClientWriteFails(c)
Handle(c) == \/ handle_accept(c)
             \/ handle_handshake(c) \/ handle_handshake_error(c)
             \/ handle_read(c) \/ handle_read_error(c)

Next ==
  \/ \E c \in Clients :
       \/ ClientConnect(c) \/ ClientConnectFails(c)
       \/ ClientWrite(c) \/ ClientDrain(c)
       \/ ClientReturn(c) \/ ClientKilled(c)
       \/ LinkBreaks(c)
       \/ Handle(c)
  \/ ServerStop

Spec == Init /\ [][Next]_vars

\* A write that can go on does, and a completion handler that is ready runs.
FairSpec ==
  /\ Spec
  /\ \A c \in Clients : WF_vars(ClientWrite(c)) /\ WF_vars(Handle(c))

-----------------------------------------------------------------------------
(***************************************************************************)
(* What the link promises.                                                 *)
(***************************************************************************)
\* Types; the stream positions are ordered, and the bytes kept in the buffer
\* fit into it.
TypeOK ==
  /\ client_pc \in [Clients -> {"start", "run", "done", "gone"}]
  /\ goal \in [Clients -> Nat] /\ wrote \in [Clients -> Nat]
  /\ link \in [Clients -> {"up", "eof", "reset"}]
  /\ accepting \in BOOLEAN /\ stopped \in BOOLEAN
  /\ conn \in [Clients -> {"none", "backlog", "handshake", "reading", "closed"}]
  /\ read \in [Clients -> Nat]
  /\ pending_data_ \in [Clients -> [1..BufSize -> Nat]]
  /\ pending_data_len_ \in [Clients -> 0..BufSize]
  /\ outputs_ \in [Clients -> Seq([1..RecSize -> Nat])]
  /\ \A c \in Clients : wrote[c] <= goal[c] /\ read[c] <= wrote[c]

\* The bytes of the k-th record of a stream.
RecordBytes(k) == [j \in 1..RecSize |-> HsSize + (k - 1) * RecSize + j]

\* Whatever the fragmentation, the records a connection pushes to the queue
\* are the first ones its client wrote: whole, in order, none twice, none
\* put together from parts of two.
WholeRecordsInOrder ==
  \A c \in Clients :
    /\ Len(outputs_[c]) <= Records(c)
    /\ \A k \in 1..Len(outputs_[c]) : outputs_[c][k] = RecordBytes(k)

\* The buffer is never full when a read is posted: less than one record is
\* kept, so a read of zero bytes cannot loop or be taken for the end.
ReadHasRoom ==
  \A c \in Clients : conn[c] = "reading" => pending_data_len_[c] < RecSize

\* Nothing is queued for a client of the other biome size, although the
\* handshake is compared even when reading it failed.
OnlyMatchingQueued ==
  \A c \in Clients \ Matching : outputs_[c] = << >>

\* The number of the record some bytes are, 0 for a torn one.
Decode(bytes) ==
  IF \E k \in 1..MaxRecords : bytes = RecordBytes(k)
    THEN CHOOSE k \in 1..MaxRecords : bytes = RecordBytes(k)
    ELSE 0

Channel == INSTANCE RecordChannel WITH
  taken <- [c \in Clients |-> Records(c)],
  arrived <- [c \in Clients |-> [i \in 1..Len(outputs_[c]) |-> Decode(outputs_[c][i])]]

\* The byte stream and its reassembly implement the channel of records.
ImplementsChannel == Channel!Spec

\* A record taken by a client arrives unless the connection breaks or the
\* client is killed; a client that returns in order loses nothing.
RecordsArrive ==
  \A c \in Clients, k \in 1..MaxRecords :
    Records(c) >= k ~> \/ Len(outputs_[c]) >= k
                       \/ link[c] = "reset" \/ client_pc[c] = "gone"

=============================================================================

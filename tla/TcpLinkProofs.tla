--------------------------- MODULE TcpLinkProofs ---------------------------
(***************************************************************************)
(* Proofs about TcpLink, for any clients, any sizes of handshake, record   *)
(* and buffer, any bound on the records and any fragmentation.             *)
(***************************************************************************)
EXTENDS TcpLink, SequenceTheorems, TLAPS

-----------------------------------------------------------------------------
(***************************************************************************)
(* The inductive invariant.  A connection that reads is either in step     *)
(* with its client's stream, or its handshake failed and the stream is at  *)
(* its end for good.                                                       *)
(***************************************************************************)
\* Bytes of c's stream up to the last record that was pushed.
Consumed(c) == HsSize + Len(outputs_[c]) * RecSize

\* Nothing of the stream has been read.
Fresh(c) == read[c] = 0 /\ pending_data_len_[c] = 0 /\ outputs_[c] = << >>

\* The buffer starts with the bytes that follow the last pushed record, and
\* they are fewer than a record.
InStep(c) ==
  /\ c \in Matching
  /\ read[c] = Consumed(c) + pending_data_len_[c]
  /\ pending_data_len_[c] < RecSize
  /\ \A k \in 1..pending_data_len_[c] : pending_data_[c][k] = Consumed(c) + k

\* All that ever came was taken for the handshake, and no more will come.
Ended(c) ==
  /\ link[c] # "up" /\ read[c] = wrote[c]
  /\ pending_data_len_[c] = 0 /\ outputs_[c] = << >>

\* What was pushed are records of the stream that have been read.
Pushed(c) ==
  /\ c \notin Matching => outputs_[c] = << >>
  /\ outputs_[c] = << >> \/ Consumed(c) <= read[c]
  /\ \A k \in 1..Len(outputs_[c]) : outputs_[c][k] = RecordBytes(k)

\* The client hands whole records to asio::write, after the handshake.
WholeGoal(c) ==
  \/ goal[c] = 0 /\ client_pc[c] # "run"
  \/ \E r \in 0..MaxRecords : goal[c] = HsSize + r * RecSize

ClientInv(c) ==
  /\ WholeGoal(c)
  /\ client_pc[c] = "start" => conn[c] = "none" /\ goal[c] = 0
  /\ conn[c] \in {"none", "backlog", "handshake"} => Fresh(c)
  /\ conn[c] = "reading" => InStep(c) \/ Ended(c)
  /\ Pushed(c)

IInv == TypeOK /\ \A c \in Clients : ClientInv(c)
-----------------------------------------------------------------------------
(***************************************************************************)
(* Arithmetic: whole records in a number of bytes.                         *)
(***************************************************************************)
\* Division by the size of a record.
LEMMA Division ==
  ASSUME NEW t \in Nat
  PROVE  /\ t \div RecSize \in Nat
         /\ (t \div RecSize) * RecSize \in Nat
         /\ (t \div RecSize) * RecSize <= t
         /\ t < (t \div RecSize) * RecSize + RecSize
  BY SizeAssumption

\* More records have more bytes.
LEMMA Multiples ==
  ASSUME NEW a \in Nat, NEW b \in Nat
  PROVE  /\ a * RecSize \in Nat
         /\ (a + b) * RecSize = a * RecSize + b * RecSize
         /\ a < b => a * RecSize + RecSize <= b * RecSize
         /\ a <= b => a * RecSize <= b * RecSize
<1> DEFINE R == RecSize
<1>0. R \in Nat BY SizeAssumption
<1> HIDE DEF R
<1>1. a * R \in Nat BY <1>0
<1>2. (a + b) * R = a * R + b * R BY <1>0
<1>3. ASSUME a < b PROVE a * R + R <= b * R
  <2>1. PICK d \in Nat : b = a + 1 + d
    <3>1. b - a - 1 \in Nat /\ b = a + 1 + (b - a - 1) BY <1>3
    <3> QED BY <3>1
  <2>2. b * R = a * R + R + d * R BY <2>1, <1>0
  <2>3. d * R \in Nat BY <1>0
  <2> QED BY <2>2, <2>3, <1>1, <1>0
<1>4. ASSUME a <= b PROVE a * R <= b * R
  <2>1. a = b \/ a < b BY <1>4
  <2> QED BY <2>1, <1>3, <1>1, <1>0
<1> QED BY <1>1, <1>2, <1>3, <1>4 DEF R

\* A number of bytes that is r whole records counts as r records.
LEMMA ExactDivision ==
  ASSUME NEW r \in Nat
  PROVE  (r * RecSize) \div RecSize = r
<1>1. r * RecSize \in Nat BY Multiples
<1> DEFINE q == (r * RecSize) \div RecSize
<1>2. q \in Nat /\ q * RecSize <= r * RecSize /\ r * RecSize < q * RecSize + RecSize
  BY <1>1, Division
<1> HIDE DEF q
<1>3. ~(q < r) BY <1>2, Multiples, SizeAssumption
<1>4. ~(r < q) BY <1>2, <1>1, Multiples, SizeAssumption
<1>5. q = r BY <1>2, <1>3, <1>4
<1> QED BY <1>5 DEF q

-----------------------------------------------------------------------------
(***************************************************************************)
(* Reassembly: what handle_read makes of a buffer that is in step.         *)
(***************************************************************************)
\* A buffer in step stays so when n bytes are read behind what it held.
LEMMA FilledInStep ==
  ASSUME TypeOK, NEW c \in Clients, InStep(c),
         NEW n \in Nat, pending_data_len_[c] + n <= BufSize
  PROVE  /\ Filled(c, n) \in [1..BufSize -> Nat]
         /\ \A k \in 1..(pending_data_len_[c] + n) : Filled(c, n)[k] = Consumed(c) + k
<1> DEFINE len == pending_data_len_[c]
           start == Consumed(c)
           buf == pending_data_[c]
<1>1. len \in Nat /\ read[c] \in Nat /\ buf \in [1..BufSize -> Nat]
  BY SizeAssumption DEF TypeOK
<1>2. start \in Nat
  <2>1. Len(outputs_[c]) \in Nat BY DEF TypeOK
  <2> QED BY <2>1, Multiples, SizeAssumption DEF Consumed
<1>3. read[c] = start + len /\ \A k \in 1..len : buf[k] = start + k
  BY DEF InStep
<1>4. BufSize \in Nat /\ len + n <= BufSize BY SizeAssumption
<1>5. Filled(c, n) = [k \in 1..BufSize |->
                        IF len < k /\ k <= len + n THEN read[c] + (k - len) ELSE buf[k]]
  BY DEF Filled
<1> HIDE DEF len, start, buf
<1>6. Filled(c, n) \in [1..BufSize -> Nat] BY <1>1, <1>4, <1>5
<1>7. ASSUME NEW k \in 1..(len + n) PROVE Filled(c, n)[k] = start + k
  <2>1. k \in 1..BufSize BY <1>1, <1>4
  <2>2. CASE k <= len BY <2>1, <2>2, <1>1, <1>3, <1>5
  <2>3. CASE k > len BY <2>1, <2>3, <1>1, <1>2, <1>3, <1>5
  <2> QED BY <2>2, <2>3, <1>1
<1> QED BY <1>6, <1>7 DEF len, start, buf

\* The i-th record of a buffer that holds the bytes behind m records is the
\* stream's record m + i.
LEMMA RecordAtInStep ==
  ASSUME NEW m \in Nat, NEW total \in Nat, NEW buf,
         \A k \in 1..total : buf[k] = HsSize + m * RecSize + k,
         NEW i \in 1..(total \div RecSize)
  PROVE  /\ RecordAt(buf, i) = RecordBytes(m + i)
         /\ RecordAt(buf, i) \in [1..RecSize -> Nat]
<1> DEFINE q == total \div RecSize
<1>1. q \in Nat /\ q * RecSize <= total /\ q * RecSize \in Nat BY Division
<1>2. i \in 1..q OBVIOUS
<1> HIDE DEF q
<1>3. i - 1 \in Nat /\ i \in Nat /\ i - 1 < q /\ (m + i) - 1 = m + (i - 1) BY <1>1, <1>2
<1>4. (i - 1) * RecSize \in Nat /\ (i - 1) * RecSize + RecSize <= q * RecSize
  BY <1>1, <1>3, Multiples
<1>5. ((m + i) - 1) * RecSize = m * RecSize + (i - 1) * RecSize
  BY <1>3, Multiples
<1>6. m * RecSize \in Nat BY Multiples
<1>7. ASSUME NEW j \in 1..RecSize
      PROVE  /\ buf[(i - 1) * RecSize + j] = HsSize + ((m + i) - 1) * RecSize + j
             /\ HsSize + ((m + i) - 1) * RecSize + j \in Nat
  <2> DEFINE p == (i - 1) * RecSize
             b == m * RecSize
  <2> HIDE DEF p, b
  <2>1. p \in Nat /\ b \in Nat /\ p + RecSize <= total
    BY <1>1, <1>4, <1>6, SizeAssumption DEF p, b
  <2>2. p + j \in 1..total BY <2>1, SizeAssumption
  <2>3. buf[p + j] = HsSize + b + (p + j) BY <2>2 DEF b
  <2>4. HsSize + ((m + i) - 1) * RecSize + j = HsSize + (b + p) + j BY <1>5 DEF b, p
  <2>5. HsSize + (b + p) + j = HsSize + b + (p + j) /\ HsSize + (b + p) + j \in Nat
    BY <2>1, SizeAssumption
  <2> QED BY <2>3, <2>4, <2>5 DEF p
<1> QED BY <1>7 DEF RecordAt, RecordBytes

\* After the memmove the buffer starts with the bytes behind the records
\* that were taken out.
LEMMA KeptInStep ==
  ASSUME NEW m \in Nat, NEW total \in 0..BufSize,
         NEW buf \in [1..BufSize -> Nat],
         \A k \in 1..total : buf[k] = HsSize + m * RecSize + k
  PROVE  LET count == total \div RecSize
             rest == Rest(total)
             kept == Kept(buf, count, rest)
         IN  /\ count \in Nat /\ rest \in Nat /\ rest < RecSize
             /\ total = count * RecSize + rest
             /\ kept \in [1..BufSize -> Nat]
             /\ \A k \in 1..rest : kept[k] = HsSize + (m + count) * RecSize + k
<1> DEFINE q == total \div RecSize
           z == q * RecSize
           b == m * RecSize
           rest == Rest(total)
<1>0. total \in Nat /\ BufSize \in Nat /\ total <= BufSize BY SizeAssumption
<1>1. q \in Nat /\ z \in Nat /\ z <= total /\ total < z + RecSize BY <1>0, Division
<1>2. rest = total - z BY DEF Rest
<1>3. (m + q) * RecSize = b + z /\ b \in Nat BY <1>1, Multiples
<1>4. Kept(buf, q, rest) = [k \in 1..BufSize |-> IF k <= rest THEN buf[k + z] ELSE buf[k]]
  BY DEF Kept
<1>5. \A k \in 1..total : buf[k] = HsSize + b + k OBVIOUS
<1> HIDE DEF q, z, b, rest
<1>6. rest \in Nat /\ rest < RecSize /\ total = z + rest /\ rest <= BufSize
  BY <1>0, <1>1, <1>2, SizeAssumption
<1>7. \A k \in 1..rest : k + z \in 1..total /\ k \in 1..BufSize BY <1>0, <1>1, <1>6
<1>8. \A k \in 1..rest : buf[k + z] = HsSize + (b + z) + k
  <2> TAKE k \in 1..rest
  <2>1. buf[k + z] = HsSize + b + (k + z) BY <1>5, <1>7
  <2> QED BY <2>1, <1>1, <1>3, SizeAssumption
<1>9. Kept(buf, q, rest) \in [1..BufSize -> Nat]
  <2>1. ASSUME NEW k \in 1..BufSize
        PROVE  (IF k <= rest THEN buf[k + z] ELSE buf[k]) \in Nat
    <3>1. CASE k <= rest
      <4>1. k + z \in 1..BufSize BY <3>1, <1>0, <1>1, <1>6, <2>1
      <4> QED BY <4>1, <3>1
    <3>2. CASE ~(k <= rest) BY <3>2
    <3> QED BY <3>1, <3>2
  <2> QED BY <2>1, <1>4
<1>10. \A k \in 1..rest : Kept(buf, q, rest)[k] = HsSize + (m + q) * RecSize + k
  <2> TAKE k \in 1..rest
  <2>1. Kept(buf, q, rest)[k] = buf[k + z] BY <1>4, <1>6, <1>7
  <2> QED BY <2>1, <1>3, <1>8
<1> QED BY <1>1, <1>6, <1>9, <1>10 DEF q, z, rest

-----------------------------------------------------------------------------
(***************************************************************************)
(* The invariant is inductive.                                             *)
(***************************************************************************)
\* Nothing of client c and of its connection changes.
Same(c) ==
  /\ client_pc'[c] = client_pc[c] /\ goal'[c] = goal[c] /\ wrote'[c] = wrote[c]
  /\ link'[c] = link[c] /\ conn'[c] = conn[c] /\ read'[c] = read[c]
  /\ pending_data_'[c] = pending_data_[c]
  /\ pending_data_len_'[c] = pending_data_len_[c] /\ outputs_'[c] = outputs_[c]

\* The invariant of one client depends on its own state only.
LEMMA OtherClients ==
  ASSUME NEW c \in Clients, ClientInv(c), Same(c)
  PROVE  ClientInv(c)'
  BY DEF ClientInv, Same, WholeGoal, Fresh, InStep, Ended, Pushed, Consumed

\* It holds before anybody connects.
LEMMA InitIInv == Init => IInv
<1> SUFFICES ASSUME Init PROVE IInv
  OBVIOUS
<1>1. TypeOK
  <2>1. accepting \in BOOLEAN /\ stopped \in BOOLEAN BY Zenon DEF Init
  <2> QED BY <2>1, SizeAssumption DEF Init, TypeOK
<1>2. \A c \in Clients : ClientInv(c)
  <2> TAKE c \in Clients
  <2>1. Pushed(c) BY DEF Init, Pushed
  <2>2. WholeGoal(c) BY DEF Init, WholeGoal
  <2>3. Fresh(c) BY DEF Init, Fresh
  <2> QED BY <2>1, <2>2, <2>3 DEF Init, ClientInv
<1> QED BY <1>1, <1>2 DEF IInv

\* Parts of the type invariant that concern one client.
LEMMA OneClient ==
  ASSUME TypeOK, NEW c \in Clients
  PROVE  /\ goal[c] \in Nat /\ wrote[c] \in Nat /\ read[c] \in Nat
         /\ pending_data_len_[c] \in Nat /\ Len(outputs_[c]) \in Nat
         /\ outputs_[c] \in Seq([1..RecSize -> Nat])
         /\ pending_data_[c] \in [1..BufSize -> Nat]
         /\ wrote[c] <= goal[c] /\ read[c] <= wrote[c]
         /\ Len(outputs_[c]) * RecSize \in Nat
<1>1. Len(outputs_[c]) \in Nat /\ outputs_[c] \in Seq([1..RecSize -> Nat]) BY DEF TypeOK
<1>2. Len(outputs_[c]) * RecSize \in Nat BY <1>1, Multiples
<1>3. pending_data_[c] \in [1..BufSize -> Nat] BY DEF TypeOK
<1>4. /\ goal[c] \in Nat /\ wrote[c] \in Nat /\ read[c] \in Nat
      /\ pending_data_len_[c] \in Nat /\ wrote[c] <= goal[c] /\ read[c] <= wrote[c]
  BY SizeAssumption DEF TypeOK
<1> QED BY <1>1, <1>2, <1>3, <1>4

\* A client whose goal is not zero has taken a whole number of records.
LEMMA RecordsExact ==
  ASSUME NEW c \in Clients, NEW r \in Nat, goal[c] = HsSize + r * RecSize
  PROVE  Records(c) = r
<1>1. r * RecSize \in Nat BY Multiples
<1>2. goal[c] # 0 /\ goal[c] - HsSize = r * RecSize BY <1>1, SizeAssumption
<1> QED BY <1>2, ExactDivision DEF Records

\* The client's steps but the draining of its queue, and the network's.
LEMMA ClientStep ==
  ASSUME IInv, NEW c \in Clients,
         \/ ClientConnect(c) \/ ClientConnectFails(c) \/ ClientWrite(c)
         \/ ClientReturn(c) \/ ClientKilled(c) \/ LinkBreaks(c)
  PROVE  IInv'
<1> USE DEF clientVars, connVars
<1>1. TypeOK /\ ClientInv(c) BY DEF IInv
<1>2. \A d \in Clients \ {c} : Same(d)
  BY <1>1 DEF ClientConnect, ClientConnectFails, ClientWrite, ClientWriteSome,
       ClientWriteFails, ClientReturn, ClientKilled, LinkBreaks, Same, TypeOK
<1>3. TypeOK' /\ ClientInv(c)'
  <2>1. CASE ClientConnect(c)
    <3>1. wrote[c] = 0 BY <2>1, <1>1, OneClient DEF ClientConnect, ClientInv
    <3>2. TypeOK'
      <4>1. client_pc' \in [Clients -> {"start", "run", "done", "gone"}]
        BY <2>1, <1>1 DEF ClientConnect, TypeOK
      <4>2. goal' \in [Clients -> Nat] /\ \A d \in Clients : wrote[d] <= goal'[d]
        BY <2>1, <1>1, <3>1, SizeAssumption DEF ClientConnect, TypeOK
      <4>3. conn' \in [Clients -> {"none", "backlog", "handshake", "reading", "closed"}]
        BY <2>1, <1>1 DEF ClientConnect, TypeOK
      <4> QED BY <2>1, <1>1, <4>1, <4>2, <4>3 DEF ClientConnect, TypeOK
    <3>3. goal'[c] = HsSize + 0 * RecSize BY <2>1, <1>1, SizeAssumption DEF ClientConnect, TypeOK
    <3>4. WholeGoal(c)' BY <3>3, SizeAssumption DEF WholeGoal
    <3> QED BY <2>1, <1>1, <3>2, <3>4
          DEF ClientConnect, TypeOK, ClientInv, Fresh, Pushed, Consumed
  <2>2. CASE ClientConnectFails(c)
    BY <2>2, <1>1 DEF ClientConnectFails, TypeOK, ClientInv, WholeGoal, Fresh,
         InStep, Ended, Pushed, Consumed
  <2>3. CASE ClientWriteSome(c)
    BY <2>3, <1>1 DEF ClientWriteSome, TypeOK, ClientInv, WholeGoal, Fresh,
         InStep, Ended, Pushed, Consumed
  <2>4. CASE ClientWriteFails(c)
    BY <2>4, <1>1 DEF ClientWriteFails, TypeOK, ClientInv, WholeGoal, Fresh,
         InStep, Ended, Pushed, Consumed
  <2>5. CASE ClientReturn(c)
    BY <2>5, <1>1 DEF ClientReturn, TypeOK, ClientInv, WholeGoal, Fresh,
         InStep, Ended, Pushed, Consumed
  <2>6. CASE ClientKilled(c)
    BY <2>6, <1>1 DEF ClientKilled, TypeOK, ClientInv, WholeGoal, Fresh,
         InStep, Ended, Pushed, Consumed
  <2>7. CASE LinkBreaks(c)
    BY <2>7, <1>1 DEF LinkBreaks, TypeOK, ClientInv, WholeGoal, Fresh,
         InStep, Ended, Pushed, Consumed
  <2> QED BY <2>1, <2>2, <2>3, <2>4, <2>5, <2>6, <2>7 DEF ClientWrite
<1> QED BY <1>2, <1>3, OtherClients DEF IInv

\* Draining the queue adds whole records to what is to be written.
LEMMA DrainStep ==
  ASSUME IInv, NEW c \in Clients, ClientDrain(c)
  PROVE  IInv'
<1> USE DEF clientVars, connVars
<1>1. TypeOK /\ ClientInv(c) BY DEF IInv
<1>2. PICK r \in 0..MaxRecords : goal[c] = HsSize + r * RecSize
  BY <1>1 DEF ClientInv, WholeGoal, ClientDrain
<1>3. r \in Nat /\ Records(c) = r BY <1>2, RecordsExact, SizeAssumption
<1>4. PICK n \in 1..(MaxRecords - r) : goal' = [goal EXCEPT ![c] = @ + n * RecSize]
  BY <1>3 DEF ClientDrain
<1>5. n \in Nat /\ r + n \in 0..MaxRecords BY <1>3, <1>4, SizeAssumption
<1>6. n * RecSize \in Nat /\ r * RecSize \in Nat
      /\ (r + n) * RecSize = r * RecSize + n * RecSize
  BY <1>3, <1>5, Multiples
<1>7. goal'[c] = goal[c] + n * RecSize BY <1>4, <1>1 DEF TypeOK
<1>8. goal'[c] = HsSize + (r + n) * RecSize /\ goal'[c] \in Nat
  <2> DEFINE x == r * RecSize
             y == n * RecSize
  <2> HIDE DEF x, y
  <2>1. goal'[c] = (HsSize + x) + y BY <1>2, <1>7 DEF x, y
  <2>2. (r + n) * RecSize = x + y /\ x \in Nat /\ y \in Nat BY <1>6 DEF x, y
  <2> QED BY <2>1, <2>2, SizeAssumption
<1>9. TypeOK'
  <2>1. goal' \in [Clients -> Nat] BY <1>1, <1>4, <1>8 DEF TypeOK
  <2>2. \A d \in Clients : goal[d] <= goal'[d]
    BY <1>1, <1>4, <1>6 DEF TypeOK
  <2> QED BY <2>1, <2>2, <1>1, OneClient DEF ClientDrain, TypeOK
<1>10. ClientInv(c)'
  <2>1. WholeGoal(c)' BY <1>5, <1>8 DEF WholeGoal
  <2> QED BY <2>1, <1>1 DEF ClientDrain, ClientInv, Fresh, InStep, Ended, Pushed, Consumed
<1>11. \A d \in Clients \ {c} : Same(d)
  BY <1>1, <1>4 DEF ClientDrain, Same, TypeOK
<1> QED BY <1>9, <1>10, <1>11, OtherClients DEF IInv

\* The handlers that push nothing.
LEMMA ConnectionStep ==
  ASSUME IInv, NEW c \in Clients,
         \/ handle_accept(c) \/ handle_handshake(c) \/ handle_handshake_error(c)
         \/ handle_read_error(c)
  PROVE  IInv'
<1> USE DEF clientVars, connVars, CloseConn
<1>1. TypeOK /\ ClientInv(c) BY DEF IInv
<1>2. \A d \in Clients \ {c} : Same(d)
  BY <1>1 DEF handle_accept, handle_handshake, handle_handshake_error,
       handle_read_error, Same, TypeOK
<1>3. TypeOK' /\ ClientInv(c)'
  <2>1. CASE handle_accept(c)
    BY <2>1, <1>1 DEF handle_accept, TypeOK, ClientInv, WholeGoal, Fresh,
         InStep, Ended, Pushed, Consumed
  <2>2. CASE handle_handshake(c)
    <3>1. read[c] = 0 /\ pending_data_len_[c] = 0 /\ outputs_[c] = << >>
      BY <2>2, <1>1 DEF handle_handshake, ClientInv, Fresh
    <3>2. HsSize <= wrote[c]
      BY <2>2, <3>1, <1>1, OneClient, SizeAssumption DEF handle_handshake, Unread
    <3>3. TypeOK' BY <2>2, <3>2, <1>1, SizeAssumption DEF handle_handshake, TypeOK
    <3>4. Pushed(c)' BY <2>2, <3>1 DEF handle_handshake, Pushed
    <3>5. WholeGoal(c)' BY <2>2, <1>1 DEF handle_handshake, ClientInv, WholeGoal
    <3>6. conn'[c] = "reading" => InStep(c)'
      <4>1. Len(outputs_'[c]) = 0 BY <2>2, <3>1 DEF handle_handshake
      <4>2. Consumed(c)' = HsSize BY <4>1, SizeAssumption DEF Consumed
      <4> QED BY <2>2, <3>1, <4>2, <1>1, SizeAssumption DEF handle_handshake, InStep, TypeOK
    <3>7. conn'[c] \in {"reading", "closed"} /\ client_pc' = client_pc /\ conn[c] = "handshake"
      BY <2>2, <1>1 DEF handle_handshake, TypeOK
    <3> QED BY <3>3, <3>4, <3>5, <3>6, <3>7, <1>1 DEF ClientInv
  <2>3. CASE handle_handshake_error(c)
    <3>1. read[c] = 0 /\ pending_data_len_[c] = 0 /\ outputs_[c] = << >>
      BY <2>3, <1>1 DEF handle_handshake_error, ClientInv, Fresh
    <3>2. TypeOK'
      <4>1. read' \in [Clients -> Nat] /\ \A d \in Clients : read'[d] <= wrote[d]
        BY <2>3, <1>1 DEF handle_handshake_error, TypeOK
      <4>2. link' \in [Clients -> {"up", "eof", "reset"}]
            /\ conn' \in [Clients -> {"none", "backlog", "handshake", "reading", "closed"}]
        BY <2>3, <1>1 DEF handle_handshake_error, TypeOK
      <4> QED BY <2>3, <1>1, <4>1, <4>2 DEF handle_handshake_error, TypeOK
    <3>3. Pushed(c)' BY <2>3, <3>1 DEF handle_handshake_error, Pushed
    <3>4. WholeGoal(c)' BY <2>3, <1>1 DEF handle_handshake_error, ClientInv, WholeGoal
    <3>5. conn'[c] = "reading" => Ended(c)'
      BY <2>3, <3>1, <1>1 DEF handle_handshake_error, Ended, TypeOK
    <3>6. conn'[c] \in {"reading", "closed"} /\ client_pc' = client_pc /\ conn[c] = "handshake"
      BY <2>3, <1>1 DEF handle_handshake_error, TypeOK
    <3> QED BY <3>2, <3>3, <3>4, <3>5, <3>6, <1>1 DEF ClientInv
  <2>4. CASE handle_read_error(c)
    BY <2>4, <1>1 DEF handle_read_error, TypeOK, ClientInv, WholeGoal, Fresh,
         InStep, Ended, Pushed, Consumed
  <2> QED BY <2>1, <2>2, <2>3, <2>4
<1> QED BY <1>2, <1>3, OtherClients DEF IInv

\* io_context::stop closes every connection and reads nothing.
LEMMA StopStep ==
  ASSUME IInv, ServerStop
  PROVE  IInv'
<1> USE DEF clientVars, connVars
<1>1. TypeOK' 
  <2>1. accepting' \in BOOLEAN /\ stopped' \in BOOLEAN BY Zenon DEF ServerStop
  <2> QED BY <2>1 DEF IInv, ServerStop, TypeOK
<1>2. ASSUME NEW c \in Clients PROVE ClientInv(c)'
  <2>1. ClientInv(c) BY DEF IInv
  <2> QED BY <2>1 DEF ServerStop, ClientInv, WholeGoal, Fresh,
        InStep, Ended, Pushed, Consumed
<1> QED BY <1>1, <1>2 DEF IInv

\* What a read does: it pushes a number of records, the next ones of the
\* stream, and leaves the buffer in step behind them.
LEMMA ReadEffect ==
  ASSUME IInv, NEW c \in Clients, handle_read(c)
  PROVE  /\ TypeOK' /\ InStep(c)' /\ c \in Matching
         /\ outputs_' = [outputs_ EXCEPT ![c] = outputs_'[c]]
         /\ Len(outputs_[c]) <= Len(outputs_'[c])
         /\ \A k \in 1..Len(outputs_[c]) : outputs_'[c][k] = outputs_[c][k]
         /\ \A k \in 1..Len(outputs_'[c]) : outputs_'[c][k] = RecordBytes(k)
<1> USE DEF clientVars
<1>1. TypeOK /\ ClientInv(c) BY DEF IInv
<1> DEFINE m == Len(outputs_[c])
           len == pending_data_len_[c]
<1>2. PICK n \in 1..Unread(c) :
        LET total == len + n
            count == total \div RecSize
            filled == Filled(c, n)
        IN  /\ total <= BufSize
            /\ read' = [read EXCEPT ![c] = @ + n]
            /\ outputs_' = [outputs_ EXCEPT ![c] =
                               @ \o [i \in 1..count |-> RecordAt(filled, i)]]
            /\ pending_data_len_' = [pending_data_len_ EXCEPT ![c] = Rest(total)]
            /\ pending_data_' = [pending_data_ EXCEPT ![c] =
                                   Kept(filled, count, Rest(total))]
  BY DEF handle_read
<1> DEFINE total == len + n
           count == total \div RecSize
           filled == Filled(c, n)
           new == [i \in 1..count |-> RecordAt(filled, i)]
           rest == Rest(total)
<1>3. /\ m \in Nat /\ len \in Nat /\ read[c] \in Nat /\ wrote[c] \in Nat
      /\ outputs_[c] \in Seq([1..RecSize -> Nat]) /\ m * RecSize \in Nat
  BY <1>1, OneClient
<1>4. n \in Nat /\ n >= 1 /\ read[c] + n <= wrote[c]
  BY <1>2, <1>3 DEF Unread
<1>5. InStep(c)
  BY <1>1, <1>3, <1>4 DEF handle_read, ClientInv, Ended
<1>6. total \in 0..BufSize /\ total \in Nat
  <2>1. len + n <= BufSize BY <1>2
  <2> QED BY <2>1, <1>3, <1>4, SizeAssumption
<1>7. /\ filled \in [1..BufSize -> Nat]
      /\ \A k \in 1..total : filled[k] = HsSize + m * RecSize + k
  BY <1>1, <1>4, <1>5, <1>6, FilledInStep DEF Consumed
<1>8. /\ count \in Nat /\ rest \in Nat /\ rest < RecSize
      /\ total = count * RecSize + rest
      /\ Kept(filled, count, rest) \in [1..BufSize -> Nat]
      /\ \A k \in 1..rest :
           Kept(filled, count, rest)[k] = HsSize + (m + count) * RecSize + k
  BY <1>3, <1>6, <1>7, KeptInStep, ZenonT(60)
<1>9. \A i \in 1..count : /\ RecordAt(filled, i) = RecordBytes(m + i)
                          /\ RecordAt(filled, i) \in [1..RecSize -> Nat]
  BY <1>3, <1>6, <1>7, RecordAtInStep
<1>10. /\ read' = [read EXCEPT ![c] = @ + n]
       /\ outputs_' = [outputs_ EXCEPT ![c] = @ \o new]
       /\ pending_data_len_' = [pending_data_len_ EXCEPT ![c] = rest]
       /\ pending_data_' = [pending_data_ EXCEPT ![c] = Kept(filled, count, rest)]
  BY <1>2
<1>11. /\ read'[c] = read[c] + n /\ outputs_'[c] = outputs_[c] \o new
       /\ pending_data_len_'[c] = rest
       /\ pending_data_'[c] = Kept(filled, count, rest)
  BY <1>1, <1>10 DEF TypeOK
<1>12. read[c] = HsSize + m * RecSize + len /\ \A k \in 1..m : outputs_[c][k] = RecordBytes(k)
  BY <1>1, <1>5 DEF InStep, Consumed, ClientInv, Pushed
<1>13. total = len + n /\ new = [i \in 1..count |-> RecordAt(filled, i)] OBVIOUS
<1>14. (m + count) * RecSize = m * RecSize + count * RecSize /\ count * RecSize \in Nat
  BY <1>3, <1>8, Multiples
<1> HIDE DEF total, count, filled, new, rest, m, len
<1>15. new \in Seq([1..RecSize -> Nat]) /\ Len(new) = count
  BY <1>8, <1>9, <1>13
<1>16. /\ outputs_'[c] \in Seq([1..RecSize -> Nat]) /\ Len(outputs_'[c]) = m + count
       /\ \A k \in 1..m : outputs_'[c][k] = outputs_[c][k]
       /\ \A k \in (m + 1)..(m + count) : outputs_'[c][k] = new[k - m]
  <2> DEFINE old == outputs_[c]
  <2>1. old \in Seq([1..RecSize -> Nat]) /\ Len(old) = m BY <1>3 DEF m
  <2>2. outputs_'[c] = old \o new BY <1>11
  <2> HIDE DEF old
  <2>3. /\ old \o new \in Seq([1..RecSize -> Nat]) /\ Len(old \o new) = m + count
        /\ \A k \in 1..(m + count) :
             (old \o new)[k] = IF k <= m THEN old[k] ELSE new[k - m]
    BY <2>1, <1>15, ConcatProperties
  <2>4. \A k \in 1..m : k \in 1..(m + count) /\ k <= m BY <1>3, <1>8
  <2>5. \A k \in (m + 1)..(m + count) : k \in 1..(m + count) /\ ~(k <= m)
    BY <1>3, <1>8
  <2> QED BY <2>2, <2>3, <2>4, <2>5 DEF old
<1>17. \A k \in 1..(m + count) : outputs_'[c][k] = RecordBytes(k)
  <2> TAKE k \in 1..(m + count)
  <2>1. CASE k \in 1..m BY <2>1, <1>12, <1>16
  <2>2. CASE k \notin 1..m
    <3>1. k \in (m + 1)..(m + count) /\ k - m \in 1..count /\ m + (k - m) = k
      BY <2>2, <1>3, <1>8
    <3>2. outputs_'[c][k] = RecordAt(filled, k - m) BY <3>1, <1>13, <1>16
    <3> QED BY <3>1, <3>2, <1>9
  <2> QED BY <2>1, <2>2
<1>18. TypeOK'
  <2>1. read' \in [Clients -> Nat] /\ \A d \in Clients : read'[d] <= wrote[d]
    BY <1>1, <1>3, <1>4, <1>10, <1>11 DEF TypeOK
  <2>2. outputs_' \in [Clients -> Seq([1..RecSize -> Nat])]
    BY <1>1, <1>10, <1>11, <1>16 DEF TypeOK
  <2>3. pending_data_len_' \in [Clients -> 0..BufSize]
    <3>1. rest \in 0..BufSize BY <1>6, <1>8, SizeAssumption
    <3> QED BY <3>1, <1>1, <1>10 DEF TypeOK
  <2>4. pending_data_' \in [Clients -> [1..BufSize -> Nat]]
    BY <1>1, <1>8, <1>10 DEF TypeOK
  <2> QED BY <1>1, <2>1, <2>2, <2>3, <2>4 DEF handle_read, TypeOK
<1>19. InStep(c)'
  <2>1. Consumed(c)' = HsSize + (m + count) * RecSize BY <1>16 DEF Consumed
  <2>2. read'[c] = (HsSize + (m + count) * RecSize) + rest
    <3> DEFINE x == m * RecSize
               y == count * RecSize
               z == (m + count) * RecSize
    <3> HIDE DEF x, y, z
    <3>1. z = x + y /\ x \in Nat /\ y \in Nat BY <1>3, <1>14 DEF x, y, z
    <3>2. read'[c] = (HsSize + x + len) + n /\ len + n = y + rest
      BY <1>8, <1>11, <1>12, <1>13 DEF x, y
    <3>3. len \in Nat /\ n \in Nat /\ rest \in Nat /\ HsSize \in Nat
      BY <1>3, <1>4, <1>8, SizeAssumption
    <3>4. read'[c] = (HsSize + x) + (len + n) BY <3>1, <3>2, <3>3
    <3>5. read'[c] = (HsSize + x) + (y + rest) BY <3>2, <3>4
    <3>6. (HsSize + x) + (y + rest) = (HsSize + (x + y)) + rest BY <3>1, <3>3
    <3>7. read'[c] = (HsSize + z) + rest BY <3>1, <3>5, <3>6
    <3> QED BY <3>7 DEF z
  <2> QED BY <1>5, <1>8, <1>11, <2>1, <2>2 DEF InStep
<1>20. outputs_' = [outputs_ EXCEPT ![c] = outputs_'[c]]
  BY <1>10, <1>11
<1> QED BY <1>3, <1>5, <1>8, <1>16, <1>17, <1>18, <1>19, <1>20 DEF m, InStep

\* handle_read keeps the connection in step.
LEMMA ReadStep ==
  ASSUME IInv, NEW c \in Clients, handle_read(c)
  PROVE  IInv'
<1> USE DEF clientVars
<1>1. TypeOK /\ ClientInv(c) BY DEF IInv
<1>2. /\ TypeOK' /\ InStep(c)' /\ c \in Matching
      /\ \A k \in 1..Len(outputs_'[c]) : outputs_'[c][k] = RecordBytes(k)
  BY ReadEffect
<1>3. \A d \in Clients \ {c} : Same(d)
  <2>1. \A d \in Clients \ {c} :
          /\ read'[d] = read[d] /\ pending_data_'[d] = pending_data_[d]
          /\ pending_data_len_'[d] = pending_data_len_[d] /\ outputs_'[d] = outputs_[d]
    BY <1>1 DEF handle_read, TypeOK
  <2> QED BY <2>1 DEF handle_read, Same
<1>4. Pushed(c)'
  <2>1. Consumed(c)' \in Nat /\ pending_data_len_'[c] \in Nat
    <3>1. Len(outputs_'[c]) \in Nat /\ pending_data_len_'[c] \in Nat
      BY <1>2, SizeAssumption DEF TypeOK
    <3> QED BY <3>1, Multiples, SizeAssumption DEF Consumed
  <2>2. Consumed(c)' <= read'[c] BY <1>2, <2>1 DEF InStep
  <2> QED BY <1>2, <2>2 DEF Pushed
<1>5. WholeGoal(c)' BY <1>1 DEF handle_read, ClientInv, WholeGoal
<1>6. client_pc' = client_pc /\ conn' = conn /\ conn[c] = "reading" BY DEF handle_read
<1>7. ClientInv(c)' BY <1>1, <1>2, <1>4, <1>5, <1>6 DEF ClientInv
<1> QED BY <1>2, <1>3, <1>7, OtherClients DEF IInv

\* Every step keeps the invariant.
LEMMA NextIInv == IInv /\ [Next]_vars => IInv'
<1> SUFFICES ASSUME IInv, [Next]_vars PROVE IInv'
  OBVIOUS
<1>1. CASE UNCHANGED vars
  <2>1. TypeOK' BY <1>1 DEF IInv, TypeOK, vars, clientVars, connVars
  <2>2. \A c \in Clients : Same(c) BY <1>1 DEF Same, vars, clientVars, connVars
  <2> QED BY <2>1, <2>2, OtherClients DEF IInv
<1>2. CASE ServerStop BY <1>2, StopStep
<1>3. ASSUME NEW c \in Clients,
             \/ ClientConnect(c) \/ ClientConnectFails(c)
             \/ ClientWrite(c) \/ ClientDrain(c)
             \/ ClientReturn(c) \/ ClientKilled(c)
             \/ LinkBreaks(c)
             \/ Handle(c)
      PROVE  IInv'
  BY <1>3, ClientStep, DrainStep, ConnectionStep, ReadStep DEF Handle
<1> QED BY <1>1, <1>2, <1>3 DEF Next

\* Every connection that reads is in step with its client's stream, or its
\* handshake failed and the stream has ended.
THEOREM LinkInvariant == Spec => []IInv
<1>1. Init => IInv BY InitIInv
<1>2. IInv /\ [Next]_vars => IInv' BY NextIInv
<1> QED BY <1>1, <1>2, PTL DEF Spec

-----------------------------------------------------------------------------
(***************************************************************************)
(* What the link promises follows from the invariant.                      *)
(***************************************************************************)
\* The server never queues more records than the client took, and no more
\* than the bound.
LEMMA PushedBound ==
  ASSUME IInv, NEW c \in Clients
  PROVE  /\ Records(c) \in 0..MaxRecords
         /\ Len(outputs_[c]) <= Records(c)
<1>1. TypeOK /\ ClientInv(c) BY DEF IInv
<1>2. /\ goal[c] \in Nat /\ read[c] <= goal[c] /\ read[c] \in Nat
      /\ Len(outputs_[c]) \in Nat /\ Len(outputs_[c]) * RecSize \in Nat
      /\ outputs_[c] \in Seq([1..RecSize -> Nat])
  BY <1>1, OneClient
<1>3. outputs_[c] = << >> \/ HsSize + Len(outputs_[c]) * RecSize <= goal[c]
  BY <1>1, <1>2, SizeAssumption DEF ClientInv, Pushed, Consumed
<1>4. CASE goal[c] = 0
  <2>1. outputs_[c] = << >> BY <1>2, <1>3, <1>4, SizeAssumption
  <2> QED BY <1>4, <2>1, SizeAssumption DEF Records
<1>5. CASE goal[c] # 0
  <2>1. PICK r \in 0..MaxRecords : goal[c] = HsSize + r * RecSize
    BY <1>1, <1>5 DEF ClientInv, WholeGoal
  <2>2. r \in Nat /\ Records(c) = r BY <2>1, RecordsExact, SizeAssumption
  <2>3. CASE outputs_[c] = << >> BY <2>1, <2>2, <2>3, SizeAssumption
  <2>4. CASE outputs_[c] # << >>
    <3> DEFINE m == Len(outputs_[c])
    <3>1. m * RecSize <= r * RecSize
      <4>1. r * RecSize \in Nat BY <2>2, Multiples
      <4> QED BY <4>1, <1>2, <1>3, <2>1, <2>4, SizeAssumption
    <3>2. m \in Nat BY <1>2
    <3> HIDE DEF m
    <3>3. ~(r < m)
      <4>1. r < m => r * RecSize + RecSize <= m * RecSize BY <2>2, <3>2, Multiples
      <4>2. r * RecSize \in Nat /\ m * RecSize \in Nat BY <2>2, <3>2, Multiples
      <4> QED BY <3>1, <4>1, <4>2, SizeAssumption
    <3>4. m <= r BY <2>2, <3>2, <3>3
    <3> QED BY <2>1, <2>2, <3>4 DEF m
  <2> QED BY <2>3, <2>4
<1> QED BY <1>4, <1>5

Bounded ==
  \A c \in Clients : Records(c) \in 0..MaxRecords /\ Len(outputs_[c]) <= Records(c)

\* The same after a step.
LEMMA BoundedNext == IInv' => Bounded'
<1>1. IInv => Bounded BY PushedBound DEF Bounded
<1> QED BY <1>1, PTL

\* The types and the order of the stream positions, for any sizes.
THEOREM TypeCorrect == Spec => []TypeOK
<1>1. IInv => TypeOK BY DEF IInv
<1> QED BY <1>1, LinkInvariant, PTL

\* Whatever TCP makes of the stream, the records a connection pushes are the
\* first ones its client wrote, whole and in order.
THEOREM RecordsStayWhole == Spec => []WholeRecordsInOrder
<1>1. IInv => WholeRecordsInOrder
  BY PushedBound DEF IInv, ClientInv, Pushed, WholeRecordsInOrder
<1> QED BY <1>1, LinkInvariant, PTL

\* handle_read always posts the next read with room for a byte at least.
THEOREM ReadsHaveRoom == Spec => []ReadHasRoom
<1>1. IInv => ReadHasRoom
  BY SizeAssumption DEF IInv, ClientInv, InStep, Ended, ReadHasRoom
<1> QED BY <1>1, LinkInvariant, PTL

\* A client of the other biome size gets nothing into the queue, although
\* handle_handshake does not look at the error of its read.
THEOREM OthersQueueNothing == Spec => []OnlyMatchingQueued
<1>1. IInv => OnlyMatchingQueued
  BY DEF IInv, ClientInv, Pushed, OnlyMatchingQueued
<1> QED BY <1>1, LinkInvariant, PTL

-----------------------------------------------------------------------------
(***************************************************************************)
(* The refinement: every step of the link is a step of the channel of      *)
(* records, or leaves the channel as it is.                                *)
(***************************************************************************)
Numbers(n) == [i \in 1..n |-> i]

\* Records with different numbers differ in their bytes.
LEMMA DecodeRecord ==
  ASSUME NEW k \in 1..MaxRecords
  PROVE  Decode(RecordBytes(k)) = k
<1>1. ASSUME NEW j \in 1..MaxRecords, RecordBytes(k) = RecordBytes(j)
      PROVE  j = k
  <2>1. 1 \in 1..RecSize BY SizeAssumption
  <2>2. RecordBytes(k)[1] = HsSize + (k - 1) * RecSize + 1
        /\ RecordBytes(j)[1] = HsSize + (j - 1) * RecSize + 1
    BY <2>1 DEF RecordBytes
  <2>3. k - 1 \in Nat /\ j - 1 \in Nat BY SizeAssumption
  <2> DEFINE a == (k - 1) * RecSize
             b == (j - 1) * RecSize
  <2>4. /\ a \in Nat /\ b \in Nat
        /\ (k - 1 < j - 1 => a + RecSize <= b) /\ (j - 1 < k - 1 => b + RecSize <= a)
    BY <2>3, Multiples
  <2>5. HsSize + a + 1 = HsSize + b + 1 BY <1>1, <2>2
  <2> HIDE DEF a, b
  <2>6. a = b BY <2>4, <2>5, SizeAssumption
  <2> QED BY <2>3, <2>4, <2>6, SizeAssumption
<1> DEFINE P(x) == x \in 1..MaxRecords /\ RecordBytes(k) = RecordBytes(x)
<1>2. Decode(RecordBytes(k)) = CHOOSE x \in 1..MaxRecords : RecordBytes(k) = RecordBytes(x)
  BY DEF Decode
<1>3. (CHOOSE x \in 1..MaxRecords : RecordBytes(k) = RecordBytes(x)) = k
  <2>1. \E x \in 1..MaxRecords : RecordBytes(k) = RecordBytes(x) OBVIOUS
  <2> DEFINE w == CHOOSE x \in 1..MaxRecords : RecordBytes(k) = RecordBytes(x)
  <2>2. w \in 1..MaxRecords /\ RecordBytes(k) = RecordBytes(w) BY <2>1
  <2> HIDE DEF w
  <2>3. w = k BY <2>2, <1>1
  <2> QED BY <2>3 DEF w
<1> QED BY <1>2, <1>3

\* What the channel sees of the server's queue.
LEMMA ArrivedNumbers ==
  ASSUME IInv, NEW c \in Clients
  PROVE  [i \in 1..Len(outputs_[c]) |-> Decode(outputs_[c][i])] = Numbers(Len(outputs_[c]))
<1>1. TypeOK /\ ClientInv(c) BY DEF IInv
<1>2. Len(outputs_[c]) \in Nat BY <1>1, OneClient
<1>3. Len(outputs_[c]) <= MaxRecords BY <1>2, PushedBound, SizeAssumption
<1>4. \A i \in 1..Len(outputs_[c]) : Decode(outputs_[c][i]) = i
  <2> TAKE i \in 1..Len(outputs_[c])
  <2>1. i \in 1..MaxRecords BY <1>2, <1>3, SizeAssumption
  <2>2. outputs_[c][i] = RecordBytes(i) BY <1>1 DEF ClientInv, Pushed
  <2> QED BY <2>1, <2>2, DecodeRecord
<1> QED BY <1>4 DEF Numbers

\* The next numbers, behind the ones that have arrived.
LEMMA NumbersConcat ==
  ASSUME NEW a \in Nat, NEW b \in Nat
  PROVE  Numbers(a + b) = Numbers(a) \o [i \in 1..b |-> a + i]
<1> DEFINE old == Numbers(a)
           new == [i \in 1..b |-> a + i]
           all == Numbers(a + b)
<1>1. old \in Seq(Nat) /\ Len(old) = a /\ \A i \in 1..a : old[i] = i BY DEF Numbers
<1>2. new \in Seq(Nat) /\ Len(new) = b /\ \A i \in 1..b : new[i] = a + i OBVIOUS
<1>3. all \in Seq(Nat) /\ Len(all) = a + b /\ \A i \in 1..(a + b) : all[i] = i
  BY DEF Numbers
<1> HIDE DEF old, new, all
<1>4. /\ old \o new \in Seq(Nat) /\ Len(old \o new) = Len(old) + Len(new)
      /\ \A i \in 1..(Len(old) + Len(new)) :
           (old \o new)[i] = IF i <= Len(old) THEN old[i] ELSE new[i - Len(old)]
  BY <1>1, <1>2, ConcatProperties
<1>5. Len(old \o new) = a + b BY <1>1, <1>2, <1>4
<1>6. \A i \in 1..(a + b) : (old \o new)[i] = IF i <= a THEN old[i] ELSE new[i - a]
  BY <1>1, <1>2, <1>4
<1>7. \A i \in 1..(a + b) : (old \o new)[i] = i
  <2> TAKE i \in 1..(a + b)
  <2>1. CASE i <= a BY <2>1, <1>1, <1>6
  <2>2. CASE ~(i <= a)
    <3>1. i - a \in 1..b /\ a + (i - a) = i BY <2>2
    <3> QED BY <2>2, <3>1, <1>2, <1>6
  <2> QED BY <2>1, <2>2
<1>8. all = old \o new
  BY <1>3, <1>4, <1>5, <1>7, SeqEqual
<1> QED BY <1>8 DEF old, new, all

\* Records(c), of the number of bytes the client has to write.
RecordsIn(g) == IF g = 0 THEN 0 ELSE (g - HsSize) \div RecSize

\* A goal of r whole records counts as r records.
LEMMA RecordsInExact ==
  ASSUME NEW g, NEW r \in Nat, g = HsSize + r * RecSize
  PROVE  RecordsIn(g) = r
<1>1. r * RecSize \in Nat BY Multiples
<1>2. g # 0 /\ g - HsSize = r * RecSize BY <1>1, SizeAssumption
<1> QED BY <1>2, ExactDivision DEF RecordsIn

\* The channel, as the refinement mapping sees it.
taken == [c \in Clients |-> Records(c)]
arrived == [c \in Clients |-> [i \in 1..Len(outputs_[c]) |-> Decode(outputs_[c][i])]]

\* At the start the channel is empty.
LEMMA ChannelInit == Init => Channel!Init
<1> SUFFICES ASSUME Init PROVE Channel!Init
  OBVIOUS
<1>1. taken = [c \in Clients |-> 0] BY DEF Init, taken, Records
<1>2. arrived = [c \in Clients |-> << >>] BY DEF Init, arrived
<1> QED BY <1>1, <1>2 DEF Channel!Init, taken, arrived

\* A step that leaves what the client took and what the server queued.
LEMMA ChannelStutter ==
  ASSUME UNCHANGED <<goal, outputs_>>
  PROVE  UNCHANGED <<taken, arrived>>
  BY DEF taken, arrived, Records

\* asio::connect: the handshake is no record.
LEMMA ChannelConnect ==
  ASSUME IInv, NEW c \in Clients, ClientConnect(c)
  PROVE  UNCHANGED <<taken, arrived>>
<1>1. TypeOK /\ goal[c] = 0 BY DEF IInv, ClientInv, ClientConnect
<1>2. goal' = [goal EXCEPT ![c] = HsSize] /\ outputs_' = outputs_ BY DEF ClientConnect
<1>3. RecordsIn(HsSize) = 0
  <2>1. HsSize = HsSize + 0 * RecSize BY SizeAssumption
  <2> QED BY <2>1, RecordsInExact
<1>4. ASSUME NEW d \in Clients PROVE RecordsIn(goal'[d]) = RecordsIn(goal[d])
  BY <1>1, <1>2, <1>3 DEF TypeOK, RecordsIn
<1>5. taken' = taken BY <1>4 DEF taken, Records, RecordsIn
<1>6. arrived' = arrived BY <1>2 DEF arrived
<1> QED BY <1>5, <1>6

\* A client that drains its queue takes the records.
LEMMA ChannelTake ==
  ASSUME IInv, NEW c \in Clients, ClientDrain(c)
  PROVE  \E n \in 1..MaxRecords : Channel!Take(c, n)
<1>1. TypeOK /\ ClientInv(c) BY DEF IInv
<1>2. PICK r \in 0..MaxRecords : goal[c] = HsSize + r * RecSize
  BY <1>1 DEF ClientInv, WholeGoal, ClientDrain
<1>3. r \in Nat /\ Records(c) = r BY <1>2, RecordsExact, SizeAssumption
<1>4. PICK n \in 1..(MaxRecords - r) : goal' = [goal EXCEPT ![c] = @ + n * RecSize]
  BY <1>3 DEF ClientDrain
<1>5. n \in 1..MaxRecords /\ n \in Nat BY <1>3, <1>4, SizeAssumption
<1>6. goal'[c] = HsSize + (r + n) * RecSize
  <2>1. goal'[c] = goal[c] + n * RecSize BY <1>4, <1>1 DEF TypeOK
  <2>2. /\ n * RecSize \in Nat /\ r * RecSize \in Nat
        /\ (r + n) * RecSize = r * RecSize + n * RecSize
    BY <1>3, <1>5, Multiples
  <2> DEFINE x == r * RecSize
             y == n * RecSize
  <2>3. goal'[c] = (HsSize + x) + y /\ (r + n) * RecSize = x + y /\ x \in Nat /\ y \in Nat
    BY <1>2, <2>1, <2>2
  <2> HIDE DEF x, y
  <2> QED BY <2>3, SizeAssumption
<1>7. RecordsIn(goal'[c]) = r + n BY <1>3, <1>5, <1>6, RecordsInExact
<1>8. \A d \in Clients \ {c} : goal'[d] = goal[d] BY <1>1, <1>4 DEF TypeOK
<1>9. taken' = [taken EXCEPT ![c] = @ + n]
  <2>1. taken' = [d \in Clients |-> RecordsIn(goal'[d])] BY DEF taken, Records, RecordsIn
  <2>2. taken = [d \in Clients |-> RecordsIn(goal[d])] BY DEF taken, Records, RecordsIn
  <2>3. RecordsIn(goal[c]) = r BY <1>3 DEF Records, RecordsIn
  <2> QED BY <2>1, <2>2, <2>3, <1>7, <1>8
<1>10. arrived' = arrived BY DEF arrived, ClientDrain, connVars
<1> QED BY <1>5, <1>9, <1>10 DEF Channel!Take, taken, arrived

\* A read delivers the records it completes, or none.
LEMMA ChannelArrive ==
  ASSUME IInv, IInv', NEW c \in Clients, handle_read(c)
  PROVE  \/ UNCHANGED <<taken, arrived>>
         \/ \E n \in 1..MaxRecords : Channel!Arrive(c, n)
<1> DEFINE a == Len(outputs_[c])
           e == Len(outputs_'[c])
<1>1. TypeOK /\ TypeOK' BY DEF IInv
<1>2. /\ outputs_' = [outputs_ EXCEPT ![c] = outputs_'[c]] /\ a <= e
      /\ \A k \in 1..a : outputs_'[c][k] = outputs_[c][k]
      /\ \A k \in 1..e : outputs_'[c][k] = RecordBytes(k)
  BY ReadEffect
<1>3. a \in Nat /\ e \in Nat BY <1>1 DEF TypeOK
<1>4. goal' = goal BY DEF handle_read, clientVars
<1>5. taken' = taken BY <1>4 DEF taken, Records
<1>6. taken[c] = Records(c) /\ Records(c)' = Records(c) BY <1>4 DEF taken, Records
<1>7. e <= Records(c) /\ Records(c) \in 0..MaxRecords
  BY <1>6, BoundedNext, PushedBound DEF Bounded
<1>8. arrived[c] = Numbers(a) BY ArrivedNumbers DEF arrived
<1>9. arrived'[c] = Numbers(e)
  <2>1. \A k \in 1..e : Decode(outputs_'[c][k]) = k
    <3> TAKE k \in 1..e
    <3>1. k \in 1..MaxRecords BY <1>3, <1>7, SizeAssumption
    <3> QED BY <3>1, <1>2, DecodeRecord
  <2>2. arrived'[c] = [i \in 1..e |-> Decode(outputs_'[c][i])] BY DEF arrived
  <2> QED BY <2>1, <2>2 DEF Numbers
<1>10. ASSUME NEW d \in Clients \ {c} PROVE arrived'[d] = arrived[d]
  <2>1. DOMAIN outputs_ = Clients BY <1>1 DEF TypeOK
  <2>2. outputs_'[d] = outputs_[d] BY <2>1, <1>2
  <2>3. arrived'[d] = [i \in 1..Len(outputs_'[d]) |-> Decode(outputs_'[d][i])] BY DEF arrived
  <2>4. arrived[d] = [i \in 1..Len(outputs_[d]) |-> Decode(outputs_[d][i])] BY DEF arrived
  <2> QED BY <2>2, <2>3, <2>4
<1>11. arrived = [d \in Clients |-> arrived[d]] /\ arrived' = [d \in Clients |-> arrived'[d]]
  BY DEF arrived
<1>12. PICK n \in Nat : e = a + n
  <2>1. e - a \in Nat /\ e = a + (e - a) BY <1>2, <1>3
  <2> QED BY <2>1
<1>13. Len(Numbers(a)) = a BY <1>3 DEF Numbers
<1> HIDE DEF a, e
<1>14. CASE n = 0
  <2>1. arrived'[c] = arrived[c] BY <1>3, <1>8, <1>9, <1>12, <1>14
  <2>2. arrived' = arrived BY <2>1, <1>10, <1>11
  <2> QED BY <1>5, <2>2
<1>15. CASE n # 0
  <2>1. n \in 1..MaxRecords BY <1>3, <1>7, <1>12, <1>15, SizeAssumption
  <2>2. arrived'[c] = arrived[c] \o [i \in 1..n |-> a + i]
    BY <1>3, <1>8, <1>9, <1>12, NumbersConcat
  <2>3. arrived' = [arrived EXCEPT ![c] = @ \o [i \in 1..n |-> Len(arrived[c]) + i]]
    BY <2>2, <1>8, <1>10, <1>11, <1>13
  <2>4. Len(arrived[c]) + n <= taken[c] BY <1>6, <1>7, <1>8, <1>12, <1>13
  <2>5. Channel!Arrive(c, n) BY <2>3, <2>4, <1>5 DEF Channel!Arrive, taken, arrived
  <2> QED BY <2>1, <2>5
<1> QED BY <1>14, <1>15

\* Every step of the link is a step of the channel or none.
LEMMA ChannelNext ==
  ASSUME IInv, IInv', [Next]_vars
  PROVE  [Channel!Next]_<<taken, arrived>>
<1> USE DEF clientVars, connVars
<1>1. CASE UNCHANGED vars BY <1>1, ChannelStutter DEF vars
<1>2. CASE ServerStop BY <1>2, ChannelStutter DEF ServerStop
<1>3. ASSUME NEW c \in Clients,
             \/ ClientConnect(c) \/ ClientConnectFails(c)
             \/ ClientWrite(c) \/ ClientDrain(c)
             \/ ClientReturn(c) \/ ClientKilled(c)
             \/ LinkBreaks(c)
             \/ Handle(c)
      PROVE  [Channel!Next]_<<taken, arrived>>
  <2>1. CASE ClientConnect(c) BY <2>1, ChannelConnect
  <2>2. CASE ClientDrain(c) BY <2>2, ChannelTake DEF Channel!Next
  <2>3. CASE handle_read(c) BY <2>3, ChannelArrive DEF Channel!Next
  <2>4. CASE \/ ClientConnectFails(c) \/ ClientWrite(c)
             \/ ClientReturn(c) \/ ClientKilled(c) \/ LinkBreaks(c)
             \/ handle_accept(c) \/ handle_handshake(c)
             \/ handle_handshake_error(c) \/ handle_read_error(c)
    <3>1. UNCHANGED <<goal, outputs_>>
      BY <2>4 DEF ClientConnectFails, ClientWrite, ClientWriteSome, ClientWriteFails,
           ClientReturn, ClientKilled, LinkBreaks, handle_accept, handle_handshake,
           handle_handshake_error, handle_read_error
    <3> QED BY <3>1, ChannelStutter
  <2> QED BY <1>3, <2>1, <2>2, <2>3, <2>4 DEF Handle
<1> QED BY <1>1, <1>2, <1>3 DEF Next

\* The byte stream, the partial writes and reads, the failing handshake and
\* the reassembly in handle_read implement the channel of records.
THEOREM LinkImplementsChannel == Spec => ImplementsChannel
<1>1. Init => Channel!Init BY ChannelInit
<1>2. IInv /\ IInv' /\ [Next]_vars => [Channel!Next]_<<taken, arrived>>
  BY ChannelNext
<1>3. Spec => []IInv BY LinkInvariant
<1> QED BY <1>1, <1>2, <1>3, PTL DEF Spec, ImplementsChannel, Channel!Spec, taken, arrived

=============================================================================

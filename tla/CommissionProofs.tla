-------------------------- MODULE CommissionProofs --------------------------
(***************************************************************************)
(* Proofs about Commission, for any number of GPU and CPU threads, any     *)
(* seed space and batch size and any filter; and about Args, for any       *)
(* command line.                                                           *)
(***************************************************************************)
EXTENDS Commission, FiniteSetTheorems, SequenceTheorems, TLAPS

\* A batch is a set of seeds, also where it wraps.
LEMMA BatchSeedsType ==
  ASSUME NEW s \in Seeds
  PROVE  BatchSeeds(s) \subseteq Seeds
  BY SeedAssumption DEF BatchSeeds, Seeds

\* What GpuPush appends to gpu_outputs is a sequence of candidates.
LEMMA OrderingsType ==
  ASSUME NEW s \in Seeds, NEW q \in Orderings(BatchHits(s))
  PROVE  q \in Seq(Candidate)
<1>1. BatchHits(s) \subseteq Candidate
  BY BatchSeedsType, DataAssumption DEF BatchHits
<1>2. IsFiniteSet(BatchHits(s))
  BY <1>1, FS_Subset, DataAssumption
<1>3. Cardinality(BatchHits(s)) \in Nat
  BY <1>2, FS_CardinalityType
<1>4. q \in [1..Cardinality(BatchHits(s)) -> Candidate]
  BY <1>1 DEF Orderings
<1> QED
  BY <1>3, <1>4

\* What ClientDrain appends to pending_data are numbers of candidates.
LEMMA QueuedNumbersType ==
  ASSUME TypeOK
  PROVE  QueuedNumbers \in Seq(1..Len(found))
  BY DEF QueuedNumbers, TypeOK, QueueType

\* A sequence of candidate numbers stays one when more have been popped.
LEMMA SeqMonotone ==
  ASSUME NEW m \in Nat, NEW n \in Nat, m <= n, NEW q \in Seq(1..m)
  PROVE  q \in Seq(1..n)
  OBVIOUS

LEMMA InitTypeOK == Init => TypeOK
<1> SUFFICES ASSUME Init PROVE TypeOK
  OBVIOUS
<1> USE SeedAssumption, ModeAssumption DEF Init
<1>1. ProcType BY DEF ProcType
<1>2. MainType BY DEF MainType
<1>3. GpuType BY DEF GpuType
<1>4. QueueType BY DEF QueueType
<1>5. CpuType BY DEF CpuType
<1>6. ClientType BY DEF ClientType
<1>7. ServerType
  <2>1. server_pc \in {"start", "setup", "run", "done"} OBVIOUS
  <2>2. received \in 0..MaxRemote OBVIOUS
  <2>3. io_ctx \in BOOLEAN /\ io_stopped \in BOOLEAN BY Zenon
  <2> QED BY <2>1, <2>2, <2>3 DEF ServerType
<1> QED BY <1>1, <1>2, <1>3, <1>4, <1>5, <1>6, <1>7 DEF TypeOK

USE DEF procVars, mainVars, seedVars, gpuVars, queueVars, cpuVars, outVars,
        clientVars, serverVars

\* A part of the type invariant survives a step that leaves its variables.
LEMMA TypeFrame ==
  ASSUME TypeOK
  PROVE  /\ UNCHANGED procVars => ProcType'
         /\ UNCHANGED mainVars => MainType'
         /\ UNCHANGED <<seedVars, gpuVars>> => GpuType'
         /\ UNCHANGED queueVars => QueueType'
         /\ UNCHANGED <<cpuVars, outVars, popped>> => CpuType'
         /\ UNCHANGED <<clientVars, popped>> => ClientType'
         /\ UNCHANGED serverVars => ServerType'
<1>1. UNCHANGED procVars => ProcType'
  BY DEF TypeOK, ProcType
<1>2. UNCHANGED mainVars => MainType'
  BY DEF TypeOK, MainType
<1>3. UNCHANGED <<seedVars, gpuVars>> => GpuType'
  BY DEF TypeOK, GpuType
<1>4. UNCHANGED queueVars => QueueType'
  BY DEF TypeOK, QueueType
<1>5. UNCHANGED <<cpuVars, outVars, popped>> => CpuType'
  BY DEF TypeOK, CpuType
<1>6. UNCHANGED <<clientVars, popped>> => ClientType'
  BY DEF TypeOK, ClientType
<1>7. UNCHANGED serverVars => ServerType'
  BY DEF TypeOK, ServerType
<1> QED
  BY <1>1, <1>2, <1>3, <1>4, <1>5, <1>6, <1>7

LEMMA GpuTypeOK ==
  ASSUME TypeOK, NEW g \in Gpus, GpuStep(g)
  PROVE  TypeOK'
<1> USE SeedAssumption
<1>1. CASE GpuInit(g)
  <2>1. GpuType'
    BY <1>1 DEF GpuInit, TypeOK, GpuType
  <2> QED
    BY <1>1, <2>1, TypeFrame DEF GpuInit, TypeOK
<1>2. CASE GpuCheck(g)
  <2>1. /\ gpu_pc' \in [Gpus -> {"init", "check", "claim", "batch", "done"}]
        /\ \A h \in Gpus : gpu_pc'[h] = "batch" => gpu_pc[h] = "batch"
    BY <1>2 DEF GpuCheck, TypeOK, GpuType
  <2>2. GpuType'
    BY <1>2, <2>1 DEF GpuCheck, TypeOK, GpuType
  <2> QED
    BY <1>2, <2>2, TypeFrame DEF GpuCheck, TypeOK
<1>3. CASE GpuClaim(g)
  <2>1. GpuType'
    BY <1>3 DEF GpuClaim, TypeOK, GpuType, Seeds
  <2> QED
    BY <1>3, <2>1, TypeFrame DEF GpuClaim, TypeOK
<1>4. CASE GpuPush(g)
  <2>1. gpu_batch[g] \in 1..Len(batches) /\ batches[gpu_batch[g]] \in Seeds
    BY <1>4 DEF GpuPush, TypeOK, GpuType
  <2>2. GpuType'
    BY <1>4, <2>1 DEF GpuPush, TypeOK, GpuType
  <2>3. PICK q \in Orderings(BatchHits(batches[gpu_batch[g]])) :
               found' = found \o q
    BY <1>4 DEF GpuPush
  <2>4. q \in Seq(Candidate)
    BY <2>1, <2>3, OrderingsType
  <2>5. QueueType'
    BY <1>4, <2>3, <2>4 DEF GpuPush, TypeOK, QueueType
  <2> QED
    BY <1>4, <2>2, <2>5, TypeFrame DEF GpuPush, TypeOK
<1> QED
  BY <1>1, <1>2, <1>3, <1>4 DEF GpuStep

LEMMA CpuTypeOK ==
  ASSUME TypeOK, NEW c \in Cpus, CpuStep(c)
  PROVE  TypeOK'
<1>1. CASE CpuTake(c)
  <2>1. popped' \in 0..Len(found) /\ popped <= popped' /\ popped \in Nat
    BY <1>1 DEF CpuTake, QueueEmpty, TypeOK, QueueType
  <2>2. CpuType'
    <3>1. cpu_pc' \in [Cpus -> {"take", "process", "done"}]
      BY <1>1 DEF CpuTake, TypeOK, CpuType
    <3>2. cpu_input' \in [Cpus -> 0..popped']
      <4>1. cpu_input \in [Cpus -> 0..popped']
        BY <2>1 DEF TypeOK, CpuType
      <4>2. \/ cpu_input' = cpu_input
            \/ cpu_input' = [cpu_input EXCEPT ![c] = popped']
        BY <1>1, <2>1 DEF CpuTake, FrontNumber
      <4> QED
        BY <2>1, <4>1, <4>2
    <3>3. ASSUME NEW d \in Cpus, cpu_pc'[d] = "process"
          PROVE  cpu_input'[d] # 0
      BY <1>1, <2>1, <3>3 DEF CpuTake, FrontNumber, TypeOK, CpuType
    <3>4. cpu_outputs' \in Seq(1..popped') /\ file' \in Seq(1..popped')
      BY <1>1, <2>1, SeqMonotone DEF CpuTake, TypeOK, CpuType
    <3>5. examined' \subseteq 1..popped'
      BY <1>1, <2>1 DEF CpuTake, TypeOK, CpuType
    <3> QED
      BY <3>1, <3>2, <3>3, <3>4, <3>5 DEF CpuType
  <2>3. ClientType'
    BY <1>1, <2>1, SeqMonotone DEF CpuTake, TypeOK, ClientType
  <2>4. QueueType'
    BY <1>1, <2>1 DEF CpuTake, TypeOK, QueueType
  <2> QED
    BY <1>1, <2>2, <2>3, <2>4, TypeFrame DEF CpuTake, TypeOK
<1>2. CASE CpuProcess(c)
  <2>1. cpu_input[c] \in 1..popped
    BY <1>2 DEF CpuProcess, TypeOK, CpuType, QueueType
  <2>2. CpuType'
    <3>1. /\ cpu_pc' \in [Cpus -> {"take", "process", "done"}]
          /\ \A d \in Cpus : cpu_pc'[d] = "process" => cpu_pc[d] = "process"
      BY <1>2 DEF CpuProcess, TypeOK, CpuType
    <3> Append(cpu_outputs, cpu_input[c]) \in Seq(1..popped)
      BY <2>1 DEF TypeOK, CpuType
    <3>2. cpu_outputs' \in Seq(1..popped) /\ file' \in Seq(1..popped)
      BY <1>2 DEF CpuProcess, TypeOK, CpuType
    <3>3. examined' \subseteq 1..popped
      BY <1>2, <2>1 DEF CpuProcess, TypeOK, CpuType
    <3> QED
      BY <1>2, <3>1, <3>2, <3>3 DEF CpuProcess, TypeOK, CpuType
  <2> QED
    BY <1>2, <2>2, TypeFrame DEF CpuProcess, TypeOK
<1> QED
  BY <1>1, <1>2 DEF CpuStep

LEMMA ClientTypeOK ==
  ASSUME TypeOK, ClientStep
  PROVE  TypeOK'
<1>1. CASE ClientConnect \/ ClientCheck \/ ClientWrite
  <2> sent \o pending \in Seq(1..popped) /\ << >> \in Seq(1..popped)
    BY DEF TypeOK, ClientType
  <2>1. ClientType'
    BY <1>1 DEF ClientConnect, ClientCheck, ClientWrite, TypeOK, ClientType
  <2> QED
    BY <1>1, <2>1, TypeFrame DEF ClientConnect, ClientCheck, ClientWrite, TypeOK
<1>2. CASE ClientDrain
  <2>1. /\ popped' = Len(found) /\ found' = found /\ popped \in 0..Len(found)
        /\ popped \in Nat /\ Len(found) \in Nat
    BY <1>2 DEF ClientDrain, TypeOK, QueueType
  <2>2. ClientType'
    BY <1>2, <2>1, SeqMonotone, QueuedNumbersType
       DEF ClientDrain, TypeOK, ClientType
  <2>3. CpuType'
    <3>1. cpu_input' \in [Cpus -> 0..popped'] /\ examined' \subseteq 1..popped'
      BY <1>2, <2>1 DEF ClientDrain, TypeOK, CpuType
    <3>2. cpu_outputs' \in Seq(1..popped') /\ file' \in Seq(1..popped')
      BY <1>2, <2>1, SeqMonotone DEF ClientDrain, TypeOK, CpuType
    <3> QED
      BY <1>2, <3>1, <3>2 DEF ClientDrain, TypeOK, CpuType
  <2>4. QueueType'
    BY <2>1 DEF TypeOK, QueueType
  <2> QED
    BY <1>2, <2>2, <2>3, <2>4, TypeFrame DEF ClientDrain, TypeOK
<1> QED
  BY <1>1, <1>2 DEF ClientStep

LEMMA ServerTypeOK ==
  ASSUME TypeOK, ServerStep \/ ServerReceive
  PROVE  TypeOK'
<1>1. CASE ServerStep
  <2>1. ServerType'
    BY <1>1 DEF ServerStep, ServerPublish, ServerListen, ServerReturn, TypeOK,
                ServerType
  <2> QED
    BY <1>1, <2>1, TypeFrame
       DEF ServerStep, ServerPublish, ServerListen, ServerReturn, TypeOK
<1>2. CASE ServerReceive
  <2>1. QueueType'
    BY <1>2, DataAssumption DEF ServerReceive, TypeOK, QueueType
  <2>2. ServerType'
    BY <1>2, SeedAssumption DEF ServerReceive, TypeOK, ServerType
  <2> QED
    BY <1>2, <2>1, <2>2, TypeFrame DEF ServerReceive, TypeOK
<1> QED
  BY <1>1, <1>2

LEMMA MainTypeOK ==
  ASSUME TypeOK, status = "running", MainStep
  PROVE  TypeOK'
<1> USE ModeAssumption
<1>1. CASE MainCheck \/ MainJoinGpus \/ MainJoinCpus
  <2>1. MainType'
    BY <1>1 DEF MainCheck, MainJoinGpus, MainJoinCpus, TypeOK, MainType
  <2> QED
    BY <1>1, <2>1, TypeFrame DEF MainCheck, MainJoinGpus, MainJoinCpus, TypeOK
<1>2. CASE MainDrain \/ MainFlush
  <2>1. MainType'
    BY <1>2 DEF MainDrain, MainFlush, DrainTo, TypeOK, MainType
  <2>2. CpuType'
    <3>1. file \o cpu_outputs \in Seq(1..popped) /\ << >> \in Seq(1..popped)
      BY DEF TypeOK, CpuType
    <3> QED
      BY <1>2, <3>1 DEF MainDrain, MainFlush, DrainTo, TypeOK, CpuType
  <2> QED
    BY <1>2, <2>1, <2>2, TypeFrame DEF MainDrain, MainFlush, DrainTo, TypeOK
<1>3. CASE MainStopGpus \/ MainStopCpus
  <2>1. MainType'
    BY <1>3 DEF MainStopGpus, MainStopCpus, StopThreads, TypeOK, MainType
  <2> QED
    BY <1>3, <2>1, TypeFrame DEF MainStopGpus, MainStopCpus, StopThreads, TypeOK
<1>4. CASE MainStopClient
  <2>1. MainType'
    BY <1>4 DEF MainStopClient, TypeOK, MainType
  <2> QED
    BY <1>4, <2>1, TypeFrame DEF MainStopClient, TypeOK
<1>5. CASE MainShutdownServer
  <2>1. MainType'
    BY <1>5 DEF MainShutdownServer, TypeOK, MainType
  <2>2. ServerType'
    BY <1>5 DEF MainShutdownServer, TypeOK, ServerType
  <2> QED
    BY <1>5, <2>1, <2>2, TypeFrame DEF MainShutdownServer, TypeOK
<1>6. CASE MainReturn
  <2>1. MainType' /\ ProcType'
    BY <1>6 DEF MainReturn, TypeOK, MainType, ProcType
  <2> QED
    BY <1>6, <2>1, TypeFrame DEF MainReturn, TypeOK
<1> QED
  BY <1>1, <1>2, <1>3, <1>4, <1>5, <1>6 DEF MainStep

LEMMA ProcTypeOK ==
  ASSUME TypeOK, status = "running", signal_handler \/ Panic
  PROVE  TypeOK'
<1>1. CASE signal_handler
  <2>1. signal_count \in 0..1 /\ signal_count' = signal_count + 1
    BY <1>1 DEF signal_handler, TypeOK, ProcType
  <2>2. running' = FALSE
    BY <1>1 DEF signal_handler
  <2>3. status' = IF signal_count' >= 2 THEN "forced" ELSE "running"
    BY <1>1 DEF signal_handler
  <2>4. /\ status' \in {"running", "exited", "forced", "aborted"}
        /\ signal_count' \in 0..(IF status' = "forced" THEN 2 ELSE 1)
    BY <2>1, <2>3
  <2>5. running' \in BOOLEAN
    BY <2>2, Zenon
  <2>6. ProcType'
    BY <2>4, <2>5 DEF ProcType
  <2> QED
    BY <1>1, <2>6, TypeFrame DEF signal_handler, TypeOK
<1>2. CASE Panic
  <2>1. ProcType'
    BY <1>2 DEF Panic, TypeOK, ProcType
  <2> QED
    BY <1>2, <2>1, TypeFrame DEF Panic, TypeOK
<1> QED
  BY <1>1, <1>2

LEMMA StutterTypeOK ==
  ASSUME TypeOK, UNCHANGED vars
  PROVE  TypeOK'
  BY TypeFrame DEF vars, TypeOK

\* The type invariant, for any number of threads of each kind: in particular
\* a CpuThread only examines a candidate that was popped and a GpuThread
\* only a batch it has claimed from the SeedIterator.
THEOREM TypeCorrect == Spec => []TypeOK
<1>1. TypeOK /\ [Next]_vars => TypeOK'
  BY GpuTypeOK, CpuTypeOK, ClientTypeOK, ServerTypeOK, MainTypeOK, ProcTypeOK,
     StutterTypeOK DEF Next, Live
<1> QED
  BY InitTypeOK, <1>1, PTL DEF Spec

-----------------------------------------------------------------------------
(***************************************************************************)
(* Every popped candidate has one owner.                                   *)
(***************************************************************************)
\* Which threads exist, and when pending_data holds something.
ClientOrder ==
  /\ ~HasClient => client_pc = "done"
  /\ client_pc # "write" => pending = << >>

AccountVars == <<popped, cpuVars, clientVars>>

LEMMA AccountFrame ==
  ASSUME CandidatesAccounted, ClientOrder, UNCHANGED AccountVars
  PROVE  CandidatesAccounted' /\ ClientOrder'
  BY DEF CandidatesAccounted, ClientOrder, AccountVars, Busy, Held

LEMMA InitAccounted == Init => CandidatesAccounted /\ ClientOrder
<1> SUFFICES ASSUME Init PROVE CandidatesAccounted /\ ClientOrder
  OBVIOUS
<1>1. Busy = {} /\ Held = {}
  BY DEF Init, Busy, Held
<1>2. << >> \o << >> = [i \in 1..0 |-> i] /\ 1..0 = {}
  OBVIOUS
<1> QED
  BY <1>1, <1>2, ModeAssumption DEF Init, CandidatesAccounted, ClientOrder

LEMMA TakeAccounted ==
  ASSUME TypeOK, CandidatesAccounted, ClientOrder, NEW c \in Cpus, CpuTake(c)
  PROVE  CandidatesAccounted' /\ ClientOrder'
<1>1. ~HasClient
  BY ModeAssumption
<1>2. ClientOrder'
  BY DEF CpuTake, ClientOrder
<1>3. CASE popped' = popped
  <2>1. Busy' = Busy /\ \A d \in Busy : cpu_input'[d] = cpu_input[d]
    BY <1>3 DEF CpuTake, Busy, TypeOK, CpuType, QueueType
  <2>2. Held' = Held
    BY <2>1 DEF Held
  <2> QED
    BY <1>1, <1>2, <1>3, <2>1, <2>2 DEF CpuTake, CandidatesAccounted
<1>4. CASE popped' # popped
  <2>1. /\ cpu_pc[c] = "take" /\ popped' = popped + 1 /\ examined' = examined
        /\ cpu_input' = [cpu_input EXCEPT ![c] = popped + 1]
        /\ cpu_pc' = [cpu_pc EXCEPT ![c] = "process"]
    BY <1>4 DEF CpuTake, FrontNumber
  <2>2. c \notin Busy /\ Busy' = Busy \cup {c}
    BY <2>1 DEF Busy, TypeOK, CpuType
  <2>3. /\ cpu_input'[c] = popped + 1
        /\ \A d \in Busy : cpu_input'[d] = cpu_input[d] /\ cpu_input[d] \in 1..popped
    BY <2>1, <2>2 DEF Busy, TypeOK, CpuType, QueueType
  <2>4. Held' = Held \cup {popped + 1}
    BY <2>2, <2>3 DEF Held
  <2>5. popped \in Nat /\ popped + 1 \notin 1..popped
        /\ 1..(popped + 1) = 1..popped \cup {popped + 1}
    BY DEF TypeOK, QueueType
  <2>6. \A d, e \in Busy' : cpu_input'[d] = cpu_input'[e] => d = e
    BY <2>2, <2>3, <2>5 DEF CandidatesAccounted
  <2>7. examined' \cap Held' = {}
    BY <2>1, <2>4, <2>5 DEF CandidatesAccounted, TypeOK, CpuType
  <2>8. examined' \cup Held' = 1..popped'
    BY <1>1, <2>1, <2>4, <2>5 DEF CandidatesAccounted
  <2> QED
    BY <1>1, <1>2, <2>6, <2>7, <2>8 DEF CandidatesAccounted
<1> QED
  BY <1>3, <1>4

LEMMA ProcessAccounted ==
  ASSUME TypeOK, CandidatesAccounted, ClientOrder, NEW c \in Cpus, CpuProcess(c)
  PROVE  CandidatesAccounted' /\ ClientOrder'
<1>1. ~HasClient
  BY ModeAssumption
<1>2. ClientOrder'
  BY DEF CpuProcess, ClientOrder
<1>3. c \in Busy /\ Busy' = Busy \ {c} /\ cpu_input' = cpu_input
  BY DEF CpuProcess, Busy, TypeOK, CpuType
<1>4. Held' = Held \ {cpu_input[c]} /\ cpu_input[c] \in Held
  BY <1>3 DEF Held, CandidatesAccounted
<1>5. popped' = popped /\ examined' = examined \cup {cpu_input[c]}
  BY DEF CpuProcess
<1> QED
  BY <1>1, <1>2, <1>3, <1>4, <1>5 DEF CandidatesAccounted

LEMMA DrainAccounted ==
  ASSUME TypeOK, CandidatesAccounted, ClientOrder, ClientDrain
  PROVE  CandidatesAccounted' /\ ClientOrder'
<1> DEFINE n == Len(found)
<1>1. HasClient /\ pending = << >>
  BY DEF ClientDrain, ClientOrder
<1>2. Busy = {} /\ Busy' = {} /\ Held' = {} /\ HasClient = TRUE
  BY <1>1, ModeAssumption DEF Busy, Held
<1>3. n \in Nat /\ popped \in 0..n
  BY DEF TypeOK, QueueType
<1>4. /\ sent \in Seq(1..n) /\ QueuedNumbers \in Seq(1..n)
      /\ Len(QueuedNumbers) = n - popped
      /\ \A i \in 1..(n - popped) : QueuedNumbers[i] = popped + i
  BY <1>3, SeqMonotone, QueuedNumbersType
     DEF TypeOK, ClientType, QueuedNumbers
<1>5. sent = [i \in 1..popped |-> i]
  BY <1>1, <1>4, ConcatEmptySeq DEF CandidatesAccounted
<1>6. Len(sent) = popped
  BY <1>3, <1>5
<1>7. pending' = QueuedNumbers /\ popped' = n /\ sent' = sent
  BY <1>1, <1>4, ConcatEmptySeq DEF ClientDrain
<1>8. sent \o QueuedNumbers = [i \in 1..n |-> i]
  <2> HIDE DEF n
  <2> DEFINE whole == [i \in 1..n |-> i]
  <2>1. whole \in Seq(1..n) /\ Len(whole) = n
    BY <1>3
  <2>2. /\ sent \o QueuedNumbers \in Seq(1..n)
        /\ Len(sent \o QueuedNumbers) = n
    <3>1. /\ sent \o QueuedNumbers \in Seq(1..n)
          /\ Len(sent \o QueuedNumbers) = Len(sent) + Len(QueuedNumbers)
      BY <1>4, ConcatProperties
    <3>2. popped + (n - popped) = n
      BY <1>3
    <3> QED
      BY <1>4, <1>6, <3>1, <3>2
  <2>3. ASSUME NEW i \in 1..n PROVE (sent \o QueuedNumbers)[i] = i
    <3>1. (sent \o QueuedNumbers)[i] =
            IF i <= popped THEN sent[i] ELSE QueuedNumbers[i - popped]
      BY <1>3, <1>4, <1>6, ConcatProperties
    <3>2. CASE i <= popped
      BY <1>3, <1>5, <3>1, <3>2
    <3>3. CASE i > popped
      <4>1. i - popped \in 1..(n - popped) /\ popped + (i - popped) = i
        BY <1>3, <3>3
      <4> QED
        BY <1>3, <1>4, <3>1, <3>3, <4>1
    <3>4. i <= popped \/ i > popped
      BY <1>3
    <3> QED
      BY <3>2, <3>3, <3>4
  <2> QED
    BY <2>1, <2>2, <2>3, SeqEqual
<1>9. CandidatesAccounted'
  BY <1>1, <1>2, <1>7, <1>8 DEF CandidatesAccounted
<1>10. ClientOrder'
  BY <1>1 DEF ClientDrain, ClientOrder
<1> QED
  BY <1>9, <1>10

LEMMA ClientAccounted ==
  ASSUME TypeOK, CandidatesAccounted, ClientOrder, ClientStep
  PROVE  CandidatesAccounted' /\ ClientOrder'
<1>1. CASE ClientConnect \/ ClientCheck
  BY <1>1 DEF ClientConnect, ClientCheck, CandidatesAccounted, ClientOrder,
              Busy, Held
<1>2. CASE ClientDrain
  BY <1>2, DrainAccounted
<1>3. CASE ClientWrite
  <2>1. /\ sent \o pending \in Seq(1..popped)
        /\ (sent \o pending) \o << >> = sent \o pending
    BY ConcatProperties, ConcatEmptySeq DEF TypeOK, ClientType
  <2>2. CandidatesAccounted'
    BY <1>3, <2>1 DEF ClientWrite, CandidatesAccounted, Busy, Held
  <2> QED
    BY <1>3, <2>2 DEF ClientWrite, ClientOrder
<1> QED
  BY <1>1, <1>2, <1>3 DEF ClientStep

\* The threads that neither pop nor hold candidates.
LEMMA OthersAccounted ==
  ASSUME \/ \E g \in Gpus : GpuStep(g)
         \/ ServerStep \/ ServerReceive \/ MainStep
         \/ signal_handler \/ Panic \/ UNCHANGED vars
  PROVE  UNCHANGED AccountVars
<1>1. CASE \E g \in Gpus : GpuStep(g)
  BY <1>1 DEF GpuStep, GpuInit, GpuCheck, GpuClaim, GpuPush, AccountVars
<1>2. CASE ServerStep \/ ServerReceive
  BY <1>2 DEF ServerStep, ServerPublish, ServerListen, ServerReturn,
              ServerReceive, AccountVars
<1>3. CASE MainStep
  BY <1>3 DEF MainStep, MainCheck, MainDrain, MainStopGpus, MainStopCpus,
              MainStopClient, MainShutdownServer, MainJoinGpus, MainJoinCpus,
              MainFlush, MainReturn, DrainTo, StopThreads, AccountVars
<1>4. CASE signal_handler \/ Panic \/ UNCHANGED vars
  BY <1>4 DEF signal_handler, Panic, vars, AccountVars
<1> QED
  BY <1>1, <1>2, <1>3, <1>4

\* CandidatesAccounted together with the fact about the client it needs.
LEMMA AccountedWithOrder == Spec => [](CandidatesAccounted /\ ClientOrder)
<1> DEFINE Inv == CandidatesAccounted /\ ClientOrder
<1>1. TypeOK /\ Inv /\ [Next]_vars => Inv'
  <2> SUFFICES ASSUME TypeOK, Inv, [Next]_vars PROVE Inv'
    OBVIOUS
  <2>1. CASE \E c \in Cpus : CpuStep(c)
    BY <2>1, TakeAccounted, ProcessAccounted DEF CpuStep
  <2>2. CASE ClientStep
    BY <2>2, ClientAccounted
  <2>3. CASE \/ \E g \in Gpus : GpuStep(g)
             \/ ServerStep \/ ServerReceive \/ MainStep
             \/ signal_handler \/ Panic \/ UNCHANGED vars
    BY <2>3, OthersAccounted, AccountFrame
  <2> QED
    BY <2>1, <2>2, <2>3 DEF Next, Live
<1> QED
  BY InitAccounted, TypeCorrect, <1>1, PTL DEF Spec

\* No candidate popped from gpu_outputs is ever lost, duplicated or held by
\* two threads, however the CpuThreads, the client and the shutdown
\* interleave and whatever the number of threads.
THEOREM EveryPopAccounted == Spec => []CandidatesAccounted
  BY AccountedWithOrder, PTL

-----------------------------------------------------------------------------
(***************************************************************************)
(* Every accepted candidate is reported exactly once.                      *)
(***************************************************************************)
LEMMA ElementsAppend ==
  ASSUME NEW S, NEW q \in Seq(S), NEW x \in S
  PROVE  Elements(Append(q, x)) = Elements(q) \cup {x}
<1>1. /\ Len(q) \in Nat /\ Len(Append(q, x)) = Len(q) + 1
      /\ Append(q, x)[Len(q) + 1] = x
      /\ \A i \in 1..Len(q) : Append(q, x)[i] = q[i]
  OBVIOUS
<1>2. 1..(Len(q) + 1) = 1..Len(q) \cup {Len(q) + 1}
  BY <1>1
<1> QED
  BY <1>1, <1>2 DEF Elements

LEMMA ConcatAppend ==
  ASSUME NEW S, NEW p \in Seq(S), NEW q \in Seq(S), NEW x \in S
  PROVE  p \o Append(q, x) = Append(p \o q, x)
<1>1. Append(q, x) = q \o << x >> /\ << x >> \in Seq(S)
  OBVIOUS
<1>2. p \o q \in Seq(S) /\ Append(p \o q, x) = (p \o q) \o << x >>
  OBVIOUS
<1> QED
  BY <1>1, <1>2, ConcatAssociative

\* Pushing candidates does not renumber those already popped.
LEMMA FoundGrows ==
  ASSUME TypeOK, [Next]_vars, NEW n \in 1..popped
  PROVE  found'[n] = found[n]
<1>1. n \in 1..Len(found)
  BY DEF TypeOK, QueueType
<1>2. CASE \E g \in Gpus : GpuStep(g)
  <2>1. PICK g \in Gpus : GpuStep(g)
    BY <1>2
  <2>2. CASE GpuInit(g) \/ GpuCheck(g) \/ GpuClaim(g)
    BY <2>2 DEF GpuInit, GpuCheck, GpuClaim
  <2>3. CASE GpuPush(g)
    <3>1. batches[gpu_batch[g]] \in Seeds
      BY <2>3 DEF GpuPush, TypeOK, GpuType
    <3>2. PICK q \in Orderings(BatchHits(batches[gpu_batch[g]])) :
                 found' = found \o q
      BY <2>3 DEF GpuPush
    <3>3. q \in Seq(Candidate) /\ found \in Seq(Candidate)
      BY <3>1, <3>2, OrderingsType DEF TypeOK, QueueType
    <3> QED
      BY <1>1, <3>2, <3>3
  <2> QED
    BY <2>1, <2>2, <2>3 DEF GpuStep
<1>3. CASE ServerReceive
  BY <1>1, <1>3, DataAssumption DEF ServerReceive, TypeOK, QueueType
<1>4. CASE \E c \in Cpus : CpuStep(c)
  BY <1>4 DEF CpuStep, CpuTake, CpuProcess
<1>5. CASE ClientStep
  BY <1>5 DEF ClientStep, ClientConnect, ClientCheck, ClientDrain, ClientWrite
<1>6. CASE ServerStep
  BY <1>6 DEF ServerStep, ServerPublish, ServerListen, ServerReturn
<1>7. CASE MainStep
  BY <1>7 DEF MainStep, MainCheck, MainDrain, MainStopGpus, MainStopCpus,
              MainStopClient, MainShutdownServer, MainJoinGpus, MainJoinCpus,
              MainFlush, MainReturn, DrainTo, StopThreads
<1>8. CASE signal_handler \/ Panic \/ UNCHANGED vars
  BY <1>8 DEF signal_handler, Panic, vars
<1> QED
  BY <1>2, <1>3, <1>4, <1>5, <1>6, <1>7, <1>8 DEF Next, Live

LEMMA ReportsFrame ==
  ASSUME TypeOK, ReportsExactlyOnce, [Next]_vars,
         examined' = examined, file' \o cpu_outputs' = file \o cpu_outputs
  PROVE  ReportsExactlyOnce'
<1>1. Accepted(examined)' = Accepted(examined)
  <2>1. \A n \in examined : found'[n] = found[n]
    BY FoundGrows DEF TypeOK, CpuType
  <2> QED
    BY <2>1 DEF Accepted
<1>2. (file \o cpu_outputs)' = file \o cpu_outputs
  OBVIOUS
<1> QED
  BY <1>1, <1>2 DEF ReportsExactlyOnce, Elements

LEMMA ProcessReports ==
  ASSUME TypeOK, CandidatesAccounted, ReportsExactlyOnce,
         NEW c \in Cpus, CpuProcess(c)
  PROVE  ReportsExactlyOnce'
<1> DEFINE n == cpu_input[c]
           lines == file \o cpu_outputs
<1>1. n \in 1..popped /\ n \notin examined
  BY DEF CpuProcess, TypeOK, CpuType, QueueType, CandidatesAccounted, Busy,
         Held
<1>2. /\ file \in Seq(1..popped) /\ cpu_outputs \in Seq(1..popped)
      /\ lines \in Seq(1..popped)
  BY ConcatProperties DEF TypeOK, CpuType
<1>3. /\ examined' = examined \cup {n} /\ found' = found /\ file' = file
      /\ cpu_outputs' = IF process[found[n]] = NoOutput
                          THEN cpu_outputs ELSE Append(cpu_outputs, n)
  BY DEF CpuProcess
<1>4. CASE process[found[n]] = NoOutput
  <2>1. Accepted(examined)' = Accepted(examined)
    BY <1>3, <1>4 DEF Accepted
  <2>2. (file \o cpu_outputs)' = file \o cpu_outputs
    BY <1>3, <1>4
  <2> QED
    BY <2>1, <2>2 DEF ReportsExactlyOnce, Elements
<1>5. CASE process[found[n]] # NoOutput
  <2>1. Accepted(examined)' = Accepted(examined) \cup {n}
    BY <1>3, <1>5 DEF Accepted
  <2>2. (file \o cpu_outputs)' = Append(lines, n)
    BY <1>1, <1>2, <1>3, <1>5, ConcatAppend
  <2>3. Elements(Append(lines, n)) = Elements(lines) \cup {n}
    <3> HIDE DEF lines, n
    <3>1. PICK S, q, x : S = 1..popped /\ q = lines /\ x = n
      OBVIOUS
    <3>2. q \in Seq(S) /\ x \in S
      BY <3>1, <1>1, <1>2
    <3>3. Elements(Append(q, x)) = Elements(q) \cup {x}
      BY <3>2, ElementsAppend
    <3> QED
      BY <3>1, <3>3
  <2>4. n \notin Elements(lines)
    <3>1. Elements(lines) = Accepted(examined)
      BY DEF ReportsExactlyOnce
    <3> HIDE DEF lines, n
    <3>2. n \notin Accepted(examined)
      BY <1>1 DEF Accepted
    <3> QED
      BY <3>1, <3>2
  <2>5. ASSUME NEW i \in 1..(Len(lines) + 1), NEW j \in 1..(Len(lines) + 1),
               Append(lines, n)[i] = Append(lines, n)[j]
        PROVE  i = j
    <3> HIDE DEF lines, n
    <3>1. Len(lines) \in Nat
      BY <1>2
    <3>2. \A k \in 1..(Len(lines) + 1) :
             \/ k \in 1..Len(lines) /\ Append(lines, n)[k] = lines[k]
             \/ k = Len(lines) + 1 /\ Append(lines, n)[k] = n
      BY <1>2, <3>1
    <3>3. \A k \in 1..Len(lines) : lines[k] # n
      BY <2>4 DEF Elements
    <3>4. \A k, l \in 1..Len(lines) : lines[k] = lines[l] => k = l
      BY DEF ReportsExactlyOnce, lines
    <3> QED
      BY <2>5, <3>2, <3>3, <3>4
  <2>6. Len(Append(lines, n)) = Len(lines) + 1
    BY <1>1, <1>2
  <2>7. Elements(Append(lines, n)) = Accepted(examined)'
    BY <2>1, <2>3 DEF ReportsExactlyOnce
  <2> QED
    BY <2>2, <2>5, <2>6, <2>7 DEF ReportsExactlyOnce, Elements
<1> QED
  BY <1>4, <1>5

LEMMA DrainReports ==
  ASSUME TypeOK, NEW next, DrainTo(next)
  PROVE  examined' = examined /\ file' \o cpu_outputs' = file \o cpu_outputs
<1>1. file \o cpu_outputs \in Seq(1..popped)
  BY ConcatProperties DEF TypeOK, CpuType
<1> QED
  BY <1>1, ConcatEmptySeq DEF DrainTo

\* Whatever the interleaving of the CpuThreads' pushes with main's two drain
\* loops, each candidate process() accepted is in the output file or in
\* cpu_outputs exactly once, and nothing else is.
THEOREM ReportedExactlyOnce == Spec => []ReportsExactlyOnce
<1>1. Init => ReportsExactlyOnce
  BY DEF Init, ReportsExactlyOnce, Elements, Accepted
<1>2. TypeOK /\ CandidatesAccounted /\ ReportsExactlyOnce /\ [Next]_vars
        => ReportsExactlyOnce'
  <2> SUFFICES ASSUME TypeOK, CandidatesAccounted, ReportsExactlyOnce,
                      [Next]_vars
               PROVE  ReportsExactlyOnce'
    OBVIOUS
  <2>1. CASE \E c \in Cpus : CpuProcess(c)
    BY <2>1, ProcessReports
  <2>2. CASE MainDrain \/ MainFlush
    BY <2>2, DrainReports, ReportsFrame DEF MainDrain, MainFlush
  <2>3. CASE UNCHANGED <<examined, outVars>>
    BY <2>3, ReportsFrame
  <2>4. \/ \E c \in Cpus : CpuProcess(c)
        \/ MainDrain \/ MainFlush
        \/ UNCHANGED <<examined, outVars>>
    <3>1. CASE \E g \in Gpus : GpuStep(g)
      BY <3>1 DEF GpuStep, GpuInit, GpuCheck, GpuClaim, GpuPush
    <3>2. CASE \E c \in Cpus : CpuStep(c)
      BY <3>2 DEF CpuStep, CpuTake
    <3>3. CASE ClientStep \/ ServerStep \/ ServerReceive
      BY <3>3 DEF ClientStep, ClientConnect, ClientCheck, ClientDrain,
                  ClientWrite, ServerStep, ServerPublish, ServerListen,
                  ServerReturn, ServerReceive
    <3>4. CASE MainStep
      BY <3>4 DEF MainStep, MainCheck, MainStopGpus, MainStopCpus,
                  MainStopClient, MainShutdownServer, MainJoinGpus,
                  MainJoinCpus, MainReturn, StopThreads
    <3>5. CASE signal_handler \/ Panic \/ UNCHANGED vars
      BY <3>5 DEF signal_handler, Panic, vars
    <3> QED
      BY <3>1, <3>2, <3>3, <3>4, <3>5 DEF Next, Live
  <2> QED
    BY <2>1, <2>2, <2>3, <2>4
<1> QED
  BY <1>1, <1>2, TypeCorrect, EveryPopAccounted, PTL DEF Spec

-----------------------------------------------------------------------------
(***************************************************************************)
(* A clean exit leaves nothing behind that a thread had taken.             *)
(***************************************************************************)
\* What main has waited for by the time it reaches each step of shutdown.
ShutdownOrder ==
  /\ main_pc \in {"flush", "join_net", "done"} =>
       \A c \in Cpus : cpu_pc[c] = "done"
  /\ main_pc \in {"join_net", "done"} => cpu_outputs = << >>
  /\ main_pc = "done" => client_pc = "done"
  /\ status = "exited" => main_pc = "done"

LEMMA ShutdownOrderStep ==
  ASSUME TypeOK, ShutdownOrder, [Next]_vars
  PROVE  ShutdownOrder'
<1>1. CASE status = "running" /\ \E g \in Gpus : GpuStep(g)
  BY <1>1 DEF GpuStep, GpuInit, GpuCheck, GpuClaim, GpuPush, ShutdownOrder
<1>2. CASE status = "running" /\ \E c \in Cpus : CpuStep(c)
  <2>1. PICK c \in Cpus : CpuStep(c)
    BY <1>2
  <2>2. cpu_pc[c] # "done"
    BY <2>1 DEF CpuStep, CpuTake, CpuProcess
  <2>3. main_pc \notin {"flush", "join_net", "done"}
    BY <2>2 DEF ShutdownOrder
  <2> QED
    BY <2>1, <2>3 DEF CpuStep, CpuTake, CpuProcess, ShutdownOrder
<1>3. CASE status = "running" /\ ClientStep
  BY <1>3 DEF ClientStep, ClientConnect, ClientCheck, ClientDrain, ClientWrite,
              ShutdownOrder
<1>4. CASE status = "running" /\ (ServerStep \/ ServerReceive)
  BY <1>4 DEF ServerStep, ServerPublish, ServerListen, ServerReturn,
              ServerReceive, ShutdownOrder
<1>5. CASE status = "running" /\ MainStep
  <2>1. CASE MainCheck \/ MainDrain \/ MainStopGpus \/ MainStopCpus
    BY <1>5, <2>1 DEF MainCheck, MainDrain, DrainTo, MainStopGpus,
                      MainStopCpus, StopThreads, ShutdownOrder
  <2>2. CASE MainStopClient \/ MainShutdownServer \/ MainJoinGpus \/ MainJoinCpus
    BY <1>5, <2>2 DEF MainStopClient, MainShutdownServer, MainJoinGpus,
                      MainJoinCpus, ShutdownOrder
  <2>3. CASE MainFlush \/ MainReturn
    BY <1>5, <2>3 DEF MainFlush, DrainTo, MainReturn, ShutdownOrder
  <2> QED
    BY <1>5, <2>1, <2>2, <2>3 DEF MainStep
<1>6. CASE status = "running" /\ (signal_handler \/ Panic)
  BY <1>6 DEF signal_handler, Panic, ShutdownOrder
<1>7. CASE UNCHANGED vars
  BY <1>7 DEF vars, ShutdownOrder
<1> QED
  BY <1>1, <1>2, <1>3, <1>4, <1>5, <1>6, <1>7 DEF Next, Live

LEMMA CleanExit ==
  ASSUME TypeOK, CandidatesAccounted, ClientOrder, ReportsExactlyOnce,
         ShutdownOrder
  PROVE  ExitKeepsTakenWork
<1> SUFFICES ASSUME status = "exited"
             PROVE  IF HasClient THEN sent = [i \in 1..popped |-> i]
                                 ELSE Elements(file) = Accepted(1..popped)
  BY DEF ExitKeepsTakenWork
<1>1. main_pc = "done" /\ client_pc = "done" /\ cpu_outputs = << >>
      /\ \A c \in Cpus : cpu_pc[c] = "done"
  BY DEF ShutdownOrder
<1>2. CASE HasClient
  <2>1. pending = << >> /\ sent \in Seq(1..popped)
    BY <1>1 DEF ClientOrder, TypeOK, ClientType
  <2>2. sent \o pending = sent
    BY <2>1, ConcatEmptySeq
  <2> QED
    BY <1>2, <2>2 DEF CandidatesAccounted
<1>3. CASE ~HasClient
  <2>1. Busy = {} /\ Held = {}
    BY <1>1 DEF Busy, Held
  <2>2. examined = 1..popped
    BY <1>3, <2>1 DEF CandidatesAccounted
  <2>3. file \o cpu_outputs = file
    BY <1>1, ConcatEmptySeq DEF TypeOK, CpuType
  <2> QED
    BY <1>3, <2>2, <2>3 DEF ReportsExactlyOnce
<1> QED
  BY <1>2, <1>3

\* When main_inner returns, every accepted candidate that was popped is in
\* the output file, and a client has sent everything it popped: the joins
\* and the last drain are in an order that loses nothing already taken.
THEOREM ExitIsClean == Spec => []ExitKeepsTakenWork
<1>1. Init => ShutdownOrder
  BY DEF Init, ShutdownOrder
<1> QED
  BY <1>1, ShutdownOrderStep, CleanExit, TypeCorrect, AccountedWithOrder,
     ReportedExactlyOnce, PTL DEF Spec

-----------------------------------------------------------------------------
(***************************************************************************)
(* Arithmetic modulo the size of the seed space.                           *)
(***************************************************************************)
\* Quotient and remainder.
LEMMA DivMod ==
  ASSUME NEW x \in Int, NEW N \in Nat \ {0}
  PROVE  /\ x \div N \in Int
         /\ x % N \in 0..(N - 1)
         /\ x = N * (x \div N) + (x % N)
  BY Z3

\* The only multiple of N strictly between -N and N is zero.
LEMMA Multiple ==
  ASSUME NEW N \in Nat \ {0}, NEW k \in Int, -N < N * k, N * k < N
  PROVE  k = 0
<1>1. k \in Int /\ (k >= 1 \/ k <= -1 \/ k = 0) OBVIOUS
<1>2. CASE k >= 1
  <2>1. N * k >= N BY <1>2
  <2> QED BY <2>1
<1>3. CASE k <= -1
  <2>1. N * k <= -N BY <1>3
  <2> QED BY <2>1
<1> QED BY <1>1, <1>2, <1>3

\* The remainder is determined by x = N * q + r.
LEMMA ModUnique ==
  ASSUME NEW N \in Nat \ {0}, NEW x \in Int, NEW q \in Int, NEW r \in 0..(N - 1),
         x = N * q + r
  PROVE  x % N = r
<1> DEFINE p == x \div N
           s == x % N
<1>1. p \in Int /\ s \in 0..(N - 1) /\ x = N * p + s
  BY DivMod
<1> HIDE DEF p, s
<1>2. N * (p - q) = r - s
  BY <1>1
<1>3. -N < N * (p - q) /\ N * (p - q) < N
  BY <1>1, <1>2
<1>4. p - q = 0
  BY <1>1, <1>3, Multiple
<1>5. s = r
  BY <1>1, <1>2, <1>4
<1> QED BY <1>5 DEF s

\* Adding a multiple of N keeps the remainder.
LEMMA ModShift ==
  ASSUME NEW N \in Nat \ {0}, NEW x \in Int, NEW y \in Int, NEW k \in Int,
         y = x + N * k
  PROVE  y % N = x % N
<1> DEFINE q == x \div N
           r == x % N
<1>1. q \in Int /\ r \in 0..(N - 1) /\ x = N * q + r
  BY DivMod
<1> HIDE DEF q, r
<1>2. q + k \in Int /\ y = N * (q + k) + r
  BY <1>1
<1>3. y % N = r
  BY <1>1, <1>2, ModUnique
<1> QED BY <1>3 DEF r

\* Wrapping before an addition or after it gives the same.
LEMMA ModAdd ==
  ASSUME NEW N \in Nat \ {0}, NEW x \in Int, NEW y \in Int
  PROVE  ((x % N) + y) % N = (x + y) % N
<1> DEFINE q == x \div N
           r == x % N
<1>1. q \in Int /\ r \in 0..(N - 1) /\ x = N * q + r
  BY DivMod
<1> HIDE DEF q, r
<1>2. x + y \in Int /\ r + y \in Int /\ x + y = (r + y) + N * q
  BY <1>1
<1>3. (x + y) % N = (r + y) % N
  BY <1>1, <1>2, ModShift
<1> QED BY <1>3 DEF r

\* Two numbers less than N apart do not wrap to the same one.
LEMMA ModDistinct ==
  ASSUME NEW N \in Nat \ {0}, NEW x \in Int, NEW y \in Int, x < y, y - x < N
  PROVE  x % N # y % N
<1> SUFFICES ASSUME x % N = y % N PROVE FALSE OBVIOUS
<1> DEFINE p == x \div N
           q == y \div N
           r == x % N
<1>1. p \in Int /\ q \in Int /\ x = N * p + r /\ y = N * q + r /\ r \in Int
  BY DivMod
<1> HIDE DEF p, q, r
<1>2. N * (q - p) = y - x
  BY <1>1
<1>3. q - p = 0
  BY <1>1, <1>2, Multiple
<1> QED BY <1>1, <1>2, <1>3

-----------------------------------------------------------------------------
(***************************************************************************)
(* The seeds the GPU threads claim.                                        *)
(***************************************************************************)
\* Where the n-th batch starts, if batches follow each other without gap.
BatchStart(n) == (StartSeed + (n - 1) * BatchSize) % SeedSpace
AtWork == {g \in Gpus : gpu_pc[g] = "batch"}

SeedOrder ==
  /\ pos = BatchStart(Len(batches) + 1)
  /\ \A i \in 1..Len(batches) : batches[i] = BatchStart(i)
  /\ completed \cup {gpu_batch[g] : g \in AtWork} = 1..Len(batches)
  /\ main_pc \in {"join_cpus", "flush", "join_net", "done"} =>
       \A g \in Gpus : gpu_pc[g] = "done"

LEMMA BatchStartNext ==
  ASSUME NEW n \in Nat
  PROVE  (BatchStart(n) + BatchSize) % SeedSpace = BatchStart(n + 1)
<1> DEFINE x == StartSeed + (n - 1) * BatchSize
<1>1. /\ SeedSpace \in Nat \ {0} /\ BatchSize \in Int /\ x \in Int
      /\ x + BatchSize = StartSeed + ((n + 1) - 1) * BatchSize
  BY SeedAssumption DEF Seeds
<1> HIDE DEF x
<1>2. ((x % SeedSpace) + BatchSize) % SeedSpace = (x + BatchSize) % SeedSpace
  BY <1>1, ModAdd
<1> QED
  BY <1>1, <1>2 DEF BatchStart, x

LEMMA InitSeedOrder == Init => SeedOrder
<1> SUFFICES ASSUME Init PROVE SeedOrder
  OBVIOUS
<1>1. BatchStart(1) = StartSeed
  BY SeedAssumption DEF BatchStart, Seeds
<1>2. AtWork = {}
  BY DEF Init, AtWork
<1> QED
  BY <1>1, <1>2 DEF Init, SeedOrder

LEMMA GpuSeedOrder ==
  ASSUME TypeOK, SeedOrder, NEW g \in Gpus, GpuStep(g)
  PROVE  SeedOrder'
<1>1. main_pc' = main_pc /\ main_pc \notin {"join_cpus", "flush", "join_net", "done"}
  BY DEF GpuStep, GpuInit, GpuCheck, GpuClaim, GpuPush, SeedOrder
<1>2. CASE GpuInit(g) \/ GpuCheck(g)
  <2>1. AtWork' = AtWork
    BY <1>2 DEF GpuInit, GpuCheck, AtWork, TypeOK, GpuType
  <2> QED
    BY <1>1, <1>2, <2>1 DEF GpuInit, GpuCheck, SeedOrder, BatchStart
<1>3. CASE GpuClaim(g)
  <2> DEFINE n == Len(batches)
  <2>1. /\ n \in Nat /\ Len(batches') = n + 1 /\ batches'[n + 1] = pos
        /\ \A i \in 1..n : batches'[i] = batches[i]
        /\ 1..(n + 1) = 1..n \cup {n + 1}
    BY <1>3 DEF GpuClaim, TypeOK, GpuType
  <2>2. pos' = BatchStart(n + 2)
    <3>1. (BatchStart(n + 1) + BatchSize) % SeedSpace = BatchStart((n + 1) + 1)
      BY <2>1, BatchStartNext
    <3>2. (n + 1) + 1 = n + 2
      BY <2>1
    <3> QED
      BY <1>3, <3>1, <3>2 DEF GpuClaim, SeedOrder
  <2>3. \A i \in 1..Len(batches') : batches'[i] = BatchStart(i)
    BY <2>1 DEF SeedOrder
  <2>4. g \notin AtWork /\ AtWork' = AtWork \cup {g}
    BY <1>3 DEF GpuClaim, AtWork, TypeOK, GpuType
  <2>5. gpu_batch'[g] = n + 1 /\ \A h \in AtWork : gpu_batch'[h] = gpu_batch[h]
    BY <1>3, <2>4 DEF GpuClaim, TypeOK, GpuType, AtWork
  <2>6. {gpu_batch'[h] : h \in AtWork'} = {gpu_batch[h] : h \in AtWork} \cup {n + 1}
    BY <2>4, <2>5
  <2>7. completed' \cup {gpu_batch'[h] : h \in AtWork'} = 1..Len(batches')
    BY <1>3, <2>1, <2>6 DEF GpuClaim, SeedOrder
  <2>8. Len(batches') + 1 = n + 2
    BY <2>1
  <2> QED
    BY <1>1, <2>2, <2>3, <2>7, <2>8 DEF SeedOrder, BatchStart
<1>4. CASE GpuPush(g)
  <2>1. g \in AtWork /\ AtWork' = AtWork \ {g}
    BY <1>4 DEF GpuPush, AtWork, TypeOK, GpuType
  <2>2. completed' \cup {gpu_batch'[h] : h \in AtWork'} = 1..Len(batches')
    BY <1>4, <2>1 DEF GpuPush, SeedOrder
  <2> QED
    BY <1>1, <1>4, <2>2 DEF GpuPush, SeedOrder, BatchStart
<1> QED
  BY <1>2, <1>3, <1>4 DEF GpuStep

LEMMA SeedOrderStep ==
  ASSUME TypeOK, SeedOrder, [Next]_vars
  PROVE  SeedOrder'
<1>1. CASE \E g \in Gpus : GpuStep(g)
  BY <1>1, GpuSeedOrder
<1>2. CASE MainStep
  <2>1. UNCHANGED <<seedVars, gpuVars>>
    BY <1>2 DEF MainStep, MainCheck, MainDrain, MainStopGpus, MainStopCpus,
                MainStopClient, MainShutdownServer, MainJoinGpus, MainJoinCpus,
                MainFlush, MainReturn, DrainTo, StopThreads
  <2>2. main_pc' \in {"join_cpus", "flush", "join_net", "done"} =>
          \A g \in Gpus : gpu_pc[g] = "done"
    BY <1>2 DEF MainStep, MainCheck, MainDrain, MainStopGpus, MainStopCpus,
                MainStopClient, MainShutdownServer, MainJoinGpus, MainJoinCpus,
                MainFlush, MainReturn, DrainTo, StopThreads, SeedOrder
  <2> QED
    BY <2>1, <2>2 DEF SeedOrder, AtWork, BatchStart
<1>3. CASE UNCHANGED <<seedVars, gpuVars, main_pc>>
  BY <1>3 DEF SeedOrder, AtWork, BatchStart
<1>4. CASE (\E c \in Cpus : CpuStep(c)) \/ ClientStep \/ ServerStep \/ ServerReceive
  BY <1>3, <1>4 DEF CpuStep, CpuTake, CpuProcess, ClientStep, ClientConnect,
                    ClientCheck, ClientDrain, ClientWrite, ServerStep,
                    ServerPublish, ServerListen, ServerReturn, ServerReceive
<1>5. CASE signal_handler \/ Panic \/ UNCHANGED vars
  BY <1>3, <1>5 DEF signal_handler, Panic, vars
<1> QED
  BY <1>1, <1>2, <1>4, <1>5 DEF Next, Live

LEMMA SeedOrderInvariant == Spec => [](TypeOK /\ SeedOrder)
  BY InitSeedOrder, SeedOrderStep, TypeCorrect, PTL DEF Spec

\* Once main has joined the GPU threads, "Total seeds checked" is the number
\* of seeds in the batches claimed, modulo 2^64, and each of them has been
\* through the whole pipeline.
THEOREM TotalIsCompleted == Spec => []TotalSeedsCompleted
<1>1. TypeOK /\ SeedOrder => TotalSeedsCompleted
  <2> SUFFICES ASSUME TypeOK, SeedOrder,
                      main_pc \in {"join_cpus", "flush", "join_net", "done"}
               PROVE  /\ completed = 1..Len(batches)
                      /\ (pos - StartSeed) % SeedSpace
                           = (Len(batches) * BatchSize) % SeedSpace
    BY DEF TotalSeedsCompleted
  <2>1. AtWork = {}
    BY DEF SeedOrder, AtWork
  <2>2. completed = 1..Len(batches)
    BY <2>1 DEF SeedOrder
  <2> DEFINE t == Len(batches) * BatchSize
             x == StartSeed + t
  <2>3. /\ t \in Int /\ x \in Int /\ StartSeed \in Int /\ SeedSpace \in Nat \ {0}
        /\ x = StartSeed + ((Len(batches) + 1) - 1) * BatchSize
    BY SeedAssumption DEF TypeOK, GpuType, Seeds
  <2>4. pos = x % SeedSpace
    BY <2>3 DEF SeedOrder, BatchStart
  <2>5. x + (-StartSeed) = t /\ pos \in Int /\ pos - StartSeed = pos + (-StartSeed)
    BY <2>3 DEF TypeOK, GpuType, Seeds
  <2> HIDE DEF t, x
  <2> DEFINE m == -StartSeed
  <2>6. ((x % SeedSpace) + m) % SeedSpace = (x + m) % SeedSpace
    <3>1. m \in Int
      BY <2>3
    <3> HIDE DEF m
    <3> QED
      BY <2>3, <3>1, ModAdd
  <2>7. (pos - StartSeed) % SeedSpace = t % SeedSpace
    BY <2>4, <2>5, <2>6
  <2> QED
    BY <2>2, <2>7 DEF t
<1> QED
  BY <1>1, SeedOrderInvariant, PTL

\* No two batches overlap until the whole seed space has been claimed, for
\* any number of GPU threads racing on the SeedIterator and wherever its
\* 64-bit position wraps.
THEOREM ClaimedOnce == Spec => []SeedsClaimedOnce
<1>1. TypeOK /\ SeedOrder => SeedsClaimedOnce
  <2> SUFFICES ASSUME TypeOK, SeedOrder,
                      NEW i \in 1..Len(batches), NEW j \in 1..Len(batches),
                      i < j, j * BatchSize <= SeedSpace,
                      NEW s \in BatchSeeds(batches[i]),
                      s \in BatchSeeds(batches[j])
               PROVE  FALSE
    BY DEF SeedsClaimedOnce
  <2>1. PICK a \in 0..(BatchSize - 1) :
               s = (BatchStart(i) + a) % SeedSpace
    BY DEF BatchSeeds, SeedOrder
  <2>2. PICK b \in 0..(BatchSize - 1) :
               s = (BatchStart(j) + b) % SeedSpace
    BY DEF BatchSeeds, SeedOrder
  <2> DEFINE x == StartSeed + (i - 1) * BatchSize
             y == StartSeed + (j - 1) * BatchSize
  <2>3. /\ SeedSpace \in Nat \ {0} /\ BatchSize \in Nat /\ StartSeed \in Nat
        /\ i \in Nat /\ j \in Nat /\ i >= 1 /\ a \in Nat /\ b \in Nat
        /\ a <= BatchSize - 1 /\ b <= BatchSize - 1
    BY SeedAssumption, <2>1, <2>2 DEF TypeOK, GpuType, Seeds
  <2>4. x \in Int /\ y \in Int
    BY <2>3
  <2>5. (j - i) * BatchSize >= BatchSize /\ (i - 1) * BatchSize >= 0
    BY <2>3
  <2>6. y - x = (j - i) * BatchSize
    BY <2>3
  <2>7. y - x = j * BatchSize - BatchSize - (i - 1) * BatchSize
    BY <2>3
  <2>8. (j - i) * BatchSize \in Int /\ (i - 1) * BatchSize \in Int /\ j * BatchSize \in Int
    BY <2>3
  <2> HIDE DEF x, y
  <2>9. x + a < y + b /\ (y + b) - (x + a) < SeedSpace /\ x + a \in Int /\ y + b \in Int
    BY <2>3, <2>4, <2>5, <2>6, <2>7, <2>8
  <2>10. /\ ((x % SeedSpace) + a) % SeedSpace = (x + a) % SeedSpace
         /\ ((y % SeedSpace) + b) % SeedSpace = (y + b) % SeedSpace
    <3>1. a \in Int /\ b \in Int
      BY <2>3
    <3> QED
      BY <2>3, <2>4, <3>1, ModAdd
  <2>11. BatchStart(i) = x % SeedSpace /\ BatchStart(j) = y % SeedSpace
    BY DEF BatchStart, x, y
  <2>12. (x + a) % SeedSpace = (y + b) % SeedSpace
    BY <2>1, <2>2, <2>10, <2>11
  <2> QED
    BY <2>3, <2>9, <2>12, ModDistinct
<1> QED
  BY <1>1, SeedOrderInvariant, PTL

-----------------------------------------------------------------------------
(***************************************************************************)
(* Where ModeAssumption comes from: Args, for any words of a command line  *)
(* and whatever they spell.                                                *)
(***************************************************************************)
CONSTANTS
  Words, ListOf, NumberOf, Addresses, Bad,  \* as in Args
  MaxOptions

VARIABLES
  build, line_pc, arg, devices, opts, given  \* those of Args; line_pc is its pc

Line == INSTANCE Args WITH pc <- line_pc

\* What --threads accepts.
ThreadNumbers == 1..1024

\* What was read is in its place: an option that takes a value is read once, and
\* the value that was given is the one that is kept.
Kept ==
  /\ devices \in Seq(Int)
  /\ given \in Seq(Line!Options \X Words)
  /\ DOMAIN opts \subseteq Line!Options
  /\ \A k \in 1..Len(given) :
       given[k][1] # "--device" =>
         given[k][1] \in DOMAIN opts /\ opts[given[k][1]] = given[k][2]
  /\ "--threads" \in DOMAIN opts => NumberOf[opts["--threads"]] \in ThreadNumbers

\* The devices of a list that was read are among the devices.
Listed ==
  \A k \in 1..Len(given) :
    given[k][1] = "--device" =>
      \A n \in DOMAIN ListOf[given[k][2]] :
        \E d \in DOMAIN devices : devices[d] = ListOf[given[k][2]][n]

\* The option whose argument is read next has no value yet.
Reading ==
  line_pc = "argument" =>
    arg \in Line!Options /\ (arg # "--device" => arg \notin DOMAIN opts)

\* What CheckOptions leaves.
Checked ==
  line_pc \in {"start", "run"} =>
    /\ devices # << >> \/ Line!Has("--server")
    /\ ~(Line!Has("--threads") /\ Line!Has("--client"))
    /\ ~(Line!Has("--output") /\ Line!Has("--client"))
    /\ Line!Has("--start") => devices # << >>
    /\ ~(Line!Has("--size") /\ ~Line!Has("--threads") /\ Line!Has("--client"))

LineInv == Kept /\ Listed /\ Reading /\ Checked /\ Line!DevicesDistinct

\* A sequence of pairs with one more pair.
LEMMA OneMore ==
  ASSUME NEW S, NEW s \in Seq(S), NEW e \in S
  PROVE  /\ Append(s, e) \in Seq(S) /\ Len(Append(s, e)) = Len(s) + 1
         /\ Append(s, e)[Len(s) + 1] = e
         /\ \A k \in 1..Len(s) : Append(s, e)[k] = s[k]
  OBVIOUS

\* Two lists in one.
LEMMA Joined ==
  ASSUME NEW s \in Seq(Int), NEW t \in Seq(Int)
  PROVE  /\ \A d \in DOMAIN s : d \in DOMAIN (s \o t) /\ (s \o t)[d] = s[d]
         /\ \A n \in DOMAIN t : Len(s) + n \in DOMAIN (s \o t) /\ (s \o t)[Len(s) + n] = t[n]
<1>1. /\ DOMAIN s = 1..Len(s) /\ DOMAIN t = 1..Len(t) /\ Len(s) \in Nat /\ Len(t) \in Nat
      /\ s \o t \in Seq(Int)
  OBVIOUS
<1>2. Len(s \o t) = Len(s) + Len(t) /\ DOMAIN (s \o t) = 1..(Len(s) + Len(t))
  BY <1>1
<1>3. ASSUME NEW d \in 1..Len(s) PROVE (s \o t)[d] = s[d]
  BY <1>1, <1>3
<1>4. ASSUME NEW n \in 1..Len(t) PROVE (s \o t)[Len(s) + n] = t[n]
  <2>1. Len(s) + n \in 1..(Len(s) + Len(t)) /\ Len(s) + n > Len(s) BY <1>1
  <2>2. (s \o t)[Len(s) + n] = t[(Len(s) + n) - Len(s)] BY <1>1, <2>1
  <2> QED BY <1>1, <2>2
<1> QED BY <1>1, <1>2, <1>3, <1>4

LEMMA LineInit == Line!Init => LineInv
<1> SUFFICES ASSUME Line!Init PROVE LineInv OBVIOUS
<1>1. given = << >> /\ opts = << >> /\ devices = << >> /\ line_pc = "option" BY DEF Line!Init
<1>2. DOMAIN opts = {} BY <1>1
<1>3. Kept /\ Listed BY <1>1, <1>2 DEF Kept, Listed
<1>4. Line!DevicesDistinct BY <1>1 DEF Line!DevicesDistinct, Line!IsInjective
<1> QED BY <1>1, <1>3, <1>4 DEF LineInv, Reading, Checked

\* A word that is taken for an option.
LEMMA LineOption ==
  ASSUME LineInv, NEW w \in Words, Line!ReadOption(w)
  PROVE  LineInv'
<1>1. UNCHANGED <<devices, opts, given>> BY DEF Line!ReadOption
<1>2. Kept' /\ Listed' /\ Line!DevicesDistinct'
  BY <1>1 DEF LineInv, Kept, Listed, Line!DevicesDistinct, Line!IsInjective
<1>3. Reading' BY <1>1 DEF Reading, Line!ReadOption, Line!Duplicate, Line!Has
<1>4. Checked' BY DEF Checked, Line!ReadOption
<1> QED BY <1>2, <1>3, <1>4 DEF LineInv

\* A list of devices: one that repeats a device is refused.
LEMMA LineDevices ==
  ASSUME Line!WordAssumption, LineInv, NEW w \in Words, Line!ReadDevices(w)
  PROVE  LineInv'
<1>1. UNCHANGED <<arg, opts>> /\ arg = "--device" /\ line_pc' \in {"exit", "option"}
  BY DEF Line!ReadDevices
<1>2. Reading' /\ Checked' BY <1>1 DEF Reading, Checked
<1>3. CASE Line!BadList(ListOf[w])
  <2>1. UNCHANGED <<devices, given, opts>> BY <1>3 DEF Line!ReadDevices
  <2> QED BY <1>2, <2>1 DEF LineInv, Kept, Listed, Line!DevicesDistinct, Line!IsInjective
<1>4. CASE ~Line!BadList(ListOf[w])
  <2>1. devices' = devices \o ListOf[w] /\ given' = Append(given, <<"--device", w>>)
    BY <1>1, <1>4 DEF Line!ReadDevices
  <2>2. Line!IsInjective(devices') BY <1>4, <2>1 DEF Line!BadList
  <2>3. <<"--device", w>> \in Line!Options \X Words BY DEF Line!Options
  <2>4. given \in Seq(Line!Options \X Words) BY DEF LineInv, Kept
  <2>5. /\ given' \in Seq(Line!Options \X Words) /\ Len(given') = Len(given) + 1
        /\ given'[Len(given) + 1] = <<"--device", w>>
        /\ \A k \in 1..Len(given) : given'[k] = given[k]
    BY <2>1, <2>3, <2>4, OneMore
  <2>6. ASSUME NEW k \in 1..Len(given'), given'[k][1] # "--device"
        PROVE  given'[k][1] \in DOMAIN opts /\ opts[given'[k][1]] = given'[k][2]
    <3>1. k # Len(given) + 1 BY <2>5, <2>6
    <3>2. k \in 1..Len(given) BY <2>4, <2>5, <3>1
    <3> QED BY <2>5, <2>6, <3>2 DEF LineInv, Kept
  <2>7. devices' \in Seq(Int)
    <3>1. ListOf[w] \in Seq(Int) BY <1>4 DEF Line!WordAssumption, Line!BadList
    <3>2. devices \in Seq(Int) BY DEF LineInv, Kept
    <3> QED BY <2>1, <3>1, <3>2
  <2>8. Kept' BY <1>1, <2>5, <2>6, <2>7 DEF LineInv, Kept
  <2>9. /\ devices \in Seq(Int) /\ ListOf[w] \in Seq(Int)
    BY <1>4 DEF LineInv, Kept, Line!WordAssumption, Line!BadList
  <2>10. /\ \A d \in DOMAIN devices : d \in DOMAIN devices' /\ devices'[d] = devices[d]
         /\ \A n \in DOMAIN ListOf[w] :
              Len(devices) + n \in DOMAIN devices' /\ devices'[Len(devices) + n] = ListOf[w][n]
    BY <2>1, <2>9, Joined
  <2>11. Listed'
    <3> SUFFICES ASSUME NEW k \in 1..Len(given'), given'[k][1] = "--device",
                        NEW n \in DOMAIN ListOf[given'[k][2]]
                 PROVE  \E d \in DOMAIN devices' : devices'[d] = ListOf[given'[k][2]][n]
      BY DEF Listed
    <3>1. CASE k = Len(given) + 1
      <4>1. given'[k][2] = w BY <2>5, <3>1
      <4> QED BY <2>10, <4>1
    <3>2. CASE k # Len(given) + 1
      <4>1. k \in 1..Len(given) BY <2>4, <2>5, <3>2
      <4>2. given'[k] = given[k] BY <2>5, <4>1
      <4>3. \E d \in DOMAIN devices : devices[d] = ListOf[given[k][2]][n]
        BY <4>1, <4>2 DEF LineInv, Listed
      <4> QED BY <2>10, <4>2, <4>3
    <3> QED BY <3>1, <3>2
  <2> QED BY <1>2, <2>2, <2>8, <2>11 DEF LineInv, Line!DevicesDistinct
<1> QED BY <1>3, <1>4

\* Any other argument.
LEMMA LineArgument ==
  ASSUME LineInv, NEW w \in Words, Line!ReadArgument(w)
  PROVE  LineInv'
<1>1. /\ UNCHANGED <<arg, devices>> /\ arg # "--device" /\ line_pc = "argument"
      /\ line_pc' \in {"exit", "option"}
  BY DEF Line!ReadArgument
<1>2. Reading' /\ Checked' /\ Line!DevicesDistinct'
  BY <1>1 DEF LineInv, Reading, Checked, Line!DevicesDistinct, Line!IsInjective
<1>3. CASE ~Line!Accepts(arg, w)
  <2>1. UNCHANGED <<given, opts>> BY <1>3 DEF Line!ReadArgument
  <2>2. Kept' /\ Listed' BY <1>1, <2>1 DEF LineInv, Kept, Listed
  <2> QED BY <1>2, <2>2 DEF LineInv
<1>4. CASE Line!Accepts(arg, w)
  <2>1. /\ opts' = [o \in DOMAIN opts \cup {arg} |-> IF o = arg THEN w ELSE opts[o]]
        /\ given' = Append(given, <<arg, w>>)
    BY <1>4 DEF Line!ReadArgument
  <2>2. arg \in Line!Options /\ arg \notin DOMAIN opts BY <1>1 DEF LineInv, Reading
  <2>3. /\ DOMAIN opts' = DOMAIN opts \cup {arg} /\ opts'[arg] = w
        /\ \A o \in DOMAIN opts : opts'[o] = opts[o]
    BY <2>1, <2>2
  <2>4. given \in Seq(Line!Options \X Words) /\ <<arg, w>> \in Line!Options \X Words
    BY <2>2 DEF LineInv, Kept
  <2>5. /\ given' \in Seq(Line!Options \X Words) /\ Len(given') = Len(given) + 1
        /\ given'[Len(given) + 1] = <<arg, w>>
        /\ \A k \in 1..Len(given) : given'[k] = given[k]
    BY <2>1, <2>4, OneMore
  <2>6. ASSUME NEW k \in 1..Len(given'), given'[k][1] # "--device"
        PROVE  given'[k][1] \in DOMAIN opts' /\ opts'[given'[k][1]] = given'[k][2]
    <3>1. CASE k = Len(given) + 1 BY <2>3, <2>5, <3>1
    <3>2. CASE k # Len(given) + 1
      <4>1. k \in 1..Len(given) BY <2>4, <2>5, <3>2
      <4>2. given[k][1] \in DOMAIN opts /\ opts[given[k][1]] = given[k][2]
        BY <2>5, <2>6, <4>1 DEF LineInv, Kept
      <4> QED BY <2>3, <2>5, <4>1, <4>2
    <3> QED BY <3>1, <3>2
  <2>7. ASSUME "--threads" \in DOMAIN opts' PROVE NumberOf[opts'["--threads"]] \in ThreadNumbers
    <3>1. CASE arg = "--threads"
      <4>1. NumberOf[w] \in ThreadNumbers BY <1>4, <3>1 DEF Line!Accepts, ThreadNumbers
      <4> QED BY <2>3, <3>1, <4>1
    <3>2. CASE arg # "--threads"
      <4>1. "--threads" \in DOMAIN opts BY <2>3, <2>7, <3>2
      <4>2. NumberOf[opts["--threads"]] \in ThreadNumbers BY <4>1 DEF LineInv, Kept
      <4>3. opts'["--threads"] = opts["--threads"] BY <2>3, <4>1
      <4> QED BY <4>2, <4>3
    <3> QED BY <3>1, <3>2
  <2>8. DOMAIN opts' \subseteq Line!Options BY <2>2, <2>3 DEF LineInv, Kept
  <2>9. Kept' BY <1>1, <2>5, <2>6, <2>7, <2>8 DEF LineInv, Kept
  <2>10. Listed'
    <3> SUFFICES ASSUME NEW k \in 1..Len(given'), given'[k][1] = "--device"
                 PROVE  k \in 1..Len(given) /\ given'[k] = given[k]
      BY <1>1 DEF LineInv, Listed
    <3>1. k # Len(given) + 1 BY <1>1, <2>5
    <3> QED BY <2>4, <2>5, <3>1
  <2> QED BY <1>2, <2>9, <2>10 DEF LineInv
<1> QED BY <1>3, <1>4

\* The end of the command line.
LEMMA LineEnd ==
  ASSUME LineInv, Line!CheckOptions
  PROVE  LineInv'
<1>1. UNCHANGED <<opts, given>> /\ line_pc' \in {"exit", "start"} BY DEF Line!CheckOptions
<1>2. Kept' /\ Reading'
  <2>1. devices' \in Seq(Int) BY DEF LineInv, Kept, Line!CheckOptions
  <2> QED BY <1>1, <2>1 DEF LineInv, Kept, Reading
<1>5. Listed'
  <2>1. CASE Line!NeedsDefault
    <3>1. DOMAIN devices = {} BY <2>1 DEF Line!NeedsDefault
    <3> QED BY <1>1, <3>1 DEF LineInv, Listed
  <2>2. CASE ~Line!NeedsDefault
    <3>1. devices' = devices BY <2>2 DEF Line!CheckOptions
    <3> QED BY <1>1, <3>1 DEF LineInv, Listed
  <2> QED BY <2>1, <2>2
<1>3. Line!DevicesDistinct'
  <2>1. CASE Line!NeedsDefault
    <3>1. devices' = <<0>> BY <2>1 DEF Line!CheckOptions
    <3> QED BY <3>1 DEF Line!DevicesDistinct, Line!IsInjective
  <2>2. CASE ~Line!NeedsDefault
    <3>1. devices' = devices BY <2>2 DEF Line!CheckOptions
    <3> QED BY <3>1 DEF LineInv, Line!DevicesDistinct, Line!IsInjective
  <2> QED BY <2>1, <2>2
<1>4. Checked'
  <2> SUFFICES ASSUME line_pc' = "start" PROVE Checked'
    BY <1>1 DEF Checked
  <2>1. ~Line!Conflict BY DEF Line!CheckOptions
  <2>2. <<0>> # << >> OBVIOUS
  <2>3. devices' = IF Line!NeedsDefault THEN <<0>> ELSE devices BY DEF Line!CheckOptions
  <2>4. DOMAIN opts' = DOMAIN opts BY <1>1
  <2> QED BY <2>1, <2>2, <2>3, <2>4 DEF Checked, Line!Conflict, Line!NeedsDefault, Line!Has
<1> QED BY <1>2, <1>3, <1>4, <1>5 DEF LineInv

\* Whatever is read next, the invariant holds.
LEMMA LineStep ==
  ASSUME Line!WordAssumption, LineInv, [Line!Next]_(Line!vars)
  PROVE  LineInv'
<1>1. ASSUME line_pc \in {"argument", "start"}, line_pc' \in {"exit", "run"},
             line_pc' = "run" => line_pc = "start", UNCHANGED <<arg, devices, opts, given>>
      PROVE  LineInv'
  BY <1>1 DEF LineInv, Kept, Listed, Reading, Checked, Line!DevicesDistinct, Line!IsInjective, Line!Has
<1>2. CASE Line!NoArgument BY <1>1, <1>2 DEF Line!NoArgument
<1>3. CASE Line!Start BY <1>1, <1>3 DEF Line!Start
<1>4. CASE UNCHANGED Line!vars
  BY <1>4 DEF LineInv, Kept, Listed, Reading, Checked, Line!DevicesDistinct, Line!IsInjective, Line!Has,
              Line!vars
<1> QED BY <1>2, <1>3, <1>4, LineOption, LineDevices, LineArgument, LineEnd
        DEF Line!Next, Line!Done

\* threads, once the options are read.
LEMMA ThreadsPositive ==
  ASSUME LineInv
  PROVE  /\ Line!Has("--threads") => Line!threads \in Nat /\ Line!threads > 0
         /\ ~Line!Has("--threads") /\ Line!Has("--client") => Line!threads = 0
         /\ ~Line!Has("--threads") /\ ~Line!Has("--client") => Line!threads = 1
<1>1. ASSUME NEW n \in ThreadNumbers PROVE n \in Nat /\ n > 0 BY DEF ThreadNumbers
<1>2. Line!Has("--threads") => NumberOf[opts["--threads"]] \in ThreadNumbers
  BY DEF LineInv, Kept, Line!Has
<1> QED BY <1>1, <1>2 DEF Line!threads

\* The modes of Commission that the options of a command line stand for.
ModesAsAssumed ==
  line_pc = "run" =>
    LET gpus == {devices[k] : k \in DOMAIN devices}
        cpus == 1..Line!threads
    IN  /\ Line!Has("--client") <=> cpus = {}
        /\ gpus = {} => Line!Has("--server")

\* Args::parse and main_inner start no process without a source of candidates or
\* without something that takes them, nor one with both a client and CPU
\* threads, whatever the command line: the two conjuncts of ModeAssumption
\* that relate the threads of a process to its options.
THEOREM CommandLineGivesMode ==
  ASSUME Line!WordAssumption
  PROVE  Line!Spec => [](Line!SourceAndDrain /\ ModesAsAssumed)
<1>1. LineInv => Line!SourceAndDrain
  <2> SUFFICES ASSUME LineInv, line_pc = "run"
               PROVE  /\ devices # << >> \/ Line!Has("--server")
                      /\ Line!threads > 0 <=> ~Line!Has("--client")
    BY DEF Line!SourceAndDrain
  <2>1. devices # << >> \/ Line!Has("--server") BY DEF LineInv, Checked
  <2>2. ~(Line!Has("--threads") /\ Line!Has("--client")) BY DEF LineInv, Checked
  <2>3. ~(0 > 0) /\ 1 > 0 OBVIOUS
  <2> QED BY <2>1, <2>2, <2>3, ThreadsPositive
<1>2. LineInv => ModesAsAssumed
  <2> SUFFICES ASSUME LineInv, line_pc = "run"
               PROVE  /\ Line!Has("--client") <=> 1..Line!threads = {}
                      /\ {devices[k] : k \in DOMAIN devices} = {} => Line!Has("--server")
    BY DEF ModesAsAssumed
  <2>1. ~(Line!Has("--threads") /\ Line!Has("--client")) BY DEF LineInv, Checked
  <2>2. 1..0 = {} /\ \A n \in Nat : n > 0 => 1..n # {}
    OBVIOUS
  <2>3. Line!Has("--client") <=> 1..Line!threads = {}
    BY <2>1, <2>2, ThreadsPositive
  <2>4. {devices[k] : k \in DOMAIN devices} = {} => devices = << >>
    <3>1. devices \in Seq(Int) BY DEF LineInv, Kept
    <3>2. ASSUME devices # << >> PROVE 1 \in DOMAIN devices BY <3>1, <3>2
    <3>3. ASSUME 1 \in DOMAIN devices PROVE devices[1] \in {devices[k] : k \in DOMAIN devices}
      BY <3>3
    <3> QED BY <3>2, <3>3
  <2>5. devices # << >> \/ Line!Has("--server") BY DEF LineInv, Checked
  <2> QED BY <2>3, <2>4, <2>5
<1> QED BY <1>1, <1>2, LineInit, LineStep, PTL DEF Line!Spec

\* In a process that Args::parse and main_inner start every option has its
\* effect (an empty list of --device names no device), and no device has two
\* GPU threads.
THEOREM OptionsTakeEffect ==
  ASSUME Line!WordAssumption
  PROVE  Line!Spec => [](Line!EveryOptionUsed /\ Line!DevicesDistinct)
<1>1. LineInv => Line!EveryOptionUsed
  <2> SUFFICES ASSUME LineInv, line_pc = "run"
               PROVE  /\ \A k \in DOMAIN given :
                           IF given[k][1] = "--device"
                             THEN \A n \in DOMAIN ListOf[given[k][2]] :
                                    \E d \in DOMAIN devices : devices[d] = ListOf[given[k][2]][n]
                             ELSE opts[given[k][1]] = given[k][2]
                      /\ Line!Given("--start") => devices # << >>
                      /\ Line!Given("--size") \/ Line!Given("--output") => Line!threads > 0
    BY DEF Line!EveryOptionUsed
  <2>1. DOMAIN given = 1..Len(given) BY DEF LineInv, Kept
  <2>2. \A k \in DOMAIN given :
          given[k][1] # "--device" =>
            given[k][1] \in DOMAIN opts /\ opts[given[k][1]] = given[k][2]
    BY <2>1 DEF LineInv, Kept
  <2>3. \A o : Line!Given(o) /\ o # "--device" => Line!Has(o)
    BY <2>2 DEF Line!Given, Line!Has
  <2>4. Line!Given("--start") => devices # << >> BY <2>3 DEF LineInv, Checked
  <2>5. ASSUME Line!Given("--size") \/ Line!Given("--output") PROVE Line!threads > 0
    <3>1. Line!Has("--threads") \/ ~Line!Has("--client") BY <2>3, <2>5 DEF LineInv, Checked
    <3>2. 1 > 0 OBVIOUS
    <3> QED BY <3>1, <3>2, ThreadsPositive
  <2>6. ASSUME NEW k \in DOMAIN given, given[k][1] = "--device",
               NEW n \in DOMAIN ListOf[given[k][2]]
        PROVE  \E d \in DOMAIN devices : devices[d] = ListOf[given[k][2]][n]
    BY <2>1, <2>6 DEF LineInv, Listed
  <2> QED BY <2>2, <2>4, <2>5, <2>6
<1>2. LineInv => Line!DevicesDistinct BY DEF LineInv
<1> QED BY <1>1, <1>2, LineInit, LineStep, PTL DEF Line!Spec
=============================================================================

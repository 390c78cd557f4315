----------------------------- MODULE Commission -----------------------------
(***************************************************************************)
(* One COMMISSION process as main_inner runs it: the main thread, one      *)
(* GpuThread per device, the CpuThreads, the optional client and server    *)
(* threads, the two mutex-protected queues between them, the shared        *)
(* SeedIterator, the signal handler and the shutdown sequence.             *)
(*                                                                         *)
(* A critical section of the code is one step.  A thread that only sleeps  *)
(* and looks again takes no step.  The initial state is the one after      *)
(* main_inner installed its signal handlers; what the other threads did    *)
(* before that point is covered by behaviours in which main moves later.   *)
(***************************************************************************)
EXTENDS Integers, Sequences, FiniteSets

CONSTANTS
  Gpus,         \* args.devices, one GpuThread each
  Cpus,         \* the CpuThreads
  HasClient,    \* --client was given
  HasServer,    \* --server was given
  SeedSpace,    \* number of seeds, 2^64 in the code
  BatchSize,    \* KernelFilterSeeds::threads_per_run, 2^28 in the code
  StartSeed,    \* --start, or random_start_seed()
  Candidate,    \* values of a GpuOutput: [seed, x, z]
  Hits,         \* Hits[s]: what the filter pipeline lets through for seed s
  process,      \* process[c]: what cpu.cpp's process() returns for c
  NoOutput,     \* the empty optional
  Remote,       \* candidates remote clients may send to our server
  MaxBatches,   \* bound: batches claimed in a behaviour
  MaxRemote     \* bound: records received from remote clients

Client == "client"
Server == "server"
Threads == Gpus \cup Cpus \cup {Client, Server}
Seeds == 0..(SeedSpace - 1)

\* The modes Args::parse accepts: --client excludes --threads, so a process
\* with a client thread has no CpuThread; devices default to device 0 unless
\* --server is given; without --client there is at least one CpuThread.
ASSUME ModeAssumption ==
  /\ HasClient \in BOOLEAN /\ HasServer \in BOOLEAN
  /\ Gpus \cap Cpus = {}
  /\ (Gpus \cup Cpus) \cap {Client, Server} = {}
  /\ HasClient <=> Cpus = {}
  /\ Gpus = {} => HasServer

ASSUME SeedAssumption ==
  /\ SeedSpace \in Nat \ {0} /\ BatchSize \in 1..SeedSpace
  /\ StartSeed \in Seeds
  /\ MaxBatches \in Nat /\ MaxRemote \in Nat

ASSUME DataAssumption ==
  /\ IsFiniteSet(Candidate) /\ Remote \subseteq Candidate
  /\ Hits \in [Seeds -> SUBSET Candidate]
  /\ DOMAIN process = Candidate

VARIABLES
  running, signal_count,  \* the globals of main.cpp
  status,                 \* "running", or how the process ended
  main_pc,
  stop_flag,              \* Thread::stop_flag of every thread
  pos,                    \* SeedIterator::pos
  batches,                \* start seeds in the order they were claimed
  completed,              \* indices of batches whose candidates are queued
  gpu_pc, gpu_batch,      \* gpu_batch[g]: index of the batch g works on
  found, popped,          \* gpu_outputs.queue: see gpu_outputs below
  cpu_pc, cpu_input,      \* cpu_input[c]: number of the candidate c examines
  examined,               \* numbers of the candidates process() returned for
  cpu_outputs, file,      \* queued results and lines of the output file
  client_pc, pending, sent,
  server_pc, io_ctx, io_stopped, received

procVars   == <<running, signal_count, status>>
mainVars   == <<main_pc, stop_flag>>
seedVars   == <<pos, batches, completed>>
gpuVars    == <<gpu_pc, gpu_batch>>
queueVars  == <<found, popped>>
cpuVars    == <<cpu_pc, cpu_input, examined>>
outVars    == <<cpu_outputs, file>>
clientVars == <<client_pc, pending, sent>>
serverVars == <<server_pc, io_ctx, io_stopped, received>>
vars == <<procVars, mainVars, seedVars, gpuVars, queueVars, cpuVars, outVars,
          clientVars, serverVars>>

-----------------------------------------------------------------------------
(***************************************************************************)
(* The queue of candidates.  `found' lists every candidate ever pushed and *)
(* `popped' counts the pops, so the queue is the rest of the list and the  *)
(* n-th candidate keeps its number n wherever it goes.                     *)
(***************************************************************************)
gpu_outputs == SubSeq(found, popped + 1, Len(found))
QueueEmpty == popped = Len(found)
FrontNumber == popped + 1
QueuedNumbers == [i \in 1..(Len(found) - popped) |-> popped + i]

\* The seeds of the batch that starts at s; uint64_t arithmetic wraps.
BatchSeeds(s) == {(s + i) % SeedSpace : i \in 0..(BatchSize - 1)}
BatchHits(s) == UNION {Hits[x] : x \in BatchSeeds(s)}

\* The GPU's threads append to the last filter's output buffer in any order.
Orderings(S) == {q \in [1..Cardinality(S) -> S] :
                   \A x \in S : \E i \in DOMAIN q : q[i] = x}

Init ==
  /\ running = TRUE /\ signal_count = 0 /\ status = "running"
  /\ main_pc = "loop"
  /\ stop_flag = [t \in Threads |-> FALSE]
  /\ pos = StartSeed /\ batches = << >> /\ completed = {}
  /\ gpu_pc = [g \in Gpus |-> "init"] /\ gpu_batch = [g \in Gpus |-> 0]
  /\ found = << >> /\ popped = 0
  /\ cpu_pc = [c \in Cpus |-> "take"] /\ cpu_input = [c \in Cpus |-> 0]
  /\ examined = {}
  /\ cpu_outputs = << >> /\ file = << >>
  /\ client_pc = IF HasClient THEN "connect" ELSE "done"
  /\ pending = << >> /\ sent = << >>
  /\ server_pc = IF HasServer THEN "start" ELSE "done"
  /\ io_ctx = FALSE /\ io_stopped = FALSE /\ received = 0

-----------------------------------------------------------------------------
(***************************************************************************)
(* Faulty variants of the actions below, each with one plausible slip.  No *)
(* specification uses them: put in place of the action they vary, they     *)
(* break the property PROJECT.json names, which shows it can fail.         *)
(***************************************************************************)
\* input.next advances by one seed too few.
GpuClaimShort(g) ==
  /\ gpu_pc[g] = "claim"
  /\ batches' = Append(batches, pos)
  /\ gpu_batch' = [gpu_batch EXCEPT ![g] = Len(batches) + 1]
  /\ pos' = (pos + BatchSize - 1) % SeedSpace
  /\ gpu_pc' = [gpu_pc EXCEPT ![g] = "batch"]
  /\ UNCHANGED <<procVars, mainVars, completed, queueVars, cpuVars, outVars,
                 clientVars, serverVars>>

TakeVariant(c, leave, take, pops) ==
  /\ cpu_pc[c] = "take"
  /\ \/ /\ leave
        /\ cpu_pc' = [cpu_pc EXCEPT ![c] = "done"]
        /\ UNCHANGED <<cpu_input, popped>>
     \/ /\ take
        /\ cpu_input' = [cpu_input EXCEPT ![c] = FrontNumber]
        /\ popped' = popped + pops
        /\ cpu_pc' = [cpu_pc EXCEPT ![c] = "process"]
  /\ UNCHANGED <<procVars, mainVars, seedVars, gpuVars, found, examined,
                 outVars, clientVars, serverVars>>

\* The test for an empty queue is missing, or front() is not followed by
\* pop(), or an empty queue ends the thread though nobody stopped it.
CpuTakeUnchecked(c) == TakeVariant(c, QueueEmpty /\ stop_flag[c], TRUE, 1)
CpuTakePeek(c) ==
  TakeVariant(c, QueueEmpty /\ stop_flag[c], ~QueueEmpty, 0)
CpuTakeImpatient(c) == TakeVariant(c, QueueEmpty, ~QueueEmpty, 1)

\* A stop that arrives during the drain ends the client before the write.
ClientDrainThenStop ==
  /\ client_pc = "drain"
  /\ pending' = pending \o QueuedNumbers
  /\ popped' = Len(found)
  /\ client_pc' = IF stop_flag[Client] THEN "done"
                  ELSE IF pending' = << >> THEN "check" ELSE "write"
  /\ UNCHANGED <<procVars, mainVars, seedVars, gpuVars, found, cpuVars,
                 outVars, sent, serverVars>>

\* An empty drain ends the loop instead of continuing it.
ClientDrainBreak ==
  /\ client_pc = "drain"
  /\ pending' = pending \o QueuedNumbers
  /\ popped' = Len(found)
  /\ client_pc' = IF pending' = << >> THEN "done" ELSE "write"
  /\ UNCHANGED <<procVars, mainVars, seedVars, gpuVars, found, cpuVars,
                 outVars, sent, serverVars>>

\* The loop prints the queue without popping it.
DrainWithoutPop(next) ==
  /\ file' = file \o cpu_outputs
  /\ main_pc' = next
  /\ UNCHANGED <<procVars, stop_flag, seedVars, gpuVars, queueVars, cpuVars,
                 cpu_outputs, clientVars, serverVars>>

MainGoto(here, next) ==
  /\ main_pc = here
  /\ main_pc' = next
  /\ UNCHANGED <<procVars, stop_flag, seedVars, gpuVars, queueVars, cpuVars,
                 outVars, clientVars, serverVars>>

\* main forgets to stop the CpuThreads, to join a kind of thread, or to
\* write what the CpuThreads queued last.
MainSkipStopCpus == MainGoto("stop_cpus", "stop_client")
MainSkipJoinGpus == MainGoto("join_gpus", "join_cpus")
MainSkipJoinCpus == MainGoto("join_cpus", "flush")
MainSkipFlush == MainGoto("flush", "join_net")

\* shutdown() only sets the flag, which io_context::run never looks at.
MainShutdownServerFlagOnly ==
  /\ main_pc = "shutdown_server"
  /\ main_pc' = "join_gpus"
  /\ stop_flag' = [stop_flag EXCEPT ![Server] = HasServer]
  /\ UNCHANGED <<procVars, seedVars, gpuVars, queueVars, cpuVars, outVars,
                 clientVars, serverVars>>

-----------------------------------------------------------------------------
(***************************************************************************)
(* Signals.  The second one ends the process on the spot.                  *)
(***************************************************************************)
signal_handler ==
  /\ signal_count' = signal_count + 1
  /\ running' = FALSE
  /\ status' = IF signal_count' >= 2 THEN "forced" ELSE status
  /\ UNCHANGED <<mainVars, seedVars, gpuVars, queueVars, cpuVars, outVars,
                 clientVars, serverVars>>

-----------------------------------------------------------------------------
(***************************************************************************)
(* GpuThread::run                                                          *)
(***************************************************************************)
GpuInit(g) ==
  /\ gpu_pc[g] = "init"
  /\ gpu_pc' = [gpu_pc EXCEPT ![g] = "check"]
  /\ UNCHANGED <<procVars, mainVars, seedVars, gpu_batch, queueVars, cpuVars,
                 outVars, clientVars, serverVars>>

\* Bound: how many batches may still be claimed.
BatchBudget ==
  MaxBatches - Len(batches) - Cardinality({g \in Gpus : gpu_pc[g] = "claim"})

\* The loop condition !should_stop().
GpuCheck(g) ==
  /\ gpu_pc[g] = "check"
  /\ \/ stop_flag[g] /\ gpu_pc' = [gpu_pc EXCEPT ![g] = "done"]
     \/ /\ ~stop_flag[g] /\ BatchBudget > 0
        /\ gpu_pc' = [gpu_pc EXCEPT ![g] = "claim"]
  /\ UNCHANGED <<procVars, mainVars, seedVars, gpu_batch, queueVars, cpuVars,
                 outVars, clientVars, serverVars>>

\* input.next(threads_per_run): one atomic fetch_add.
GpuClaim(g) ==
  /\ gpu_pc[g] = "claim"
  /\ batches' = Append(batches, pos)
  /\ gpu_batch' = [gpu_batch EXCEPT ![g] = Len(batches) + 1]
  /\ pos' = (pos + BatchSize) % SeedSpace
  /\ gpu_pc' = [gpu_pc EXCEPT ![g] = "batch"]
  /\ UNCHANGED <<procVars, mainVars, completed, queueVars, cpuVars, outVars,
                 clientVars, serverVars>>

\* The stream has been synchronised: all results of the batch are pushed
\* under one lock of gpu_outputs.mutex.
GpuPush(g) ==
  /\ gpu_pc[g] = "batch"
  /\ \E q \in Orderings(BatchHits(batches[gpu_batch[g]])) : found' = found \o q
  /\ completed' = completed \cup {gpu_batch[g]}
  /\ gpu_pc' = [gpu_pc EXCEPT ![g] = "check"]
  /\ UNCHANGED <<procVars, mainVars, pos, batches, gpu_batch, popped, cpuVars,
                 outVars, clientVars, serverVars>>

-----------------------------------------------------------------------------
(***************************************************************************)
(* CpuThread::run                                                          *)
(***************************************************************************)
\* The critical section on gpu_outputs: pop the front, or leave the loop if
\* the queue is empty and the thread has been told to stop.
CpuTake(c) ==
  /\ cpu_pc[c] = "take"
  /\ \/ /\ QueueEmpty /\ stop_flag[c]
        /\ cpu_pc' = [cpu_pc EXCEPT ![c] = "done"]
        /\ UNCHANGED <<cpu_input, popped>>
     \/ /\ ~QueueEmpty
        /\ cpu_input' = [cpu_input EXCEPT ![c] = FrontNumber]
        /\ popped' = popped + 1
        /\ cpu_pc' = [cpu_pc EXCEPT ![c] = "process"]
  /\ UNCHANGED <<procVars, mainVars, seedVars, gpuVars, found, examined,
                 outVars, clientVars, serverVars>>

\* process() and, for an island that is large enough, the push of its result
\* under cpu_outputs.mutex.  process() touches only the thread's own state.
CpuProcess(c) ==
  /\ cpu_pc[c] = "process"
  /\ examined' = examined \cup {cpu_input[c]}
  /\ cpu_outputs' = IF process[found[cpu_input[c]]] = NoOutput
                      THEN cpu_outputs
                      ELSE Append(cpu_outputs, cpu_input[c])
  /\ cpu_pc' = [cpu_pc EXCEPT ![c] = "take"]
  /\ UNCHANGED <<procVars, mainVars, seedVars, gpuVars, queueVars, cpu_input,
                 file, clientVars, serverVars>>

-----------------------------------------------------------------------------
(***************************************************************************)
(* ClientThread::run.  `sent' is what asio::write has handed to the socket *)
(* after the handshake.                                                    *)
(***************************************************************************)
ClientConnect ==
  /\ client_pc = "connect"
  /\ client_pc' = "check"
  /\ UNCHANGED <<procVars, mainVars, seedVars, gpuVars, queueVars, cpuVars,
                 outVars, pending, sent, serverVars>>

ClientCheck ==
  /\ client_pc = "check"
  /\ client_pc' = IF stop_flag[Client] THEN "done" ELSE "drain"
  /\ UNCHANGED <<procVars, mainVars, seedVars, gpuVars, queueVars, cpuVars,
                 outVars, pending, sent, serverVars>>

\* After the one second sleep: move the whole queue to pending_data.
ClientDrain ==
  /\ client_pc = "drain"
  /\ pending' = pending \o QueuedNumbers
  /\ popped' = Len(found)
  /\ client_pc' = IF pending' = << >> THEN "check" ELSE "write"
  /\ UNCHANGED <<procVars, mainVars, seedVars, gpuVars, found, cpuVars,
                 outVars, sent, serverVars>>

ClientWrite ==
  /\ client_pc = "write"
  /\ sent' = sent \o pending
  /\ pending' = << >>
  /\ client_pc' = "check"
  /\ UNCHANGED <<procVars, mainVars, seedVars, gpuVars, queueVars, cpuVars,
                 outVars, serverVars>>

-----------------------------------------------------------------------------
(***************************************************************************)
(* ServerThread::run.  io_ctx tells whether the pointer is set, io_stopped *)
(* whether io_context::stop was called.                                    *)
(***************************************************************************)
ServerPublish ==
  /\ server_pc = "start"
  /\ io_ctx' = TRUE
  /\ server_pc' = "setup"
  /\ UNCHANGED <<procVars, mainVars, seedVars, gpuVars, queueVars, cpuVars,
                 outVars, clientVars, io_stopped, received>>

\* Resolve, bind, listen; then enter io_context.run().
ServerListen ==
  /\ server_pc = "setup"
  /\ server_pc' = "run"
  /\ UNCHANGED <<procVars, mainVars, seedVars, gpuVars, queueVars, cpuVars,
                 outVars, clientVars, io_ctx, io_stopped, received>>

\* tcp_connection::handle_read pushes records; their reassembly from the
\* byte stream is the subject of module TcpLink.
ServerReceive ==
  /\ server_pc = "run" /\ ~io_stopped
  /\ received < MaxRemote
  /\ \E c \in Remote : found' = Append(found, c)
  /\ received' = received + 1
  /\ UNCHANGED <<procVars, mainVars, seedVars, gpuVars, popped, cpuVars,
                 outVars, clientVars, server_pc, io_ctx, io_stopped>>

ServerReturn ==
  /\ server_pc = "run" /\ io_stopped
  /\ io_ctx' = FALSE
  /\ server_pc' = "done"
  /\ UNCHANGED <<procVars, mainVars, seedVars, gpuVars, queueVars, cpuVars,
                 outVars, clientVars, io_stopped, received>>

-----------------------------------------------------------------------------
(***************************************************************************)
(* The main thread.                                                        *)
(***************************************************************************)
MainCheck ==
  /\ main_pc = "loop"
  /\ main_pc' = IF running THEN "drain" ELSE "stop_gpus"
  /\ UNCHANGED <<procVars, stop_flag, seedVars, gpuVars, queueVars, cpuVars,
                 outVars, clientVars, serverVars>>

\* Pop, print and flush everything in cpu_outputs under its mutex.
DrainTo(next) ==
  /\ file' = file \o cpu_outputs
  /\ cpu_outputs' = << >>
  /\ main_pc' = next
  /\ UNCHANGED <<procVars, stop_flag, seedVars, gpuVars, queueVars, cpuVars,
                 clientVars, serverVars>>

MainDrain == main_pc = "drain" /\ DrainTo("loop")

\* for (auto &thread : threads) thread->stop(), one store at a time.
StopThreads(here, threads, next) ==
  /\ main_pc = here
  /\ \/ /\ \E t \in threads : /\ ~stop_flag[t]
                              /\ stop_flag' = [stop_flag EXCEPT ![t] = TRUE]
        /\ UNCHANGED main_pc
     \/ /\ \A t \in threads : stop_flag[t]
        /\ main_pc' = next
        /\ UNCHANGED stop_flag
  /\ UNCHANGED <<procVars, seedVars, gpuVars, queueVars, cpuVars, outVars,
                 clientVars, serverVars>>

MainStopGpus == StopThreads("stop_gpus", Gpus, "stop_cpus")
MainStopCpus == StopThreads("stop_cpus", Cpus, "stop_client")

MainStopClient ==
  /\ main_pc = "stop_client"
  /\ main_pc' = "shutdown_server"
  /\ stop_flag' = [stop_flag EXCEPT ![Client] = HasClient]
  /\ UNCHANGED <<procVars, seedVars, gpuVars, queueVars, cpuVars, outVars,
                 clientVars, serverVars>>

\* ServerThread::shutdown: the io_context is stopped only if the server
\* thread has already stored its address.
MainShutdownServer ==
  /\ main_pc = "shutdown_server"
  /\ main_pc' = "join_gpus"
  /\ stop_flag' = [stop_flag EXCEPT ![Server] = HasServer]
  /\ io_stopped' = (HasServer /\ io_ctx)
  /\ UNCHANGED <<procVars, seedVars, gpuVars, queueVars, cpuVars, outVars,
                 clientVars, server_pc, io_ctx, received>>

MainJoinGpus ==
  /\ main_pc = "join_gpus"
  /\ \A g \in Gpus : gpu_pc[g] = "done"
  /\ main_pc' = "join_cpus"
  /\ UNCHANGED <<procVars, stop_flag, seedVars, gpuVars, queueVars, cpuVars,
                 outVars, clientVars, serverVars>>

MainJoinCpus ==
  /\ main_pc = "join_cpus"
  /\ \A c \in Cpus : cpu_pc[c] = "done"
  /\ main_pc' = "flush"
  /\ UNCHANGED <<procVars, stop_flag, seedVars, gpuVars, queueVars, cpuVars,
                 outVars, clientVars, serverVars>>

MainFlush == main_pc = "flush" /\ DrainTo("join_net")

MainReturn ==
  /\ main_pc = "join_net"
  /\ client_pc = "done" /\ server_pc = "done"
  /\ main_pc' = "done"
  /\ status' = "exited"
  /\ UNCHANGED <<running, signal_count, stop_flag, seedVars, gpuVars,
                 queueVars, cpuVars, outVars, clientVars, serverVars>>

-----------------------------------------------------------------------------
\* Where a failed CUDA call, a failed allocation or an exception of asio
\* aborts the process.
CanPanic ==
  \/ \E g \in Gpus : \/ gpu_pc[g] \in {"init", "batch"}
                     \/ gpu_pc[g] = "check" /\ stop_flag[g]
  \/ client_pc \in {"connect", "write"}
  \/ server_pc \in {"setup", "run"}

Panic ==
  /\ CanPanic
  /\ status' = "aborted"
  /\ UNCHANGED <<running, signal_count, mainVars, seedVars, gpuVars, queueVars,
                 cpuVars, outVars, clientVars, serverVars>>

GpuStep(g) == GpuInit(g) \/ GpuCheck(g) \/ GpuClaim(g) \/ GpuPush(g)
CpuStep(c) == CpuTake(c) \/ CpuProcess(c)
ClientStep == ClientConnect \/ ClientCheck \/ ClientDrain \/ ClientWrite
ServerStep == ServerPublish \/ ServerListen \/ ServerReturn
MainStep == \/ MainCheck \/ MainDrain
            \/ MainStopGpus \/ MainStopCpus
            \/ MainStopClient \/ MainShutdownServer
            \/ MainJoinGpus \/ MainJoinCpus \/ MainFlush \/ MainReturn

Live(A) == status = "running" /\ A

Next ==
  \/ Live(signal_handler)
  \/ \E g \in Gpus : Live(GpuStep(g))
  \/ \E c \in Cpus : Live(CpuStep(c))
  \/ Live(ClientStep)
  \/ Live(ServerStep)
  \/ Live(ServerReceive)
  \/ Live(MainStep)
  \/ Live(Panic)
  \* The process is gone.
  \/ status # "running" /\ UNCHANGED vars

Spec == Init /\ [][Next]_vars

\* Every thread that can go on eventually does: the operating system
\* schedules it, its sleeps end, its CUDA stream completes.  Nothing is
\* assumed of signals, of remote clients or of failures.
Fairness ==
  /\ \A g \in Gpus : WF_vars(Live(GpuStep(g)))
  /\ \A c \in Cpus : WF_vars(Live(CpuStep(c)))
  /\ WF_vars(Live(ClientStep))
  /\ WF_vars(Live(ServerStep))
  /\ WF_vars(Live(MainStep))

FairSpec == Spec /\ Fairness

-----------------------------------------------------------------------------
(***************************************************************************)
(* What the process promises.                                              *)
(***************************************************************************)
ProcType ==
  /\ status \in {"running", "exited", "forced", "aborted"}
  /\ running \in BOOLEAN
  /\ signal_count \in 0..(IF status = "forced" THEN 2 ELSE 1)
MainType ==
  /\ main_pc \in {"loop", "drain", "stop_gpus", "stop_cpus", "stop_client",
                  "shutdown_server", "join_gpus", "join_cpus", "flush",
                  "join_net", "done"}
  /\ stop_flag \in [Threads -> BOOLEAN]
GpuType ==
  /\ pos \in Seeds /\ batches \in Seq(Seeds)
  /\ completed \subseteq 1..Len(batches)
  /\ gpu_pc \in [Gpus -> {"init", "check", "claim", "batch", "done"}]
  /\ gpu_batch \in [Gpus -> 0..Len(batches)]
  /\ \A g \in Gpus : gpu_pc[g] = "batch" => gpu_batch[g] # 0
QueueType == found \in Seq(Candidate) /\ popped \in 0..Len(found)
CpuType ==
  /\ cpu_pc \in [Cpus -> {"take", "process", "done"}]
  /\ cpu_input \in [Cpus -> 0..popped]
  /\ \A c \in Cpus : cpu_pc[c] = "process" => cpu_input[c] # 0
  /\ examined \subseteq 1..popped
  /\ cpu_outputs \in Seq(1..popped) /\ file \in Seq(1..popped)
ClientType ==
  /\ client_pc \in {"connect", "check", "drain", "write", "done"}
  /\ pending \in Seq(1..popped) /\ sent \in Seq(1..popped)
ServerType ==
  /\ server_pc \in {"start", "setup", "run", "done"}
  /\ io_ctx \in BOOLEAN /\ io_stopped \in BOOLEAN
  /\ received \in 0..MaxRemote

\* Every variable stays in its type.  The batch a GpuThread works on has
\* been claimed, the candidate a CpuThread examines has been popped, and a
\* process that counted two signals is gone.
TypeOK == /\ ProcType /\ MainType /\ GpuType /\ QueueType /\ CpuType
          /\ ClientType /\ ServerType

Elements(q) == {q[i] : i \in 1..Len(q)}
Busy == {c \in Cpus : cpu_pc[c] = "process"}
Held == {cpu_input[c] : c \in Busy}
Accepted(S) == {n \in S : process[found[n]] # NoOutput}

\* Every candidate popped from gpu_outputs is with exactly one owner: one
\* CpuThread is examining it, or one has examined it, or the client has it
\* in pending_data or on the wire, in the order of the queue.  No pop is
\* lost and no candidate is handed to two threads.
CandidatesAccounted ==
  /\ \A c, d \in Busy : cpu_input[c] = cpu_input[d] => c = d
  /\ examined \cap Held = {}
  /\ IF HasClient THEN sent \o pending = [i \in 1..popped |-> i]
                  ELSE examined \cup Held = 1..popped

\* The results in the output file and in cpu_outputs together are those of
\* the examined candidates that process() accepted, each exactly once,
\* whichever thread found it and whichever of main's two loops wrote it.
ReportsExactlyOnce ==
  LET lines == file \o cpu_outputs
  IN  /\ Elements(lines) = Accepted(examined)
      /\ \A i, j \in 1..Len(lines) : lines[i] = lines[j] => i = j

\* When main_inner returns, nothing that a thread took from the queue is
\* still in memory: each accepted result is in the file, and a client has
\* sent all it took.
ExitKeepsTakenWork ==
  status = "exited" =>
    IF HasClient THEN sent = [i \in 1..popped |-> i]
                 ELSE Elements(file) = Accepted(1..popped)

\* What main prints once it has joined the GPU threads is true of the GPU
\* side: every batch that moved the SeedIterator has gone through the whole
\* pipeline, and pos - start_seed counts these batches' seeds (modulo 2^64).
TotalSeedsCompleted ==
  main_pc \in {"join_cpus", "flush", "join_net", "done"} =>
    /\ completed = 1..Len(batches)
    /\ (pos - StartSeed) % SeedSpace = (Len(batches) * BatchSize) % SeedSpace

\* As long as the seed space is not exhausted, no seed belongs to two of the
\* batches the GPU threads claimed, also when the iterator wraps around.
SeedsClaimedOnce ==
  \A i, j \in 1..Len(batches) :
    i < j /\ j * BatchSize <= SeedSpace
      => BatchSeeds(batches[i]) \cap BatchSeeds(batches[j]) = {}

\* When main_inner returns, every candidate of the batches it waited for has
\* been taken by a CpuThread or by the client.
ExitExaminesEverything == status = "exited" => QueueEmpty

-----------------------------------------------------------------------------
\* After the first SIGINT or SIGTERM the process ends without a second one.
ShutdownCompletes == signal_count > 0 ~> status # "running"

\* With a server: it ends if the server thread had published its io_context
\* by the time main called ServerThread::shutdown.
ShutdownCompletesIfPublished ==
  [](main_pc = "shutdown_server" => io_ctx) => ShutdownCompletes

MaxFound == MaxRemote + MaxBatches * Cardinality(Candidate)

\* A candidate in gpu_outputs is eventually examined by a CpuThread or sent
\* by the client, unless the process is told to stop or ends.
CandidatesServed ==
  \A n \in 1..MaxFound :
    Len(found) >= n ~> \/ n \in examined \cup Elements(sent)
                       \/ signal_count > 0 \/ status # "running"

\* A queued result reaches the output file even when a shutdown begins in
\* between; only a forced exit or an abort may prevent it.
ResultsWritten ==
  \A n \in 1..MaxFound :
    n \in Elements(cpu_outputs) ~> \/ n \in Elements(file)
                                   \/ status \in {"forced", "aborted"}

=============================================================================

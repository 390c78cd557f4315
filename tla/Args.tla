-------------------------------- MODULE Args --------------------------------
(***************************************************************************)
(* Args::parse and the beginning of main_inner: from the command line to   *)
(* the threads that are started.  The words of the command line are read   *)
(* one at a time, an option takes whatever word follows it, and at the end *)
(* the combination of options is checked.                                  *)
(*                                                                         *)
(* How std::from_chars and split_address read a word is a constant: the    *)
(* numbers of a comma-separated list, the number, or the address it holds. *)
(***************************************************************************)
EXTENDS Integers, Sequences, FiniteSets, SequencesExt

CONSTANTS
  Words,        \* words of a command line
  ListOf,       \* word -> the numbers of its list, or Bad
  NumberOf,     \* word -> the number it spells, or Bad
  Addresses,    \* words with a colon
  Bad,
  MaxOptions    \* bound: options on the command line

Options == {"--device", "--threads", "--client", "--server", "--output", "--start", "--size"}

\* What the constants must satisfy.
WordAssumption ==
  /\ Options \subseteq Words /\ Addresses \subseteq Words
  /\ DOMAIN ListOf = Words /\ DOMAIN NumberOf = Words
  /\ \A w \in Words : ListOf[w] # Bad => ListOf[w] \in Seq(Int)
  /\ MaxOptions \in Nat

VARIABLES
  build,    \* which of NO_GPU, NO_CPU, NO_NET the program was built with
  pc,       \* "option", "argument" of `arg', "start", "run" or "exit"
  arg,      \* the option being read
  devices,  \* sequence of devices
  opts,     \* the optional members of Args that have a value: option -> word
  given     \* history: the options read with their words, in order

vars == <<build, pc, arg, devices, opts, given>>

Has(o) == o \in DOMAIN opts

-----------------------------------------------------------------------------
(***************************************************************************)
(* Faulty variants of the operations below, each with one plausible slip,  *)
(* to show that the properties can fail.  No specification uses them.      *)
(***************************************************************************)
\* Device 0 is only the default when there is neither a server nor a client.
DefaultNeeded == devices = << >> /\ ~Has("--server") /\ ~Has("--client")

\* --size is not looked at.
ConflictButSize ==
  \/ Has("--threads") /\ Has("--client")
  \/ Has("--output") /\ Has("--client")
  \/ Has("--start") /\ devices = << >> /\ Has("--server")

-----------------------------------------------------------------------------
Init ==
  /\ build \in SUBSET {"NO_GPU", "NO_CPU", "NO_NET"}
  /\ pc = "option" /\ arg = "" /\ devices = << >>
  /\ opts = << >> /\ given = << >>

\* check_duplicate, for every option but --device.
Duplicate(o) == o # "--device" /\ Has(o)

\* The next word is taken for an option.
ReadOption(w) ==
  /\ pc = "option" /\ Len(given) < MaxOptions
  /\ pc' = IF w \in Options /\ ~Duplicate(w) THEN "argument" ELSE "exit"
  /\ arg' = w
  /\ UNCHANGED <<build, devices, opts, given>>

\* check_argument: the command line ends after an option.
NoArgument ==
  /\ pc = "argument" /\ pc' = "exit"
  /\ UNCHANGED <<build, arg, devices, opts, given>>

\* A device is listed twice, in one list or in two, or the list is no list.
BadList(l) ==
  l = Bad \/ ~IsInjective(devices \o l) \/ \E k \in DOMAIN l : l[k] < 0

ReadDevices(w) ==
  /\ pc = "argument" /\ arg = "--device"
  /\ IF BadList(ListOf[w])
       THEN pc' = "exit" /\ UNCHANGED <<devices, given>>
       ELSE /\ pc' = "option" /\ devices' = devices \o ListOf[w]
            /\ given' = Append(given, <<arg, w>>)
  /\ UNCHANGED <<build, arg, opts>>

\* The words an option accepts.
Accepts(o, w) ==
  CASE o = "--threads" -> NumberOf[w] # Bad /\ NumberOf[w] \in 1..1024
    [] o = "--size" -> NumberOf[w] # Bad /\ NumberOf[w] >= 0
    [] o = "--start" -> NumberOf[w] # Bad
    [] o = "--output" -> TRUE
    [] OTHER -> w \in Addresses

ReadArgument(w) ==
  /\ pc = "argument" /\ arg # "--device"
  /\ IF Accepts(arg, w)
       THEN /\ pc' = "option"
            /\ opts' = [o \in DOMAIN opts \cup {arg} |-> IF o = arg THEN w ELSE opts[o]]
            /\ given' = Append(given, <<arg, w>>)
       ELSE pc' = "exit" /\ UNCHANGED <<opts, given>>
  /\ UNCHANGED <<build, arg, devices>>

NeedsDefault == devices = << >> /\ ~Has("--server")

\* Combinations that are refused; the default device comes before the last two.
Conflict ==
  \/ Has("--threads") /\ Has("--client")
  \/ Has("--output") /\ Has("--client")
  \/ Has("--start") /\ devices = << >> /\ Has("--server")
  \/ Has("--size") /\ ~Has("--threads") /\ Has("--client")

\* The end of Args::parse.
CheckOptions ==
  /\ pc = "option"
  /\ pc' = IF Conflict THEN "exit" ELSE "start"
  /\ devices' = IF NeedsDefault THEN <<0>> ELSE devices
  /\ UNCHANGED <<build, arg, opts, given>>

\* CpuThreads of the process.
threads == IF Has("--threads") THEN NumberOf[opts["--threads"]]
           ELSE IF Has("--client") THEN 0 ELSE 1

Unsupported ==
  \/ "NO_GPU" \in build /\ devices # << >>
  \/ "NO_CPU" \in build /\ threads # 0
  \/ "NO_NET" \in build /\ (Has("--client") \/ Has("--server"))

\* The process starts its threads unless the build lacks them, or the output
\* file cannot be opened.
Start ==
  /\ pc = "start"
  /\ \/ pc' = "exit" /\ (Unsupported \/ threads # 0)
     \/ pc' = "run" /\ ~Unsupported
  /\ UNCHANGED <<build, arg, devices, opts, given>>

Done == pc \in {"run", "exit"} /\ UNCHANGED vars

Next ==
  \/ \E w \in Words : ReadOption(w) \/ ReadDevices(w) \/ ReadArgument(w)
  \/ NoArgument \/ CheckOptions \/ Start \/ Done

Spec == Init /\ [][Next]_vars

-----------------------------------------------------------------------------
Given(o) == \E k \in DOMAIN given : given[k][1] = o

\* Every command line that starts gives the candidates a source (a device or
\* the server) and a drain (a CpuThread or the client), and never both drains,
\* as the assumption on modes of module Commission has it.
SourceAndDrain ==
  pc = "run" =>
    /\ devices # << >> \/ Has("--server")
    /\ threads > 0 <=> ~Has("--client")

\* What the options of a command line that starts say is done: the value given
\* is the value used, by a thread that is there, and each device of each list
\* of --device has its thread.  An empty list names no device; it is accepted
\* and leaves everything as it would be without it, the default included.
EveryOptionUsed ==
  pc = "run" =>
    /\ \A k \in DOMAIN given :
         IF given[k][1] = "--device"
           THEN \A n \in DOMAIN ListOf[given[k][2]] :
                  \E d \in DOMAIN devices : devices[d] = ListOf[given[k][2]][n]
           ELSE opts[given[k][1]] = given[k][2]
    /\ Given("--start") => devices # << >>
    /\ Given("--size") \/ Given("--output") => threads > 0

\* Each GpuThread has a device of its own.
DevicesDistinct == IsInjective(devices)
=============================================================================

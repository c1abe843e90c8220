---------------------------- MODULE CpuSelection ----------------------------
(***************************************************************************)
(* Which CPUs a parallel run uses (parallel/cpu.py).  CpuInfo reads one    *)
(* block of /proc/cpuinfo after another; CpuSchedulingMode then selects    *)
(* CPUs in one of four modes.  The loops over sockets and cores are loops  *)
(* here too; that of the balanced mode only ends when it has found enough  *)
(* CPUs.                                                                   *)
(***************************************************************************)
EXTENDS Integers, SequencesExt

CONSTANTS
  Vcpus,        \* the processors of the machine
  SocketIds,    \* "physical id"s
  CoreIds,      \* "core id"s
  Requests,     \* values of --num_cpus
  Utilizations, \* values of --utilization, in percent
  MayHideSocket \* TRUE: the affinity mask may leave no CPU of a lower socket,
                \* and the blocks of some CPUs may lack an id

ASSUME CpuAssumption ==
  /\ IsFiniteSet(Vcpus)
  /\ Vcpus \subseteq Nat /\ SocketIds \subseteq Nat /\ CoreIds \subseteq Nat
  /\ Requests \subseteq Nat \ {0} /\ Utilizations \subseteq 1..100
  /\ MayHideSocket \in BOOLEAN

Modes == {"DISABLE", "DYNAMIC", "SKEWED", "BALANCED"}

VARIABLES
  socketOf, coreOf, \* /proc/cpuinfo
  described,        \* the CPUs whose block has all three numbers
  available_cpus,   \* the affinity mask
  mode, required_cpus_num, utilization,
  blocks,           \* the blocks of the file still to be read
  cpu_info,         \* [socket, core, vcpus]: the dictionaries, in their order
  num_cpus, core_id, socket_id,
  at,               \* the entry of cpu_info a loop over cores is at
  selected_cpus,
  phase             \* "read", "select", "list", "balance" or "done"

machine == <<socketOf, coreOf, described, available_cpus, mode, required_cpus_num, utilization>>
vars == <<machine, blocks, cpu_info, num_cpus, core_id, socket_id, at, selected_cpus, phase>>

-----------------------------------------------------------------------------
Least(a, b) == IF a < b THEN a ELSE b

\* The first n elements: list[: n].
Upto(n, s) == SubSeq(s, 1, IF n < Len(s) THEN n ELSE Len(s))

\* Unless a lower socket may be hidden, the sockets in use are 0..k.
RealMachine(sk, av) ==
  /\ av # {}
  /\ MayHideSocket \/ \A v \in av : \A s \in 0..sk[v] : \E w \in av : sk[w] = s

\* A core has two hyperthreads at most.
TwoThreads(sk, cr) == \A v \in Vcpus :
  Cardinality({w \in Vcpus : sk[w] = sk[v] /\ cr[w] = cr[v]}) <= 2

\* Mutant: more CPUs than there are may be required.
_GetRequiredVCPUsNoMin(n, percent, available) ==
  (n * percent + 99) \div 100 + IF n % 2 = 1 THEN 3 ELSE 2

(***************************************************************************)
(* CpuSchedulingMode.__init__: two or three CPUs more than the target, as  *)
(* far as there are CPUs.                                                  *)
(***************************************************************************)
_GetRequiredVCPUs(n, percent, available) ==
  LET vcpus == (n * percent + 99) \div 100 + IF n % 2 = 1 THEN 3 ELSE 2
  IN  IF Cardinality(available) < vcpus THEN Cardinality(available) ELSE vcpus

Init ==
  /\ socketOf \in [Vcpus -> SocketIds] /\ coreOf \in [Vcpus -> CoreIds]
  /\ TwoThreads(socketOf, coreOf)
  /\ described \in IF MayHideSocket THEN SUBSET Vcpus ELSE {Vcpus}
  /\ available_cpus \in SUBSET Vcpus /\ RealMachine(socketOf, available_cpus)
  /\ mode \in Modes
  /\ required_cpus_num \in Requests
  /\ utilization \in Utilizations
  /\ blocks = Vcpus /\ cpu_info = << >>
  /\ num_cpus = IF mode \in {"SKEWED", "BALANCED"}
                THEN _GetRequiredVCPUs(required_cpus_num, utilization, available_cpus)
                ELSE required_cpus_num
  /\ core_id = 0 /\ socket_id = 0 /\ at = 1
  /\ selected_cpus = << >>
  /\ phase = "read"

-----------------------------------------------------------------------------
(***************************************************************************)
(* CpuInfo                                                                 *)
(***************************************************************************)
\* A vCPU joins the list of its core, which a first vCPU creates.
Added(info, v) ==
  LET known == {i \in DOMAIN info :
                  info[i].socket = socketOf[v] /\ info[i].core = coreOf[v]}
  IN  IF known = {}
      THEN Append(info, [socket |-> socketOf[v], core |-> coreOf[v], vcpus |-> <<v>>])
      ELSE [i \in DOMAIN info |->
              IF i \in known THEN [info[i] EXCEPT !.vcpus = Append(@, v)] ELSE info[i]]

\* The blocks are in the order of their processors.
_AddCore ==
  /\ phase = "read"
  /\ \E v \in blocks :
       /\ \A w \in blocks : v <= w
       /\ blocks' = blocks \ {v}
       /\ cpu_info' = IF v \in described \cap available_cpus
                      THEN Added(cpu_info, v) ELSE cpu_info
  /\ UNCHANGED <<machine, num_cpus, core_id, socket_id, at, selected_cpus, phase>>

EndOfFile ==
  /\ phase = "read" /\ blocks = {}
  /\ phase' = "select"
  /\ UNCHANGED <<machine, blocks, cpu_info, num_cpus, core_id, socket_id, at, selected_cpus>>

GetSocketsCount == Cardinality({cpu_info[i].socket : i \in DOMAIN cpu_info})

\* The entries of a core: one, or none.
EntriesOf(s, c) == {i \in DOMAIN cpu_info : cpu_info[i].socket = s /\ cpu_info[i].core = c}

GetVCPUPairsForCore(s, c) ==
  IF EntriesOf(s, c) = {} THEN << >>
  ELSE cpu_info[CHOOSE i \in EntriesOf(s, c) : TRUE].vcpus

IsUnusedCoreID(c) == \A i \in DOMAIN cpu_info : cpu_info[i].core # c

-----------------------------------------------------------------------------
(***************************************************************************)
(* SelectCPURangeAndSetUtilization                                         *)
(***************************************************************************)
\* return sorted(cpus)
Return(cpus) ==
  /\ \E order \in Bijection(DOMAIN cpus, DOMAIN cpus) :
       /\ \A i, j \in DOMAIN cpus : i < j => cpus[order[i]] <= cpus[order[j]]
       /\ selected_cpus' = [i \in DOMAIN cpus |-> cpus[order[i]]]
  /\ phase' = "done"
  /\ UNCHANGED <<machine, blocks, cpu_info, num_cpus, core_id, socket_id, at>>

\* The list of available CPUs is made of a set, in any order, and not sorted.
Dynamic ==
  /\ phase = "select" /\ mode = "DYNAMIC"
  /\ selected_cpus' \in Injection(1..Least(num_cpus, Cardinality(available_cpus)), available_cpus)
  /\ phase' = "done"
  /\ UNCHANGED <<machine, blocks, cpu_info, num_cpus, core_id, socket_id, at>>

(***************************************************************************)
(* _GetCPUsWithDisabledSMT, _GetCPUsWithSkewedScheduling: for every socket *)
(* below GetSocketsCount() and every core of it, in the order in which     *)
(* GetCoresForSocket lists them, the first hyperthread or all of them.     *)
(***************************************************************************)
ListCores ==
  /\ phase = "select" /\ mode \in {"DISABLE", "SKEWED"}
  /\ phase' = "list" /\ socket_id' = 0 /\ at' = 1
  /\ selected_cpus' = << >>
  /\ UNCHANGED <<machine, blocks, cpu_info, num_cpus, core_id>>

\* What a core adds to the list.
OfCore(i) == IF mode = "DISABLE" THEN <<cpu_info[i].vcpus[1]>> ELSE cpu_info[i].vcpus

ListCore ==
  /\ phase = "list" /\ socket_id < GetSocketsCount /\ at \in DOMAIN cpu_info
  /\ selected_cpus' = IF cpu_info[at].socket = socket_id
                      THEN selected_cpus \o OfCore(at) ELSE selected_cpus
  /\ at' = at + 1
  /\ UNCHANGED <<machine, blocks, cpu_info, num_cpus, core_id, socket_id, phase>>

ListNextSocket ==
  /\ phase = "list" /\ socket_id < GetSocketsCount /\ at \notin DOMAIN cpu_info
  /\ socket_id' = socket_id + 1 /\ at' = 1
  /\ UNCHANGED <<machine, blocks, cpu_info, num_cpus, core_id, selected_cpus, phase>>

\* As many as are asked for, if there are so many.
ReturnListed ==
  /\ phase = "list" /\ socket_id >= GetSocketsCount
  /\ Return(Upto(num_cpus, selected_cpus))

(***************************************************************************)
(* _GetCPUsWithBalancedScheduling.  Past the last core id in use all ids   *)
(* are alike, so core_id stays at one more.                                *)
(***************************************************************************)
Balanced ==
  /\ phase = "select" /\ mode = "BALANCED"
  /\ phase' = "balance" /\ core_id' = 0 /\ socket_id' = 0
  /\ selected_cpus' = << >>
  /\ UNCHANGED <<machine, blocks, cpu_info, num_cpus, at>>

\* Mutant: the core id is not incremented.
NextCoreStuck == core_id

NextCore == IF \E c \in CoreIds : core_id <= c THEN core_id + 1 ELSE core_id

Found == Len(selected_cpus) >= num_cpus

SkipCore ==
  /\ phase = "balance" /\ ~Found /\ socket_id = 0
  /\ IsUnusedCoreID(core_id)
  /\ core_id' = NextCore
  /\ UNCHANGED <<machine, blocks, cpu_info, num_cpus, socket_id, at, selected_cpus, phase>>

\* Mutant: only the first socket is asked.
TakePairsOneSocket ==
  /\ phase = "balance" /\ ~Found
  /\ ~IsUnusedCoreID(core_id)
  /\ selected_cpus' = selected_cpus \o GetVCPUPairsForCore(0, core_id)
  /\ core_id' = NextCore
  /\ UNCHANGED <<machine, blocks, cpu_info, num_cpus, socket_id, at, phase>>

TakePairs ==
  /\ phase = "balance" /\ ~Found
  /\ ~IsUnusedCoreID(core_id)
  /\ selected_cpus' = selected_cpus \o GetVCPUPairsForCore(socket_id, core_id)
  /\ IF socket_id + 1 < GetSocketsCount
     THEN socket_id' = socket_id + 1 /\ UNCHANGED core_id
     ELSE socket_id' = 0 /\ core_id' = NextCore
  /\ UNCHANGED <<machine, blocks, cpu_info, num_cpus, at, phase>>

ReturnBalanced ==
  /\ phase = "balance" /\ Found
  /\ Return(selected_cpus)

Next ==
  \/ _AddCore \/ EndOfFile \/ Dynamic
  \/ ListCores \/ ListCore \/ ListNextSocket \/ ReturnListed
  \/ Balanced \/ SkipCore \/ TakePairs \/ ReturnBalanced

Spec == Init /\ [][Next]_vars

\* A single-threaded computation runs until it returns.
FairSpec == Spec /\ WF_vars(Next)

-----------------------------------------------------------------------------
Entry == [socket : SocketIds, core : CoreIds, vcpus : Seq(Vcpus)]

\* The variables are of their types, and the selection lists no processor twice
\* though balanced scheduling asks again and again (cpu.py:236-251).
TypeOK ==
  /\ socketOf \in [Vcpus -> SocketIds] /\ coreOf \in [Vcpus -> CoreIds]
  /\ described \subseteq Vcpus /\ available_cpus \subseteq Vcpus
  /\ mode \in Modes /\ required_cpus_num \in Requests /\ utilization \in Utilizations
  /\ blocks \subseteq Vcpus /\ cpu_info \in Seq(Entry)
  /\ num_cpus \in Nat /\ core_id \in Nat /\ socket_id \in Nat /\ at \in Nat \ {0}
  /\ selected_cpus \in Seq(Vcpus)
  /\ \A i, j \in DOMAIN selected_cpus : selected_cpus[i] = selected_cpus[j] => i = j
  /\ phase \in {"read", "select", "list", "balance", "done"}

Chosen == ToSet(selected_cpus)
On(s) == {v \in available_cpus : socketOf[v] = s}
Siblings(v) == {w \in Vcpus \ {v} : socketOf[w] = socketOf[v] /\ coreOf[w] = coreOf[v]}

\* cpu.py:253-287: the selection has as many CPUs as were asked for, or all
\* that the mode can offer, and only CPUs of the affinity mask; with SMT
\* disabled no two of one core, though its hyperthreads are in blocks far
\* apart.
SelectsEnough ==
  phase = "done" =>
    /\ Chosen \subseteq available_cpus
    /\ LET offered == IF mode = "DISABLE"
                      THEN Cardinality({<<socketOf[v], coreOf[v]>> : v \in available_cpus})
                      ELSE Cardinality(available_cpus)
       IN  /\ Cardinality(Chosen) >= Least(num_cpus, offered)
           /\ mode # "BALANCED" => Cardinality(Chosen) <= num_cpus
    /\ mode = "DISABLE" => \A v \in Chosen : Siblings(v) \cap Chosen = {}

\* cpu.py:204-219: skewed scheduling uses a socket only when every CPU of the
\* sockets before it is used.
Socket0First ==
  phase = "done" /\ mode = "SKEWED" =>
    \A v \in Chosen : \A s \in SocketIds : s < socketOf[v] => On(s) \subseteq Chosen

\* The available CPUs of core c of socket s.
Row(s, c) == {v \in available_cpus : socketOf[v] = s /\ coreOf[v] = c}

\* cpu.py:221-251: when the sockets have the same cores, balanced scheduling
\* takes the same of each but for one core, also while it goes on.
EvenAcrossSockets ==
  mode = "BALANCED" /\ phase \in {"balance", "done"}
  /\ (\A v \in available_cpus, s \in SocketIds :
        Cardinality(Row(s, coreOf[v])) = Cardinality(Row(socketOf[v], coreOf[v])))
  => \A s, t \in SocketIds : \E v \in available_cpus :
       Cardinality(Chosen \cap On(s)) - Cardinality(Chosen \cap On(t))
         <= Cardinality(Row(socketOf[v], coreOf[v]))

\* cpu.py:165-287: the CPUs selected are enough and where the mode says: on no two
\* hyperthreads of a core, on few sockets, or on all.
SelectedAsAsked == SelectsEnough /\ Socket0First /\ EvenAcrossSockets

\* cpu.py:253: the selection returns; without MayHideSocket, that is when cpuinfo
\* describes every CPU and those available are on the sockets from 0 up.
Termination == <>(phase = "done")
=============================================================================

------------------------- MODULE CpuSelectionProofs -------------------------
(***************************************************************************)
(* CpuSelection for every machine, affinity mask and request: the variables*)
(* are of their types and no CPU is selected twice; unless a socket is     *)
(* hidden, the CPUs selected are enough and where the mode says.           *)
(***************************************************************************)
EXTENDS CpuSelection, FiniteSetTheorems, SequenceTheorems, TLAPS

\* The CPUs of the blocks read so far that are used.
ReadSoFar == (described \cap available_cpus) \ blocks

\* The dictionaries hold the CPUs read, each once, under its socket and core.
EntriesInv ==
  /\ \A i, j \in DOMAIN cpu_info :
       cpu_info[i].socket = cpu_info[j].socket /\ cpu_info[i].core = cpu_info[j].core => i = j
  /\ \A i \in DOMAIN cpu_info :
       /\ Len(cpu_info[i].vcpus) > 0
       /\ \A k, l \in 1..Len(cpu_info[i].vcpus) :
            cpu_info[i].vcpus[k] = cpu_info[i].vcpus[l] => k = l
       /\ \A k \in 1..Len(cpu_info[i].vcpus) :
            /\ cpu_info[i].vcpus[k] \in ReadSoFar
            /\ socketOf[cpu_info[i].vcpus[k]] = cpu_info[i].socket
            /\ coreOf[cpu_info[i].vcpus[k]] = cpu_info[i].core
  /\ \A v \in ReadSoFar : \E i \in DOMAIN cpu_info :
       \E k \in 1..Len(cpu_info[i].vcpus) : cpu_info[i].vcpus[k] = v

MachineInv ==
  /\ available_cpus # {}
  /\ ~MayHideSocket =>
       /\ described = Vcpus
       /\ \A v \in available_cpus : \A s \in 0..socketOf[v] :
            \E w \in available_cpus : socketOf[w] = s

PhaseInv ==
  /\ phase # "read" => blocks = {}
  /\ phase \in {"read", "select"} => selected_cpus = << >>
  /\ phase = "list" => mode \in {"DISABLE", "SKEWED"}
  /\ phase = "balance" => mode = "BALANCED" /\ (socket_id = 0 \/ socket_id < GetSocketsCount)

\* The entries that the loop over sockets and cores is past.
Listed(i) ==
  \/ cpu_info[i].socket < socket_id
  \/ cpu_info[i].socket = socket_id /\ i < at

\* The list is that of the entries passed, socket by socket.
ListInv ==
  phase = "list" =>
    /\ \A n \in 1..Len(selected_cpus) : \E i \in DOMAIN cpu_info :
         Listed(i) /\ \E k \in 1..Len(OfCore(i)) : selected_cpus[n] = OfCore(i)[k]
    /\ \A i \in DOMAIN cpu_info : Listed(i) =>
         \A k \in 1..Len(OfCore(i)) : \E n \in 1..Len(selected_cpus) : selected_cpus[n] = OfCore(i)[k]
    /\ \A m, n \in 1..Len(selected_cpus) :
         m < n => socketOf[selected_cpus[m]] <= socketOf[selected_cpus[n]]

\* The CPUs that balanced scheduling is past.
Passed(v) ==
  /\ socketOf[v] < GetSocketsCount
  /\ coreOf[v] < core_id \/ (coreOf[v] = core_id /\ socketOf[v] < socket_id)

BalanceInv ==
  mode = "BALANCED" /\ phase \in {"balance", "done"} =>
    Chosen = {v \in ReadSoFar : Passed(v)}

DoneInv ==
  /\ phase = "done" => Chosen \subseteq available_cpus
  /\ ~MayHideSocket => SelectsEnough /\ Socket0First

IInv == TypeOK /\ EntriesInv /\ MachineInv /\ PhaseInv /\ ListInv /\ BalanceInv /\ DoneInv

-----------------------------------------------------------------------------
(***************************************************************************)
(* Sequences without repetitions, and their cardinalities.                 *)
(***************************************************************************)
LEMMA Indices ==
  ASSUME NEW n \in Nat
  PROVE  /\ IsFiniteSet(1..n) /\ Cardinality(1..n) = n
         /\ \A S : \A f \in [1..n -> S] : f \in Seq(S)
BY FS_Interval, SeqDef

LEMMA ChosenCounted ==
  ASSUME NEW S, NEW s \in Seq(S),
         \A i, j \in DOMAIN s : s[i] = s[j] => i = j
  PROVE  /\ IsFiniteSet(ToSet(s)) /\ Cardinality(ToSet(s)) = Len(s)
         /\ ToSet(s) \subseteq S
<1>1. DOMAIN s = 1..Len(s) /\ Len(s) \in Nat
  OBVIOUS
<1>2. s \in Bijection(1..Len(s), ToSet(s))
  BY <1>1 DEF ToSet, Bijection, Injection, Surjection, IsInjective
<1>3. IsFiniteSet(1..Len(s)) /\ Cardinality(1..Len(s)) = Len(s)
  BY <1>1, Indices
<1>4. ExistsBijection(1..Len(s), ToSet(s))
  BY <1>2 DEF ExistsBijection
<1> QED BY <1>3, <1>4, <1>1, FS_Bijection DEF ToSet

(***************************************************************************)
(* Two lists without repetitions, of different CPUs, one after the other.  *)
(***************************************************************************)
LEMMA ConcatDistinct ==
  ASSUME NEW S, NEW s \in Seq(S), NEW t \in Seq(S),
         \A i, j \in DOMAIN s : s[i] = s[j] => i = j,
         \A i, j \in DOMAIN t : t[i] = t[j] => i = j,
         \A i \in DOMAIN s, j \in DOMAIN t : s[i] # t[j]
  PROVE  /\ s \o t \in Seq(S)
         /\ \A i, j \in DOMAIN (s \o t) : (s \o t)[i] = (s \o t)[j] => i = j
         /\ ToSet(s \o t) = ToSet(s) \cup ToSet(t)
<1>1. /\ DOMAIN s = 1..Len(s) /\ Len(s) \in Nat /\ DOMAIN t = 1..Len(t) /\ Len(t) \in Nat
      /\ s \o t \in Seq(S) /\ Len(s \o t) = Len(s) + Len(t) /\ DOMAIN (s \o t) = 1..(Len(s) + Len(t))
      /\ \A i \in 1..(Len(s) + Len(t)) : (s \o t)[i] = IF i <= Len(s) THEN s[i] ELSE t[i - Len(s)]
  OBVIOUS
<1>2. ASSUME NEW i \in 1..(Len(s) + Len(t)), NEW j \in 1..(Len(s) + Len(t)),
             (s \o t)[i] = (s \o t)[j]
      PROVE  i = j
  <2>1. CASE i <= Len(s) /\ j <= Len(s)
    BY <1>1, <1>2, <2>1
  <2>2. CASE i <= Len(s) /\ ~(j <= Len(s))
    <3>1. i \in DOMAIN s /\ j - Len(s) \in DOMAIN t
      BY <1>1, <2>2
    <3> QED BY <1>1, <1>2, <2>2, <3>1
  <2>3. CASE ~(i <= Len(s)) /\ j <= Len(s)
    <3>1. j \in DOMAIN s /\ i - Len(s) \in DOMAIN t
      BY <1>1, <2>3
    <3> QED BY <1>1, <1>2, <2>3, <3>1
  <2>4. CASE ~(i <= Len(s)) /\ ~(j <= Len(s))
    <3>1. j - Len(s) \in DOMAIN t /\ i - Len(s) \in DOMAIN t
      BY <1>1, <2>4
    <3>2. t[i - Len(s)] = t[j - Len(s)]
      BY <1>1, <1>2, <2>4
    <3>3. i - Len(s) = j - Len(s)
      BY <3>1, <3>2
    <3> QED BY <3>3, <1>1
  <2> QED BY <2>1, <2>2, <2>3, <2>4
<1>3. ToSet(s \o t) = ToSet(s) \cup ToSet(t)
  <2>1. ToSet(s \o t) \subseteq ToSet(s) \cup ToSet(t)
    <3> SUFFICES ASSUME NEW i \in 1..(Len(s) + Len(t))
                 PROVE  (s \o t)[i] \in ToSet(s) \cup ToSet(t)
      BY <1>1 DEF ToSet
    <3>1. CASE i <= Len(s)
      BY <3>1, <1>1 DEF ToSet
    <3>2. CASE ~(i <= Len(s))
      <4>1. i - Len(s) \in DOMAIN t
        BY <3>2, <1>1
      <4> QED BY <4>1, <3>2, <1>1 DEF ToSet
    <3> QED BY <3>1, <3>2
  <2>2. ASSUME NEW i \in DOMAIN s PROVE s[i] \in ToSet(s \o t)
    <3>1. i \in DOMAIN (s \o t) /\ (s \o t)[i] = s[i]
      BY <1>1
    <3> QED BY <3>1 DEF ToSet
  <2>3. ASSUME NEW i \in DOMAIN t PROVE t[i] \in ToSet(s \o t)
    <3>1. i + Len(s) \in DOMAIN (s \o t) /\ (s \o t)[i + Len(s)] = t[i]
      BY <1>1
    <3> QED BY <3>1 DEF ToSet
  <2> QED BY <2>1, <2>2, <2>3 DEF ToSet
<1> QED BY <1>1, <1>2, <1>3

(***************************************************************************)
(* What Return makes of a list without repetitions.                        *)
(***************************************************************************)
LEMMA ReturnKeeps ==
  ASSUME NEW S, NEW s \in Seq(S),
         \A i, j \in DOMAIN s : s[i] = s[j] => i = j,
         Return(s)
  PROVE  /\ selected_cpus' \in Seq(S)
         /\ \A i, j \in DOMAIN selected_cpus' : selected_cpus'[i] = selected_cpus'[j] => i = j
         /\ ToSet(selected_cpus') = ToSet(s)
<1>1. PICK order \in Bijection(DOMAIN s, DOMAIN s) :
        selected_cpus' = [i \in DOMAIN s |-> s[order[i]]]
  BY DEF Return
<1>2. DOMAIN s = 1..Len(s) /\ Len(s) \in Nat /\ \A i \in DOMAIN s : s[i] \in S
  OBVIOUS
<1>3. /\ order \in [DOMAIN s -> DOMAIN s]
      /\ \A i, j \in DOMAIN s : order[i] = order[j] => i = j
      /\ \A j \in DOMAIN s : \E i \in DOMAIN s : order[i] = j
  BY <1>1 DEF Bijection, Injection, Surjection, IsInjective
<1>4. selected_cpus' \in [1..Len(s) -> S]
  BY <1>1, <1>2, <1>3
<1>5. selected_cpus' \in Seq(S)
  BY <1>4, <1>2, SeqDef
<1>6. DOMAIN selected_cpus' = DOMAIN s
  BY <1>1
<1>7. ASSUME NEW i \in DOMAIN s, NEW j \in DOMAIN s, selected_cpus'[i] = selected_cpus'[j]
      PROVE  i = j
  BY <1>1, <1>3, <1>7
<1>8. ToSet(selected_cpus') = ToSet(s)
  <2>1. ASSUME NEW j \in DOMAIN s PROVE s[j] \in ToSet(selected_cpus')
    <3>1. PICK i \in DOMAIN s : order[i] = j
      BY <1>3
    <3>2. selected_cpus'[i] = s[j]
      BY <1>1, <3>1
    <3> QED BY <3>2, <1>6 DEF ToSet
  <2>2. ASSUME NEW i \in DOMAIN s PROVE selected_cpus'[i] \in ToSet(s)
    BY <1>1, <1>3 DEF ToSet
  <2> QED BY <2>1, <2>2, <1>6 DEF ToSet
<1> QED BY <1>5, <1>6, <1>7, <1>8

(***************************************************************************)
(* list[: n] is the first min(n, len) elements.                            *)
(***************************************************************************)
LEMMA UptoKeeps ==
  ASSUME NEW S, NEW s \in Seq(S), NEW n \in Nat,
         \A i, j \in DOMAIN s : s[i] = s[j] => i = j
  PROVE  /\ Upto(n, s) \in Seq(S)
         /\ Len(Upto(n, s)) = Least(n, Len(s))
         /\ DOMAIN Upto(n, s) = 1..Least(n, Len(s))
         /\ \A i \in 1..Least(n, Len(s)) : Upto(n, s)[i] = s[i] /\ i \in DOMAIN s
         /\ \A i, j \in DOMAIN Upto(n, s) : Upto(n, s)[i] = Upto(n, s)[j] => i = j
<1> DEFINE k == Least(n, Len(s))
<1>1. k \in 0..Len(s) /\ Upto(n, s) = SubSeq(s, 1, k)
  BY DEF Least, Upto
<1> HIDE DEF k
<1>2. /\ SubSeq(s, 1, k) \in Seq(S) /\ Len(SubSeq(s, 1, k)) = k
      /\ \A i \in 1..k : SubSeq(s, 1, k)[i] = s[i] /\ i \in DOMAIN s
  BY <1>1
<1>3. DOMAIN SubSeq(s, 1, k) = 1..k
  BY <1>2
<1>4. \A i, j \in 1..k : SubSeq(s, 1, k)[i] = SubSeq(s, 1, k)[j] => i = j
  BY <1>2
<1>5. Least(n, Len(s)) = k
  BY DEF k
<1> QED BY <1>1, <1>2, <1>3, <1>4, <1>5

-----------------------------------------------------------------------------
(***************************************************************************)
(* Reading cpuinfo.                                                        *)
(***************************************************************************)
LEMMA NewCore ==
  ASSUME TypeOK, EntriesInv, NEW v \in blocks, v \in described \cap available_cpus,
         \A i \in DOMAIN cpu_info :
           ~(cpu_info[i].socket = socketOf[v] /\ cpu_info[i].core = coreOf[v]),
         cpu_info' = Append(cpu_info, [socket |-> socketOf[v], core |-> coreOf[v], vcpus |-> <<v>>]),
         blocks' = blocks \ {v}, UNCHANGED machine
  PROVE  cpu_info' \in Seq(Entry) /\ EntriesInv'
<1> DEFINE e == [socket |-> socketOf[v], core |-> coreOf[v], vcpus |-> <<v>>]
           n == Len(cpu_info)
<1>1. v \in Vcpus /\ cpu_info \in Seq(Entry) /\ n \in Nat /\ DOMAIN cpu_info = 1..n
  BY DEF TypeOK
<1>2. e \in Entry /\ e.socket = socketOf[v] /\ e.core = coreOf[v] /\ e.vcpus = <<v>>
  BY <1>1 DEF TypeOK, Entry
<1>3. /\ cpu_info' \in Seq(Entry) /\ DOMAIN cpu_info' = 1..(n + 1)
      /\ cpu_info'[n + 1] = e /\ \A i \in 1..n : cpu_info'[i] = cpu_info[i]
  BY <1>1, <1>2
<1> HIDE DEF e, n
<1>4. /\ ReadSoFar' = ReadSoFar \cup {v} /\ v \notin ReadSoFar
      /\ socketOf' = socketOf /\ coreOf' = coreOf
  BY DEF ReadSoFar, machine
<1>5. \A i \in DOMAIN cpu_info' : i \in 1..n \/ i = n + 1
  BY <1>1, <1>3
<1>6. \A i, j \in DOMAIN cpu_info' :
        cpu_info'[i].socket = cpu_info'[j].socket /\ cpu_info'[i].core = cpu_info'[j].core => i = j
  BY <1>1, <1>2, <1>3, <1>5 DEF EntriesInv
<1>7. ASSUME NEW i \in DOMAIN cpu_info'
      PROVE  /\ Len(cpu_info'[i].vcpus) > 0
             /\ \A k, l \in 1..Len(cpu_info'[i].vcpus) :
                  cpu_info'[i].vcpus[k] = cpu_info'[i].vcpus[l] => k = l
             /\ \A k \in 1..Len(cpu_info'[i].vcpus) :
                  /\ cpu_info'[i].vcpus[k] \in ReadSoFar'
                  /\ socketOf'[cpu_info'[i].vcpus[k]] = cpu_info'[i].socket
                  /\ coreOf'[cpu_info'[i].vcpus[k]] = cpu_info'[i].core
  <2>1. CASE i \in 1..n
    BY <2>1, <1>1, <1>3, <1>4 DEF EntriesInv
  <2>2. CASE i = n + 1
    BY <2>2, <1>2, <1>3, <1>4
  <2> QED BY <2>1, <2>2, <1>5
<1>8. ASSUME NEW w \in ReadSoFar'
      PROVE  \E i \in DOMAIN cpu_info' :
               \E k \in 1..Len(cpu_info'[i].vcpus) : cpu_info'[i].vcpus[k] = w
  <2>1. CASE w = v
    <3>1. n + 1 \in DOMAIN cpu_info' /\ cpu_info'[n + 1].vcpus = <<v>>
      BY <1>1, <1>2, <1>3
    <3> QED BY <3>1, <2>1
  <2>2. CASE w \in ReadSoFar
    <3>1. PICK i \in DOMAIN cpu_info : \E k \in 1..Len(cpu_info[i].vcpus) : cpu_info[i].vcpus[k] = w
      BY <2>2 DEF EntriesInv
    <3>2. i \in DOMAIN cpu_info' /\ cpu_info'[i] = cpu_info[i]
      BY <1>1, <1>3, <3>1
    <3> QED BY <3>1, <3>2
  <2> QED BY <2>1, <2>2, <1>4
<1> QED BY <1>3, <1>6, <1>7, <1>8 DEF EntriesInv

LEMMA KnownCore ==
  ASSUME TypeOK, EntriesInv, NEW v \in blocks, v \in described \cap available_cpus,
         NEW m \in DOMAIN cpu_info,
         cpu_info[m].socket = socketOf[v] /\ cpu_info[m].core = coreOf[v],
         cpu_info' = [i \in DOMAIN cpu_info |->
           IF i = m THEN [cpu_info[i] EXCEPT !.vcpus = Append(@, v)] ELSE cpu_info[i]],
         blocks' = blocks \ {v}, UNCHANGED machine
  PROVE  cpu_info' \in Seq(Entry) /\ EntriesInv'
<1>1. v \in Vcpus /\ cpu_info \in Seq(Entry) /\ DOMAIN cpu_info = 1..Len(cpu_info) /\ Len(cpu_info) \in Nat
  BY DEF TypeOK
<1>2. cpu_info[m] \in Entry
  BY <1>1
<1> PICK s \in Seq(Vcpus) : s = cpu_info[m].vcpus
  BY <1>2 DEF Entry
<1> PICK n \in Nat : n = Len(s)
  OBVIOUS
<1>2a. Append(s, v) \in Seq(Vcpus)
  BY <1>1
<1>3. PICK t \in Seq(Vcpus) : t = Append(s, v)
  BY <1>2a
<1>4. /\ DOMAIN cpu_info' = DOMAIN cpu_info
      /\ \A i \in DOMAIN cpu_info : i # m => cpu_info'[i] = cpu_info[i]
      /\ cpu_info'[m] = [cpu_info[m] EXCEPT !.vcpus = t]
  BY <1>3
<1>5. /\ cpu_info'[m].socket = cpu_info[m].socket /\ cpu_info'[m].core = cpu_info[m].core
      /\ cpu_info'[m].vcpus = t /\ cpu_info'[m] \in Entry
  BY <1>2, <1>3, <1>4 DEF Entry
<1>3a. /\ Len(t) = n + 1 /\ t[n + 1] = v /\ \A k \in 1..n : t[k] = s[k]
  BY <1>1, <1>3
<1>6. cpu_info' \in Seq(Entry)
  <2>1. \A i \in 1..Len(cpu_info) : cpu_info[i] \in Entry
    BY <1>1
  <2>2. \A i \in 1..Len(cpu_info) : cpu_info'[i] \in Entry
    BY <2>1, <1>1, <1>4, <1>5
  <2>3. cpu_info' = [i \in 1..Len(cpu_info) |-> cpu_info'[i]]
    BY <1>1
  <2>4. cpu_info' \in [1..Len(cpu_info) -> Entry]
    BY <2>2, <2>3
  <2>5. Len(cpu_info) \in Nat
    BY <1>1
  <2> QED BY <2>4, <2>5, Indices, Zenon
<1>7. /\ ReadSoFar' = ReadSoFar \cup {v} /\ v \notin ReadSoFar
      /\ socketOf' = socketOf /\ coreOf' = coreOf
  BY DEF ReadSoFar, machine
<1>8. \A i \in DOMAIN cpu_info : cpu_info'[i].socket = cpu_info[i].socket /\ cpu_info'[i].core = cpu_info[i].core
  BY <1>4, <1>5
<1>9. ASSUME NEW i \in DOMAIN cpu_info'
      PROVE  /\ Len(cpu_info'[i].vcpus) > 0
             /\ \A k, l \in 1..Len(cpu_info'[i].vcpus) :
                  cpu_info'[i].vcpus[k] = cpu_info'[i].vcpus[l] => k = l
             /\ \A k \in 1..Len(cpu_info'[i].vcpus) :
                  /\ cpu_info'[i].vcpus[k] \in ReadSoFar'
                  /\ socketOf'[cpu_info'[i].vcpus[k]] = cpu_info'[i].socket
                  /\ coreOf'[cpu_info'[i].vcpus[k]] = cpu_info'[i].core
  <2>1. CASE i # m
    BY <2>1, <1>4, <1>7 DEF EntriesInv
  <2>2. CASE i = m
    <3>1. \A k \in 1..(n + 1) : k \in 1..n \/ k = n + 1
      BY <1>2
    <3>2. \A k \in 1..n : /\ s[k] \in ReadSoFar /\ socketOf[s[k]] = cpu_info[m].socket
                          /\ coreOf[s[k]] = cpu_info[m].core
                          /\ \A l \in 1..n : s[k] = s[l] => k = l
      BY DEF EntriesInv
    <3>3. \A k \in 1..(n + 1) : t[k] \in ReadSoFar' /\ socketOf[t[k]] = cpu_info[m].socket
            /\ coreOf[t[k]] = cpu_info[m].core
      BY <3>1, <3>2, <1>3a, <1>7
    <3>4. \A k, l \in 1..(n + 1) : t[k] = t[l] => k = l
      BY <3>1, <3>2, <1>3a, <1>7
    <3>5. cpu_info'[i].vcpus = t /\ cpu_info'[i].socket = cpu_info[m].socket /\ cpu_info'[i].core = cpu_info[m].core
      BY <2>2, <1>5
    <3>6. Len(t) = n + 1 /\ n + 1 > 0
      BY <1>3a
    <3> HIDE <2>2
    <3>7. \A k \in 1..Len(t) : t[k] \in ReadSoFar' /\ socketOf'[t[k]] = cpu_info'[i].socket
            /\ coreOf'[t[k]] = cpu_info'[i].core
      BY <3>3, <3>5, <3>6, <1>7
    <3>8. \A k, l \in 1..Len(t) : t[k] = t[l] => k = l
      BY <3>4, <3>6
    <3>9. Len(t) > 0
      BY <3>6
    <3>10. \A k \in 1..Len(cpu_info'[i].vcpus) :
             /\ cpu_info'[i].vcpus[k] \in ReadSoFar'
             /\ socketOf'[cpu_info'[i].vcpus[k]] = cpu_info'[i].socket
             /\ coreOf'[cpu_info'[i].vcpus[k]] = cpu_info'[i].core
      BY <3>5, <3>7
    <3>11. \A k, l \in 1..Len(cpu_info'[i].vcpus) :
             cpu_info'[i].vcpus[k] = cpu_info'[i].vcpus[l] => k = l
      BY <3>5, <3>8
    <3>12. Len(cpu_info'[i].vcpus) > 0
      BY <3>5, <3>9
    <3> QED BY <3>10, <3>11, <3>12, Zenon
  <2> QED BY <2>1, <2>2
<1>10. ASSUME NEW w \in ReadSoFar'
      PROVE  \E i \in DOMAIN cpu_info' :
               \E k \in 1..Len(cpu_info'[i].vcpus) : cpu_info'[i].vcpus[k] = w
  <2>1. CASE w = v
    <3>1. n + 1 \in 1..Len(cpu_info'[m].vcpus) /\ cpu_info'[m].vcpus[n + 1] = w
      BY <1>2, <1>3a, <1>5, <2>1
    <3> QED BY <3>1, <1>4
  <2>2. CASE w \in ReadSoFar
    <3>1. PICK i \in DOMAIN cpu_info : \E k \in 1..Len(cpu_info[i].vcpus) : cpu_info[i].vcpus[k] = w
      BY <2>2 DEF EntriesInv
    <3>2. CASE i # m
      BY <3>1, <3>2, <1>4
    <3>3. CASE i = m
      <4>1. PICK k \in 1..n : s[k] = w
        BY <3>1, <3>3
      <4>2. k \in 1..Len(cpu_info'[m].vcpus) /\ cpu_info'[m].vcpus[k] = w
        BY <4>1, <1>2, <1>3a, <1>5
      <4> QED BY <4>2, <1>4
    <3> QED BY <3>2, <3>3
  <2> QED BY <2>1, <2>2, <1>7
<1>11. \A i, j \in DOMAIN cpu_info' :
         cpu_info'[i].socket = cpu_info'[j].socket /\ cpu_info'[i].core = cpu_info'[j].core => i = j
  BY <1>4, <1>8 DEF EntriesInv
<1> QED BY <1>6, <1>9, <1>10, <1>11 DEF EntriesInv

LEMMA AddCoreStep ==
  ASSUME IInv, _AddCore
  PROVE  IInv'
<1> USE DEF IInv
<1>1. PICK v \in blocks : /\ blocks' = blocks \ {v}
        /\ cpu_info' = IF v \in described \cap available_cpus
                       THEN Added(cpu_info, v) ELSE cpu_info
  BY DEF _AddCore
<1>2. /\ UNCHANGED machine /\ UNCHANGED <<num_cpus, core_id, socket_id, at, selected_cpus, phase>>
      /\ phase = "read"
  BY DEF _AddCore
<1>3. cpu_info' \in Seq(Entry) /\ EntriesInv'
  <2>1. CASE v \notin described \cap available_cpus
    <3>1. ReadSoFar' = ReadSoFar /\ cpu_info' = cpu_info /\ socketOf' = socketOf /\ coreOf' = coreOf
      BY <2>1, <1>1, <1>2 DEF ReadSoFar, machine
    <3> QED BY <3>1 DEF EntriesInv, TypeOK
  <2>2. CASE v \in described \cap available_cpus
    <3> DEFINE known == {i \in DOMAIN cpu_info :
                           cpu_info[i].socket = socketOf[v] /\ cpu_info[i].core = coreOf[v]}
    <3>1. CASE known = {}
      <4>1. cpu_info' = Append(cpu_info, [socket |-> socketOf[v], core |-> coreOf[v], vcpus |-> <<v>>])
        BY <1>1, <2>2, <3>1 DEF Added
      <4> QED BY <4>1, <3>1, <2>2, <1>1, <1>2, NewCore
    <3>2. CASE known # {}
      <4>1. PICK m \in known : TRUE
        BY <3>2
      <4>2. \A i \in DOMAIN cpu_info : i \in known <=> i = m
        BY <4>1 DEF EntriesInv
      <4>3. cpu_info' = [i \in DOMAIN cpu_info |->
              IF i \in known THEN [cpu_info[i] EXCEPT !.vcpus = Append(@, v)] ELSE cpu_info[i]]
        BY <1>1, <2>2, <3>2 DEF Added
      <4>4. cpu_info' = [i \in DOMAIN cpu_info |->
              IF i = m THEN [cpu_info[i] EXCEPT !.vcpus = Append(@, v)] ELSE cpu_info[i]]
        BY <4>2, <4>3
      <4> QED BY <4>1, <4>4, <2>2, <1>1, <1>2, KnownCore
    <3> QED BY <3>1, <3>2
  <2> QED BY <2>1, <2>2
<1>4. TypeOK'
  BY <1>1, <1>2, <1>3 DEF TypeOK, machine, Entry
<1>5. MachineInv' /\ PhaseInv' /\ ListInv' /\ BalanceInv'
  BY <1>2 DEF MachineInv, PhaseInv, ListInv, BalanceInv, machine
<1>6. DoneInv'
  BY <1>2 DEF DoneInv, SelectsEnough, Socket0First
<1> QED BY <1>3, <1>4, <1>5, <1>6

-----------------------------------------------------------------------------
(***************************************************************************)
(* When no socket is hidden, all are below GetSocketsCount.                *)
(***************************************************************************)
LEMMA SocketsCount ==
  ASSUME TypeOK
  PROVE  /\ GetSocketsCount \in Nat
         /\ IsFiniteSet({cpu_info[i].socket : i \in DOMAIN cpu_info})
<1> DEFINE T == {cpu_info[i].socket : i \in DOMAIN cpu_info}
           f == [i \in DOMAIN cpu_info |-> cpu_info[i].socket]
<1>1. DOMAIN cpu_info = 1..Len(cpu_info) /\ Len(cpu_info) \in Nat
  BY DEF TypeOK
<1>2. f \in Surjection(DOMAIN cpu_info, T)
  BY DEF Surjection
<1>3. IsFiniteSet(DOMAIN cpu_info)
  BY <1>1, FS_Interval
<1>4. IsFiniteSet(T)
  BY <1>2, <1>3, FS_Surjection
<1> QED BY <1>4, FS_CardinalityType DEF GetSocketsCount

LEMMA SocketsBelowCount ==
  ASSUME TypeOK, EntriesInv, MachineInv, ~MayHideSocket, blocks = {}
  PROVE  /\ ReadSoFar = available_cpus
         /\ \A v \in available_cpus : socketOf[v] < GetSocketsCount
         /\ \A i \in DOMAIN cpu_info : cpu_info[i].socket < GetSocketsCount
<1> DEFINE T == {cpu_info[i].socket : i \in DOMAIN cpu_info}
<1>1. ReadSoFar = available_cpus
  BY DEF ReadSoFar, MachineInv, TypeOK
<1>2. \A v \in available_cpus : socketOf[v] \in T
  <2> SUFFICES ASSUME NEW v \in available_cpus PROVE socketOf[v] \in T
    OBVIOUS
  <2>1. PICK i \in DOMAIN cpu_info :
          \E k \in 1..Len(cpu_info[i].vcpus) : cpu_info[i].vcpus[k] = v
    BY <1>1 DEF EntriesInv
  <2>2. cpu_info[i].socket = socketOf[v]
    BY <2>1 DEF EntriesInv
  <2> QED BY <2>2
<1>3. ASSUME NEW v \in available_cpus PROVE socketOf[v] < GetSocketsCount
  <2>1. socketOf[v] \in Nat
    BY CpuAssumption DEF TypeOK
  <2>2. ASSUME NEW s \in 0..socketOf[v] PROVE s \in T
    <3>1. PICK w \in available_cpus : socketOf[w] = s
      BY DEF MachineInv
    <3> QED BY <3>1, <1>2
  <2>3. (0..socketOf[v]) \in SUBSET T
    BY <2>2
  <2>4. Cardinality(0..socketOf[v]) = socketOf[v] + 1
    BY <2>1, FS_Interval
  <2>5. IsFiniteSet(T) /\ Cardinality(T) \in Nat
    BY SocketsCount, FS_CardinalityType
  <2>6. Cardinality(0..socketOf[v]) <= Cardinality(T)
    BY <2>3, <2>5, FS_Subset
  <2> QED BY <2>1, <2>4, <2>5, <2>6 DEF GetSocketsCount
<1>4. ASSUME NEW i \in DOMAIN cpu_info PROVE cpu_info[i].socket < GetSocketsCount
  <2>1. 1 \in 1..Len(cpu_info[i].vcpus)
    <3>1. cpu_info[i] \in Entry
      BY DEF TypeOK
    <3>2. Len(cpu_info[i].vcpus) \in Nat
      BY <3>1 DEF Entry
    <3> QED BY <3>2 DEF EntriesInv
  <2>2. /\ cpu_info[i].vcpus[1] \in available_cpus
        /\ socketOf[cpu_info[i].vcpus[1]] = cpu_info[i].socket
    BY <2>1, <1>1 DEF EntriesInv
  <2> QED BY <2>2, <1>3
<1> QED BY <1>1, <1>3, <1>4

(***************************************************************************)
(* The steps after the file is read leave the machine and the dictionaries.*)
(***************************************************************************)
LEMMA ReadKept ==
  ASSUME EntriesInv, MachineInv, UNCHANGED <<machine, blocks, cpu_info>>
  PROVE  /\ EntriesInv' /\ MachineInv'
         /\ ReadSoFar' = ReadSoFar /\ GetSocketsCount' = GetSocketsCount
BY DEF EntriesInv, MachineInv, ReadSoFar, GetSocketsCount, machine

LEMMA EndOfFileStep ==
  ASSUME IInv, EndOfFile
  PROVE  IInv'
<1>1. /\ UNCHANGED <<machine, blocks, cpu_info, num_cpus, core_id, socket_id, at, selected_cpus>>
      /\ phase' = "select" /\ phase = "read" /\ blocks = {}
  BY DEF EndOfFile
<1>2. TypeOK' /\ PhaseInv'
  BY <1>1 DEF IInv, TypeOK, PhaseInv, machine, Entry
<1>3. ListInv' /\ BalanceInv' /\ DoneInv'
  BY <1>1 DEF ListInv, BalanceInv, DoneInv, SelectsEnough, Socket0First
<1> QED BY <1>1, <1>2, <1>3, ReadKept DEF IInv

LEMMA ListCoresStep ==
  ASSUME IInv, ListCores
  PROVE  IInv'
<1>1. /\ UNCHANGED <<machine, blocks, cpu_info, num_cpus, core_id>>
      /\ phase' = "list" /\ phase = "select" /\ mode \in {"DISABLE", "SKEWED"}
      /\ socket_id' = 0 /\ at' = 1 /\ selected_cpus' = << >>
  BY DEF ListCores
<1>2. TypeOK' /\ PhaseInv'
  BY <1>1 DEF IInv, TypeOK, PhaseInv, machine, Entry
<1>3. BalanceInv' /\ DoneInv'
  BY <1>1 DEF BalanceInv, DoneInv, SelectsEnough, Socket0First
<1>4. ListInv'
  <2>1. Len(selected_cpus') = 0
    BY <1>1
  <2>2. \A i \in DOMAIN cpu_info : ~Listed(i)'
    <3> SUFFICES ASSUME NEW i \in DOMAIN cpu_info PROVE ~Listed(i)'
      OBVIOUS
    <3>1. cpu_info[i] \in Entry /\ i \in Nat /\ i >= 1
      BY DEF IInv, TypeOK
    <3>2. cpu_info[i].socket \in Nat
      BY <3>1, CpuAssumption DEF Entry
    <3> QED BY <1>1, <3>1, <3>2 DEF Listed
  <2>3. DOMAIN cpu_info' = DOMAIN cpu_info
    BY <1>1
  <2> QED BY <2>1, <2>2, <2>3 DEF ListInv
<1> QED BY <1>1, <1>2, <1>3, <1>4, ReadKept DEF IInv

LEMMA BalancedStep ==
  ASSUME IInv, Balanced
  PROVE  IInv'
<1>1. /\ UNCHANGED <<machine, blocks, cpu_info, num_cpus, at>>
      /\ phase' = "balance" /\ phase = "select" /\ mode = "BALANCED"
      /\ socket_id' = 0 /\ core_id' = 0 /\ selected_cpus' = << >>
  BY DEF Balanced
<1>2. TypeOK' /\ PhaseInv'
  BY <1>1 DEF IInv, TypeOK, PhaseInv, machine, Entry
<1>3. ListInv' /\ DoneInv'
  BY <1>1 DEF ListInv, DoneInv, SelectsEnough, Socket0First
<1>4. BalanceInv'
  <2>1. Chosen' = {}
    BY <1>1 DEF Chosen, ToSet
  <2>2. \A v \in ReadSoFar' : ~Passed(v)'
    <3> SUFFICES ASSUME NEW v \in ReadSoFar' PROVE ~Passed(v)'
      OBVIOUS
    <3>1. v \in Vcpus /\ socketOf' = socketOf /\ coreOf' = coreOf
      BY <1>1 DEF ReadSoFar, IInv, TypeOK, machine
    <3>2. socketOf[v] \in Nat /\ coreOf[v] \in Nat
      BY <3>1, CpuAssumption DEF IInv, TypeOK
    <3> QED BY <1>1, <3>1, <3>2 DEF Passed
  <2> QED BY <2>1, <2>2 DEF BalanceInv
<1> QED BY <1>1, <1>2, <1>3, <1>4, ReadKept DEF IInv

LEMMA DynamicStep ==
  ASSUME IInv, Dynamic
  PROVE  IInv'
<1> DEFINE n == Least(num_cpus, Cardinality(available_cpus))
<1>1. /\ UNCHANGED <<machine, blocks, cpu_info, num_cpus, core_id, socket_id, at>>
      /\ phase' = "done" /\ phase = "select" /\ mode = "DYNAMIC"
      /\ selected_cpus' \in Injection(1..n, available_cpus)
  BY DEF Dynamic
<1>2. IsFiniteSet(available_cpus) /\ Cardinality(available_cpus) \in Nat /\ n \in Nat
      /\ available_cpus \subseteq Vcpus
  BY CpuAssumption, FS_Subset, FS_CardinalityType DEF IInv, TypeOK, Least
<1> HIDE DEF n
<1>3. /\ selected_cpus' \in [1..n -> available_cpus]
      /\ \A i, j \in 1..n : selected_cpus'[i] = selected_cpus'[j] => i = j
  BY <1>1 DEF Injection, IsInjective
<1>4. selected_cpus' \in Seq(available_cpus) /\ Len(selected_cpus') = n /\ DOMAIN selected_cpus' = 1..n
  BY <1>2, <1>3, SeqDef
<1>5. TypeOK' /\ PhaseInv'
  <2>1. selected_cpus' \in Seq(Vcpus)
    BY <1>2, <1>4, SeqMonotonic
  <2> QED BY <1>1, <1>3, <1>4, <2>1 DEF IInv, TypeOK, PhaseInv, machine, Entry
<1>6. ListInv' /\ BalanceInv'
  BY <1>1 DEF ListInv, BalanceInv, machine
<1>7. Cardinality(Chosen') = n /\ Chosen' \subseteq available_cpus
  BY <1>3, <1>4, ChosenCounted DEF Chosen
<1>8. DoneInv'
  <2>1. n >= Least(num_cpus, Cardinality(available_cpus)) /\ n <= num_cpus
    BY <1>2 DEF n, Least, IInv, TypeOK
  <2>2. available_cpus' = available_cpus /\ mode' = mode /\ num_cpus' = num_cpus
    BY <1>1 DEF machine
  <2>3. SelectsEnough'
    BY <1>1, <1>7, <2>1, <2>2 DEF SelectsEnough
  <2> QED BY <1>1, <1>7, <2>2, <2>3 DEF DoneInv, Socket0First
<1> QED BY <1>1, <1>5, <1>6, <1>8, ReadKept DEF IInv

-----------------------------------------------------------------------------
(***************************************************************************)
(* The lists of the modes "DISABLE" and "SKEWED".                          *)
(***************************************************************************)
LEMMA OfCoreType ==
  ASSUME TypeOK, EntriesInv, NEW i \in DOMAIN cpu_info
  PROVE  /\ i \in Nat /\ i >= 1 /\ cpu_info[i].socket \in Nat
         /\ OfCore(i) \in Seq(Vcpus) /\ Len(OfCore(i)) > 0
         /\ DOMAIN OfCore(i) = 1..Len(OfCore(i))
         /\ \A k, l \in 1..Len(OfCore(i)) : OfCore(i)[k] = OfCore(i)[l] => k = l
         /\ \A k \in 1..Len(OfCore(i)) :
              /\ OfCore(i)[k] \in ReadSoFar
              /\ socketOf[OfCore(i)[k]] = cpu_info[i].socket
              /\ coreOf[OfCore(i)[k]] = cpu_info[i].core
<1>1. i \in Nat /\ i >= 1 /\ cpu_info[i] \in Entry
  BY DEF TypeOK
<1>2. cpu_info[i].vcpus \in Seq(Vcpus) /\ Len(cpu_info[i].vcpus) \in Nat /\ cpu_info[i].socket \in Nat
  <2>1. cpu_info[i].vcpus \in Seq(Vcpus) /\ cpu_info[i].socket \in SocketIds
    BY <1>1 DEF Entry
  <2>2. Len(cpu_info[i].vcpus) \in Nat
    BY <2>1
  <2> QED BY <2>1, <2>2, CpuAssumption
<1>3. CASE mode # "DISABLE"
  <2>1. OfCore(i) = cpu_info[i].vcpus
    BY <1>3 DEF OfCore
  <2> QED BY <1>1, <1>2, <2>1 DEF EntriesInv
<1>4. CASE mode = "DISABLE"
  <2>1. OfCore(i) = <<cpu_info[i].vcpus[1]>>
    BY <1>4 DEF OfCore
  <2>2. 1 \in 1..Len(cpu_info[i].vcpus)
    BY <1>2 DEF EntriesInv
  <2>3. /\ cpu_info[i].vcpus[1] \in ReadSoFar
        /\ socketOf[cpu_info[i].vcpus[1]] = cpu_info[i].socket
        /\ coreOf[cpu_info[i].vcpus[1]] = cpu_info[i].core
    BY <2>2 DEF EntriesInv
  <2>4. PICK v \in Vcpus : v = cpu_info[i].vcpus[1]
    BY <1>2, <2>2
  <2>5. /\ <<v>> \in Seq(Vcpus) /\ Len(<<v>>) = 1 /\ DOMAIN <<v>> = 1..1 /\ <<v>>[1] = v
        /\ \A k \in 1..1 : k = 1
    OBVIOUS
  <2>6. OfCore(i) = <<v>>
    BY <2>1, <2>4
  <2>7. v \in ReadSoFar /\ socketOf[v] = cpu_info[i].socket /\ coreOf[v] = cpu_info[i].core
    BY <2>3, <2>4
  <2> HIDE <2>1, <2>3, <2>4, <1>4
  <2> QED BY <1>1, <1>2, <2>5, <2>6, <2>7
<1> QED BY <1>3, <1>4

(***************************************************************************)
(* A step of the loop leaves all but the list and where it is.             *)
(***************************************************************************)
LEMMA ListTypes ==
  ASSUME IInv, phase = "list",
         UNCHANGED <<machine, blocks, cpu_info, num_cpus, core_id, phase>>,
         socket_id' \in Nat, at' \in Nat \ {0}, selected_cpus' \in Seq(Vcpus),
         \A i, j \in DOMAIN selected_cpus' : selected_cpus'[i] = selected_cpus'[j] => i = j
  PROVE  TypeOK' /\ PhaseInv' /\ BalanceInv' /\ DoneInv'
<1>1. /\ phase' = "list" /\ mode' = mode /\ blocks' = blocks /\ num_cpus' = num_cpus
      /\ core_id' = core_id /\ cpu_info' = cpu_info
  BY DEF machine
<1>2. TypeOK'
  BY <1>1 DEF IInv, TypeOK, machine, Entry
<1>3. PhaseInv'
  BY <1>1 DEF IInv, PhaseInv
<1>4. BalanceInv'
  BY <1>1 DEF IInv, PhaseInv, BalanceInv
<1>5. DoneInv'
  BY <1>1 DEF DoneInv, SelectsEnough, Socket0First
<1> QED BY <1>2, <1>3, <1>4, <1>5

LEMMA ListSame ==
  ASSUME ListInv, phase = "list",
         UNCHANGED <<machine, blocks, cpu_info, num_cpus, core_id, phase>>,
         selected_cpus' = selected_cpus,
         \A i \in DOMAIN cpu_info : Listed(i)' <=> Listed(i)
  PROVE  ListInv'
<1>1. /\ \A i : OfCore(i)' = OfCore(i)
      /\ DOMAIN cpu_info' = DOMAIN cpu_info /\ socketOf' = socketOf
  BY DEF OfCore, machine
<1>2. \A n \in 1..Len(selected_cpus') : \E i \in DOMAIN cpu_info' :
         Listed(i)' /\ \E k \in 1..Len(OfCore(i)') : selected_cpus'[n] = OfCore(i)'[k]
  BY <1>1 DEF ListInv
<1>3. \A i \in DOMAIN cpu_info' : Listed(i)' =>
         \A k \in 1..Len(OfCore(i)') : \E n \in 1..Len(selected_cpus') : selected_cpus'[n] = OfCore(i)'[k]
  BY <1>1 DEF ListInv
<1>4. \A m, n \in 1..Len(selected_cpus') :
         m < n => socketOf'[selected_cpus'[m]] <= socketOf'[selected_cpus'[n]]
  BY <1>1 DEF ListInv
<1> QED BY <1>2, <1>3, <1>4 DEF ListInv

LEMMA ListCoreStep ==
  ASSUME IInv, ListCore
  PROVE  IInv'
<1>1. /\ UNCHANGED <<machine, blocks, cpu_info, num_cpus, core_id, socket_id, phase>>
      /\ phase = "list" /\ at \in DOMAIN cpu_info /\ at' = at + 1
      /\ selected_cpus' = IF cpu_info[at].socket = socket_id
                          THEN selected_cpus \o OfCore(at) ELSE selected_cpus
  BY DEF ListCore
<1>2. TypeOK /\ EntriesInv /\ MachineInv /\ PhaseInv /\ ListInv
  BY DEF IInv
<1>3. /\ \A i : OfCore(i)' = OfCore(i)
      /\ DOMAIN cpu_info' = DOMAIN cpu_info /\ socketOf' = socketOf
  BY <1>1 DEF OfCore, machine
<1>4. /\ at \in Nat /\ socket_id \in Nat /\ socket_id' \in Nat /\ at' \in Nat \ {0}
      /\ \A i \in DOMAIN cpu_info : i \in Nat /\ cpu_info[i].socket \in Nat
  <2>1. /\ at \in Nat /\ socket_id \in Nat /\ socket_id' \in Nat /\ at' \in Nat \ {0}
    BY <1>1, <1>2 DEF TypeOK
  <2> QED BY <2>1, <1>2, OfCoreType
<1>5. /\ selected_cpus \in Seq(Vcpus) /\ DOMAIN selected_cpus = 1..Len(selected_cpus)
      /\ Len(selected_cpus) \in Nat
      /\ \A i, j \in DOMAIN selected_cpus : selected_cpus[i] = selected_cpus[j] => i = j
  BY <1>2 DEF TypeOK
<1>6. CASE cpu_info[at].socket # socket_id
  <2>1. selected_cpus' = selected_cpus
    BY <1>1, <1>6
  <2>2. \A i \in DOMAIN cpu_info : Listed(i)' <=> Listed(i)
    BY <1>1, <1>4, <1>6 DEF Listed
  <2>3. TypeOK' /\ PhaseInv' /\ BalanceInv' /\ DoneInv'
    BY <1>1, <1>4, <1>5, <2>1, ListTypes
  <2>4. ListInv'
    BY <1>1, <1>2, <2>1, <2>2, ListSame
  <2> QED BY <1>1, <1>2, <2>3, <2>4, ReadKept DEF IInv
<1>7. CASE cpu_info[at].socket = socket_id
  <2>1. \A i \in DOMAIN cpu_info : Listed(i)' <=> Listed(i) \/ i = at
    BY <1>1, <1>4, <1>7 DEF Listed
  <2>2. ~Listed(at)
    BY <1>1, <1>4, <1>7 DEF Listed
  <2>3. PICK t \in Seq(Vcpus) : t = OfCore(at)
    BY <1>1, <1>2, OfCoreType
  <2>4. /\ DOMAIN t = 1..Len(t) /\ Len(t) \in Nat /\ selected_cpus' = selected_cpus \o t
        /\ \A k, l \in DOMAIN t : t[k] = t[l] => k = l
        /\ \A k \in 1..Len(t) : /\ socketOf[t[k]] = socket_id
                                /\ coreOf[t[k]] = cpu_info[at].core
    <3>1. DOMAIN t = 1..Len(t) /\ Len(t) \in Nat
      OBVIOUS
    <3>2. /\ \A k, l \in 1..Len(t) : t[k] = t[l] => k = l
          /\ \A k \in 1..Len(t) : /\ socketOf[t[k]] = cpu_info[at].socket
                                  /\ coreOf[t[k]] = cpu_info[at].core
      BY <1>1, <1>2, <2>3, OfCoreType
    <3>3. selected_cpus' = selected_cpus \o t
      BY <1>1, <1>7, <2>3
    <3> QED BY <3>1, <3>2, <3>3, <1>7
  <2>5. ASSUME NEW n \in 1..Len(selected_cpus)
        PROVE  /\ socketOf[selected_cpus[n]] <= socket_id
               /\ \A k \in 1..Len(t) : selected_cpus[n] # t[k]
    <3>1. PICK i \in DOMAIN cpu_info :
            Listed(i) /\ \E k \in 1..Len(OfCore(i)) : selected_cpus[n] = OfCore(i)[k]
      BY <1>1, <1>2 DEF ListInv
    <3>2. socketOf[selected_cpus[n]] = cpu_info[i].socket /\ coreOf[selected_cpus[n]] = cpu_info[i].core
      BY <1>2, <3>1, OfCoreType
    <3>3. cpu_info[i].socket <= socket_id
      BY <3>1, <1>4 DEF Listed
    <3>4. ~(cpu_info[i].socket = cpu_info[at].socket /\ cpu_info[i].core = cpu_info[at].core)
      BY <3>1, <2>2, <1>1, <1>2 DEF EntriesInv
    <3> QED BY <3>2, <3>3, <3>4, <2>4, <1>7
  <2>6. /\ selected_cpus' \in Seq(Vcpus)
        /\ \A i, j \in DOMAIN selected_cpus' : selected_cpus'[i] = selected_cpus'[j] => i = j
    BY <1>5, <2>4, <2>5, ConcatDistinct
  <2>7. /\ Len(selected_cpus') = Len(selected_cpus) + Len(t)
        /\ \A n \in 1..Len(selected_cpus) : selected_cpus'[n] = selected_cpus[n]
        /\ \A n \in 1..Len(t) : selected_cpus'[n + Len(selected_cpus)] = t[n]
        /\ \A n \in 1..Len(selected_cpus') :
             \/ n \in 1..Len(selected_cpus)
             \/ n - Len(selected_cpus) \in 1..Len(t)
                /\ selected_cpus'[n] = t[n - Len(selected_cpus)]
    BY <1>5, <2>4
  <2>8. TypeOK' /\ PhaseInv' /\ BalanceInv' /\ DoneInv'
    BY <1>1, <1>4, <2>6, ListTypes
  <2>9. ASSUME NEW n \in 1..Len(selected_cpus')
        PROVE  \E i \in DOMAIN cpu_info' :
                 Listed(i)' /\ \E k \in 1..Len(OfCore(i)') : selected_cpus'[n] = OfCore(i)'[k]
    <3>1. CASE n \in 1..Len(selected_cpus)
      <4>1. PICK i \in DOMAIN cpu_info :
              Listed(i) /\ \E k \in 1..Len(OfCore(i)) : selected_cpus[n] = OfCore(i)[k]
        BY <3>1, <1>1, <1>2 DEF ListInv
      <4> QED BY <4>1, <3>1, <1>3, <2>1, <2>7
    <3>2. CASE n - Len(selected_cpus) \in 1..Len(t) /\ selected_cpus'[n] = t[n - Len(selected_cpus)]
      BY <3>2, <1>1, <1>3, <2>1, <2>3
    <3> QED BY <3>1, <3>2, <2>7
  <2>10. ASSUME NEW i \in DOMAIN cpu_info', Listed(i)', NEW k \in 1..Len(OfCore(i)')
         PROVE  \E n \in 1..Len(selected_cpus') : selected_cpus'[n] = OfCore(i)'[k]
    <3>1. CASE i = at
      <4>1. k \in 1..Len(t) /\ OfCore(i)' = t
        BY <3>1, <2>3, <1>3
      <4>2. k + Len(selected_cpus) \in 1..Len(selected_cpus')
        BY <4>1, <1>5, <2>4, <2>7
      <4> QED BY <4>1, <4>2, <2>7
    <3>2. CASE i # at
      <4>1. PICK n \in 1..Len(selected_cpus) : selected_cpus[n] = OfCore(i)[k]
        BY <3>2, <2>1, <2>10, <1>1, <1>2, <1>3 DEF ListInv
      <4>2. n \in 1..Len(selected_cpus') /\ selected_cpus'[n] = selected_cpus[n]
        BY <1>5, <2>4, <2>7
      <4> QED BY <4>1, <4>2, <1>3
    <3> QED BY <3>1, <3>2
  <2>11. ASSUME NEW m \in 1..Len(selected_cpus'), NEW n \in 1..Len(selected_cpus'), m < n
         PROVE  socketOf'[selected_cpus'[m]] <= socketOf'[selected_cpus'[n]]
    <3>1. CASE n \in 1..Len(selected_cpus)
      <4>1. m \in 1..Len(selected_cpus)
        BY <3>1, <2>11
      <4> QED BY <3>1, <4>1, <2>11, <2>7, <1>1, <1>2, <1>3 DEF ListInv
    <3>2. CASE n - Len(selected_cpus) \in 1..Len(t) /\ selected_cpus'[n] = t[n - Len(selected_cpus)]
      <4>1. socketOf[selected_cpus'[n]] = socket_id
        BY <3>2, <2>4
      <4>2. socketOf[selected_cpus'[m]] <= socket_id
        <5>1. CASE m \in 1..Len(selected_cpus)
          BY <5>1, <2>5, <2>7
        <5>2. CASE m - Len(selected_cpus) \in 1..Len(t) /\ selected_cpus'[m] = t[m - Len(selected_cpus)]
          <6>1. socketOf[selected_cpus'[m]] = socket_id
            BY <5>2, <2>4
          <6> QED BY <6>1, <1>4
        <5> QED BY <5>1, <5>2, <2>7
      <4> QED BY <4>1, <4>2, <1>3
    <3> QED BY <3>1, <3>2, <2>7
  <2>12. ListInv'
    BY <2>9, <2>10, <2>11 DEF ListInv
  <2> QED BY <1>1, <1>2, <2>8, <2>12, ReadKept DEF IInv
<1> QED BY <1>6, <1>7

LEMMA ListNextSocketStep ==
  ASSUME IInv, ListNextSocket
  PROVE  IInv'
<1>1. /\ UNCHANGED <<machine, blocks, cpu_info, num_cpus, core_id, selected_cpus, phase>>
      /\ phase = "list" /\ at \notin DOMAIN cpu_info /\ socket_id' = socket_id + 1 /\ at' = 1
  BY DEF ListNextSocket
<1>2. TypeOK /\ EntriesInv /\ MachineInv /\ PhaseInv /\ ListInv
  BY DEF IInv
<1>3. /\ \A i : OfCore(i)' = OfCore(i)
      /\ DOMAIN cpu_info' = DOMAIN cpu_info /\ socketOf' = socketOf /\ selected_cpus' = selected_cpus
  BY <1>1 DEF OfCore, machine
<1>4. TypeOK' /\ PhaseInv' /\ BalanceInv' /\ DoneInv'
  <2>1. socket_id' \in Nat /\ at' \in Nat \ {0} /\ selected_cpus' = selected_cpus
    BY <1>1, <1>2 DEF TypeOK
  <2> QED BY <1>1, <1>2, <2>1, ListTypes DEF IInv, TypeOK
<1>5. \A i \in DOMAIN cpu_info : Listed(i)' => Listed(i)
  <2> SUFFICES ASSUME NEW i \in DOMAIN cpu_info, Listed(i)' PROVE Listed(i)
    OBVIOUS
  <2>1. i \in Nat /\ i >= 1 /\ cpu_info[i].socket \in Nat /\ socket_id \in Nat /\ at \in Nat /\ at >= 1
    BY <1>2, OfCoreType DEF TypeOK
  <2>2. i < at
    BY <1>1, <1>2, <2>1 DEF TypeOK
  <2> QED BY <1>1, <2>1, <2>2 DEF Listed
<1>6. \A i \in DOMAIN cpu_info : Listed(i) => Listed(i)'
  <2> SUFFICES ASSUME NEW i \in DOMAIN cpu_info, Listed(i) PROVE Listed(i)'
    OBVIOUS
  <2>1. i \in Nat /\ i >= 1 /\ cpu_info[i].socket \in Nat /\ socket_id \in Nat
    BY <1>2, OfCoreType DEF TypeOK
  <2> QED BY <1>1, <2>1 DEF Listed
<1>7. ListInv'
  BY <1>1, <1>2, <1>3, <1>5, <1>6, ListSame
<1> QED BY <1>1, <1>2, <1>4, <1>7, ReadKept DEF IInv

(***************************************************************************)
(* What ReturnListed returns: the first CPUs of the list.                  *)
(***************************************************************************)
LEMMA ReturnedList ==
  ASSUME IInv, ReturnListed
  PROVE  /\ TypeOK' /\ Chosen' \subseteq ReadSoFar
         /\ IsFiniteSet(Chosen') /\ Cardinality(Chosen') = Least(num_cpus, Len(selected_cpus))
         /\ \A v \in Chosen' : \E n \in 1..Least(num_cpus, Len(selected_cpus)) : v = selected_cpus[n]
         /\ \A n \in 1..Least(num_cpus, Len(selected_cpus)) : selected_cpus[n] \in Chosen'
<1> DEFINE s == Upto(num_cpus, selected_cpus)
           m == Least(num_cpus, Len(selected_cpus))
<1>1. /\ phase = "list" /\ phase' = "done" /\ Return(s)
      /\ UNCHANGED <<machine, blocks, cpu_info, num_cpus, core_id, socket_id, at>>
  BY DEF ReturnListed, Return
<1>2. /\ num_cpus \in Nat /\ selected_cpus \in Seq(Vcpus)
      /\ \A i, j \in DOMAIN selected_cpus : selected_cpus[i] = selected_cpus[j] => i = j
  BY DEF IInv, TypeOK
<1>3. /\ s \in Seq(Vcpus) /\ Len(s) = m /\ DOMAIN s = 1..m
      /\ \A i \in 1..m : s[i] = selected_cpus[i] /\ i \in DOMAIN selected_cpus
      /\ \A i, j \in DOMAIN s : s[i] = s[j] => i = j
  BY <1>2, UptoKeeps
<1> HIDE DEF s, m
<1>4. /\ selected_cpus' \in Seq(Vcpus)
      /\ \A i, j \in DOMAIN selected_cpus' : selected_cpus'[i] = selected_cpus'[j] => i = j
      /\ ToSet(selected_cpus') = ToSet(s)
  BY <1>1, <1>3, ReturnKeeps
<1>5. TypeOK'
  BY <1>1, <1>4 DEF IInv, TypeOK, machine, Entry
<1>6. Chosen' = ToSet(s)
  BY <1>4 DEF Chosen
<1>7. IsFiniteSet(Chosen') /\ Cardinality(Chosen') = m
  BY <1>3, <1>6, ChosenCounted
<1>8. /\ \A v \in Chosen' : \E n \in 1..m : v = selected_cpus[n]
      /\ \A n \in 1..m : selected_cpus[n] \in Chosen'
  BY <1>3, <1>6 DEF ToSet
<1>9. Chosen' \subseteq ReadSoFar
  <2> SUFFICES ASSUME NEW n \in 1..m PROVE selected_cpus[n] \in ReadSoFar
    BY <1>8
  <2>1. n \in 1..Len(selected_cpus)
    BY <1>2, <1>3
  <2>2. PICK i \in DOMAIN cpu_info : \E k \in 1..Len(OfCore(i)) : selected_cpus[n] = OfCore(i)[k]
    BY <2>1, <1>1 DEF IInv, ListInv
  <2> QED BY <2>2, OfCoreType DEF IInv
<1> QED BY <1>5, <1>7, <1>8, <1>9 DEF m

(***************************************************************************)
(* At its end the list has a CPU of every core, or all of them.            *)
(***************************************************************************)
LEMMA ListComplete ==
  ASSUME IInv, phase = "list", socket_id >= GetSocketsCount, ~MayHideSocket
  PROVE  /\ ReadSoFar = available_cpus
         /\ \A i \in DOMAIN cpu_info : \A k \in 1..Len(OfCore(i)) :
              \E n \in 1..Len(selected_cpus) : selected_cpus[n] = OfCore(i)[k]
<1>1. blocks = {} /\ TypeOK /\ EntriesInv /\ MachineInv
  BY DEF IInv, PhaseInv
<1>2. ReadSoFar = available_cpus /\ \A i \in DOMAIN cpu_info : cpu_info[i].socket < GetSocketsCount
  BY <1>1, SocketsBelowCount
<1>3. \A i \in DOMAIN cpu_info : Listed(i)
  BY <1>1, <1>2, SocketsCount, OfCoreType DEF Listed, TypeOK
<1> QED BY <1>2, <1>3 DEF IInv, ListInv

LEMMA DisabledEnough ==
  ASSUME IInv, phase = "list", mode = "DISABLE", socket_id >= GetSocketsCount, ~MayHideSocket
  PROVE  LET pairs == {<<socketOf[v], coreOf[v]>> : v \in available_cpus}
         IN  Cardinality(pairs) \in Nat /\ Cardinality(pairs) <= Len(selected_cpus)
<1> DEFINE pairs == {<<socketOf[v], coreOf[v]>> : v \in available_cpus}
           f == [n \in 1..Len(selected_cpus) |-> <<socketOf[selected_cpus[n]], coreOf[selected_cpus[n]]>>]
<1>1. /\ TypeOK /\ EntriesInv /\ ListInv
      /\ Len(selected_cpus) \in Nat
  BY DEF IInv, TypeOK
<1>2. ASSUME NEW n \in 1..Len(selected_cpus) PROVE f[n] \in pairs
  <2>1. PICK i \in DOMAIN cpu_info : \E k \in 1..Len(OfCore(i)) : selected_cpus[n] = OfCore(i)[k]
    BY <1>1 DEF ListInv
  <2>2. selected_cpus[n] \in available_cpus
    BY <2>1, <1>1, OfCoreType DEF ReadSoFar
  <2> QED BY <2>2
<1>3. ASSUME NEW v \in available_cpus
      PROVE  \E n \in 1..Len(selected_cpus) : f[n] = <<socketOf[v], coreOf[v]>>
  <2>1. PICK i \in DOMAIN cpu_info :
          \E k \in 1..Len(cpu_info[i].vcpus) : cpu_info[i].vcpus[k] = v
    BY <1>1, ListComplete DEF EntriesInv
  <2>2. socketOf[v] = cpu_info[i].socket /\ coreOf[v] = cpu_info[i].core
    BY <2>1, <1>1 DEF EntriesInv
  <2>3. Len(OfCore(i)) \in Nat /\ 1 \in 1..Len(OfCore(i))
    BY <1>1, OfCoreType
  <2>4. PICK n \in 1..Len(selected_cpus) : selected_cpus[n] = OfCore(i)[1]
    BY <2>3, ListComplete
  <2>5. socketOf[selected_cpus[n]] = cpu_info[i].socket /\ coreOf[selected_cpus[n]] = cpu_info[i].core
    BY <2>3, <2>4, <1>1, OfCoreType
  <2> QED BY <2>2, <2>5
<1>4. f \in Surjection(1..Len(selected_cpus), pairs)
  <2>1. f \in [1..Len(selected_cpus) -> pairs]
    BY <1>2
  <2>2. ASSUME NEW p \in pairs PROVE \E n \in 1..Len(selected_cpus) : f[n] = p
    <3>1. PICK v \in available_cpus : p = <<socketOf[v], coreOf[v]>>
      OBVIOUS
    <3> HIDE DEF f
    <3> QED BY <3>1, <1>3
  <2> HIDE DEF pairs, f
  <2> QED BY <2>1, <2>2 DEF Surjection
<1>5. IsFiniteSet(1..Len(selected_cpus)) /\ Cardinality(1..Len(selected_cpus)) = Len(selected_cpus)
  BY <1>1, Indices, Zenon
<1>6. IsFiniteSet(pairs) /\ Cardinality(pairs) <= Len(selected_cpus)
  BY <1>4, <1>5, FS_Surjection
<1> QED BY <1>6, FS_CardinalityType

LEMMA SkewedEnough ==
  ASSUME IInv, phase = "list", mode = "SKEWED", socket_id >= GetSocketsCount, ~MayHideSocket
  PROVE  /\ \A v \in available_cpus : \E n \in 1..Len(selected_cpus) : selected_cpus[n] = v
         /\ Cardinality(available_cpus) \in Nat
         /\ Cardinality(available_cpus) <= Len(selected_cpus)
<1>1. TypeOK /\ EntriesInv
  BY DEF IInv
<1>2. ASSUME NEW v \in available_cpus
      PROVE  \E n \in 1..Len(selected_cpus) : selected_cpus[n] = v
  <2>1. PICK i \in DOMAIN cpu_info :
          \E k \in 1..Len(cpu_info[i].vcpus) : cpu_info[i].vcpus[k] = v
    BY <1>1, ListComplete DEF EntriesInv
  <2>2. OfCore(i) = cpu_info[i].vcpus
    BY DEF OfCore
  <2> QED BY <2>1, <2>2, ListComplete
<1>3. /\ IsFiniteSet(Chosen) /\ Cardinality(Chosen) = Len(selected_cpus)
  BY <1>1, ChosenCounted DEF Chosen, TypeOK
<1>4. available_cpus \in SUBSET Chosen
  <2>1. DOMAIN selected_cpus = 1..Len(selected_cpus)
    BY <1>1 DEF TypeOK
  <2> QED BY <2>1, <1>2 DEF Chosen, ToSet
<1>5. /\ IsFiniteSet(available_cpus) /\ Cardinality(available_cpus) <= Len(selected_cpus)
  BY <1>3, <1>4, FS_Subset
<1> QED BY <1>2, <1>5, FS_CardinalityType

LEMMA ReturnListedStep ==
  ASSUME IInv, ReturnListed
  PROVE  IInv'
<1> DEFINE m == Least(num_cpus, Len(selected_cpus))
<1>1. /\ phase = "list" /\ phase' = "done" /\ socket_id >= GetSocketsCount
      /\ UNCHANGED <<machine, blocks, cpu_info, num_cpus, core_id, socket_id, at>>
  BY DEF ReturnListed, Return
<1>2. /\ TypeOK' /\ Chosen' \subseteq ReadSoFar
      /\ Cardinality(Chosen') = m
      /\ \A v \in Chosen' : \E n \in 1..m : v = selected_cpus[n]
      /\ \A n \in 1..m : selected_cpus[n] \in Chosen'
  BY ReturnedList
<1>3. /\ TypeOK /\ EntriesInv /\ MachineInv /\ PhaseInv /\ ListInv
      /\ num_cpus \in Nat /\ Len(selected_cpus) \in Nat
      /\ mode \in {"DISABLE", "SKEWED"}
  BY <1>1 DEF IInv, TypeOK, PhaseInv
<1>4. /\ available_cpus' = available_cpus /\ mode' = mode /\ num_cpus' = num_cpus
      /\ socketOf' = socketOf /\ coreOf' = coreOf
  BY <1>1 DEF machine
<1>5. PhaseInv' /\ ListInv' /\ BalanceInv'
  BY <1>1, <1>3, <1>4 DEF PhaseInv, ListInv, BalanceInv
<1>6. Chosen' \subseteq available_cpus'
  BY <1>2, <1>4 DEF ReadSoFar
<1>7. m \in 0..Len(selected_cpus) /\ m <= num_cpus
      /\ \A x \in Nat : x <= Len(selected_cpus) => m >= Least(num_cpus, x)
  BY <1>3 DEF Least
<1> HIDE DEF m
<1>8. ASSUME ~MayHideSocket PROVE SelectsEnough'
  <2>1. CASE mode = "DISABLE"
    <3> DEFINE pairs == {<<socketOf[v], coreOf[v]>> : v \in available_cpus}
    <3>1. Cardinality(pairs) \in Nat /\ Cardinality(pairs) <= Len(selected_cpus)
      BY <1>1, <1>8, <2>1, DisabledEnough
    <3>2. m >= Least(num_cpus, Cardinality(pairs))
      BY <3>1, <1>7
    <3>3. ASSUME NEW v \in Chosen', NEW w \in Chosen', socketOf[v] = socketOf[w], coreOf[v] = coreOf[w]
          PROVE  v = w
      <4>1. PICK x \in 1..m : v = selected_cpus[x]
        BY <1>2
      <4>2. PICK y \in 1..m : w = selected_cpus[y]
        BY <1>2
      <4>3. x \in 1..Len(selected_cpus) /\ y \in 1..Len(selected_cpus)
        BY <1>7
      <4>4. PICK i \in DOMAIN cpu_info : \E k \in 1..Len(OfCore(i)) : v = OfCore(i)[k]
        BY <4>1, <4>3, <1>1, <1>3 DEF ListInv
      <4>5. PICK j \in DOMAIN cpu_info : \E k \in 1..Len(OfCore(j)) : w = OfCore(j)[k]
        BY <4>2, <4>3, <1>1, <1>3 DEF ListInv
      <4>6. i = j
        <5>1. socketOf[v] = cpu_info[i].socket /\ coreOf[v] = cpu_info[i].core
          BY <4>4, <1>3, OfCoreType
        <5>2. socketOf[w] = cpu_info[j].socket /\ coreOf[w] = cpu_info[j].core
          BY <4>5, <1>3, OfCoreType
        <5> QED BY <5>1, <5>2, <3>3, <1>3 DEF EntriesInv
      <4>7. OfCore(i) = <<cpu_info[i].vcpus[1]>>
        BY <2>1 DEF OfCore
      <4>8. v = cpu_info[i].vcpus[1] /\ w = cpu_info[i].vcpus[1]
        BY <4>4, <4>5, <4>6, <4>7
      <4> QED BY <4>8
    <3>4. \A v \in Chosen' : Siblings(v)' \cap Chosen' = {}
      BY <3>3, <1>4 DEF Siblings
    <3>5. {<<socketOf'[v], coreOf'[v]>> : v \in available_cpus'} = pairs
      BY <1>4
    <3> HIDE DEF pairs
    <3> QED BY <1>2, <1>4, <1>6, <1>7, <2>1, <3>2, <3>4, <3>5 DEF SelectsEnough
  <2>2. CASE mode = "SKEWED"
    <3>1. m >= Least(num_cpus, Cardinality(available_cpus))
      BY <1>1, <1>7, <1>8, <2>2, SkewedEnough
    <3> QED BY <1>2, <1>4, <1>6, <1>7, <2>2, <3>1 DEF SelectsEnough
  <2> QED BY <2>1, <2>2, <1>3
<1>9. ASSUME ~MayHideSocket PROVE Socket0First'
  <2> SUFFICES ASSUME mode = "SKEWED", NEW v \in Chosen', NEW s \in SocketIds, s < socketOf[v],
                      NEW w \in available_cpus, socketOf[w] = s
               PROVE  w \in Chosen'
    BY <1>4 DEF Socket0First, On
  <2>1. PICK b \in 1..m : v = selected_cpus[b]
    BY <1>2
  <2>2. PICK a \in 1..Len(selected_cpus) : w = selected_cpus[a]
    BY <1>1, <1>9, SkewedEnough
  <2>3. b \in 1..Len(selected_cpus)
    BY <1>7
  <2>4. socketOf[v] \in Nat /\ s \in Nat
    BY <1>2, <1>3, CpuAssumption DEF TypeOK, ReadSoFar
  <2>5. a # b
    BY <2>1, <2>2, <2>4
  <2>6. ~(b < a)
    <3>1. b < a => socketOf[selected_cpus[b]] <= socketOf[selected_cpus[a]]
      BY <2>3, <1>1, <1>3 DEF ListInv
    <3>2. b < a => socketOf[v] <= s
      BY <3>1, <2>1, <2>2
    <3> QED BY <3>2, <2>4
  <2>7. a \in 1..m
    BY <1>7, <2>5, <2>6
  <2> QED BY <2>2, <2>7, <1>2
<1>10. DoneInv'
  BY <1>6, <1>8, <1>9 DEF DoneInv
<1> QED BY <1>1, <1>2, <1>3, <1>5, <1>10, ReadKept DEF IInv

-----------------------------------------------------------------------------
(***************************************************************************)
(* The loop of the mode "BALANCED".                                        *)
(***************************************************************************)
LEMMA BalanceKept ==
  ASSUME IInv, phase = "balance",
         UNCHANGED <<machine, blocks, cpu_info, num_cpus, at, phase>>,
         socket_id' \in Nat, core_id' \in Nat, selected_cpus' \in Seq(Vcpus),
         \A i, j \in DOMAIN selected_cpus' : selected_cpus'[i] = selected_cpus'[j] => i = j,
         socket_id' = 0 \/ socket_id' < GetSocketsCount,
         Chosen' = {v \in ReadSoFar : Passed(v)'}
  PROVE  IInv'
<1>1. /\ phase' = "balance" /\ mode' = mode /\ blocks' = blocks /\ num_cpus' = num_cpus
      /\ at' = at /\ cpu_info' = cpu_info
  BY DEF machine
<1>2. TypeOK'
  BY <1>1 DEF IInv, TypeOK, machine, Entry
<1>4. EntriesInv' /\ MachineInv' /\ ReadSoFar' = ReadSoFar /\ GetSocketsCount' = GetSocketsCount
  BY ReadKept DEF IInv
<1>3. PhaseInv'
  BY <1>1, <1>4 DEF IInv, PhaseInv
<1>5. BalanceInv' /\ ListInv'
  BY <1>1, <1>4 DEF BalanceInv, ListInv
<1>6. DoneInv'
  BY <1>1 DEF DoneInv, SelectsEnough, Socket0First
<1> QED BY <1>2, <1>3, <1>4, <1>5, <1>6 DEF IInv

LEMMA ReadTypes ==
  ASSUME TypeOK
  PROVE  /\ \A v \in ReadSoFar : socketOf[v] \in Nat /\ coreOf[v] \in CoreIds /\ coreOf[v] \in Nat
         /\ core_id \in Nat /\ socket_id \in Nat /\ GetSocketsCount \in Nat
BY CpuAssumption, SocketsCount DEF TypeOK, ReadSoFar

LEMMA SkipCoreStep ==
  ASSUME IInv, SkipCore
  PROVE  IInv'
<1>1. /\ UNCHANGED <<machine, blocks, cpu_info, num_cpus, socket_id, at, selected_cpus, phase>>
      /\ phase = "balance" /\ socket_id = 0 /\ IsUnusedCoreID(core_id) /\ core_id' = NextCore
  BY DEF SkipCore
<1>2. TypeOK /\ EntriesInv /\ BalanceInv /\ PhaseInv /\ MachineInv
  BY DEF IInv
<1>3. \A v \in ReadSoFar : coreOf[v] # core_id
  <2> SUFFICES ASSUME NEW v \in ReadSoFar PROVE coreOf[v] # core_id
    OBVIOUS
  <2>1. PICK i \in DOMAIN cpu_info :
          \E k \in 1..Len(cpu_info[i].vcpus) : cpu_info[i].vcpus[k] = v
    BY <1>2 DEF EntriesInv
  <2>2. coreOf[v] = cpu_info[i].core
    BY <2>1, <1>2 DEF EntriesInv
  <2> QED BY <2>2, <1>1 DEF IsUnusedCoreID
<1>4. core_id' \in Nat /\ socket_id' \in Nat /\ (core_id' = core_id \/ core_id' = core_id + 1)
  BY <1>1, <1>2 DEF NextCore, TypeOK
<1>5. socketOf' = socketOf /\ coreOf' = coreOf /\ GetSocketsCount' = GetSocketsCount
  BY <1>1, <1>2, ReadKept DEF machine
<1>6. \A v \in ReadSoFar : Passed(v)' <=> Passed(v)
  BY <1>1, <1>2, <1>3, <1>4, <1>5, ReadTypes DEF Passed
<1>7. Chosen' = Chosen /\ Chosen = {v \in ReadSoFar : Passed(v)}
  BY <1>1, <1>2 DEF Chosen, BalanceInv, PhaseInv
<1>8. Chosen' = {v \in ReadSoFar : Passed(v)'}
  BY <1>6, <1>7
<1> QED BY <1>1, <1>2, <1>4, <1>8, BalanceKept DEF TypeOK

LEMMA PairsOfCore ==
  ASSUME TypeOK, EntriesInv, NEW s, NEW c
  PROVE  /\ GetVCPUPairsForCore(s, c) \in Seq(Vcpus)
         /\ \A i, j \in DOMAIN GetVCPUPairsForCore(s, c) :
              GetVCPUPairsForCore(s, c)[i] = GetVCPUPairsForCore(s, c)[j] => i = j
         /\ ToSet(GetVCPUPairsForCore(s, c)) = {v \in ReadSoFar : socketOf[v] = s /\ coreOf[v] = c}
<1> DEFINE R == {v \in ReadSoFar : socketOf[v] = s /\ coreOf[v] = c}
<1>1. CASE EntriesOf(s, c) = {}
  <2>1. GetVCPUPairsForCore(s, c) = << >>
    BY <1>1 DEF GetVCPUPairsForCore
  <2>2. R = {}
    <3> SUFFICES ASSUME NEW v \in R PROVE FALSE
      OBVIOUS
    <3>1. PICK i \in DOMAIN cpu_info :
            \E k \in 1..Len(cpu_info[i].vcpus) : cpu_info[i].vcpus[k] = v
      BY DEF EntriesInv
    <3>2. cpu_info[i].socket = s /\ cpu_info[i].core = c
      BY <3>1 DEF EntriesInv
    <3> QED BY <3>1, <3>2, <1>1 DEF EntriesOf
  <2>3. ToSet(<< >>) = {} /\ DOMAIN << >> = {}
    BY DEF ToSet
  <2> QED BY <2>1, <2>2, <2>3
<1>2. CASE EntriesOf(s, c) # {}
  <2>1. PICK i \in EntriesOf(s, c) : GetVCPUPairsForCore(s, c) = cpu_info[i].vcpus
    BY <1>2 DEF GetVCPUPairsForCore
  <2>2. i \in DOMAIN cpu_info /\ cpu_info[i].socket = s /\ cpu_info[i].core = c /\ cpu_info[i] \in Entry
    BY <2>1 DEF EntriesOf, TypeOK
  <2>3. PICK t \in Seq(Vcpus) : t = cpu_info[i].vcpus
    BY <2>2 DEF Entry
  <2>4. DOMAIN t = 1..Len(t)
    OBVIOUS
  <2>5. \A k, l \in DOMAIN t : t[k] = t[l] => k = l
    BY <2>2, <2>3, <2>4 DEF EntriesInv
  <2>6. \A k \in DOMAIN t : t[k] \in R
    BY <2>2, <2>3, <2>4 DEF EntriesInv
  <2>7. ASSUME NEW v \in R PROVE \E k \in DOMAIN t : t[k] = v
    <3>1. PICK j \in DOMAIN cpu_info :
            \E k \in 1..Len(cpu_info[j].vcpus) : cpu_info[j].vcpus[k] = v
      BY DEF EntriesInv
    <3>2. cpu_info[j].socket = s /\ cpu_info[j].core = c
      BY <3>1 DEF EntriesInv
    <3>3. j = i
      BY <3>1, <3>2, <2>2 DEF EntriesInv
    <3> QED BY <3>1, <3>3, <2>3, <2>4
  <2>8. ToSet(t) = R
    <3> HIDE DEF R
    <3> QED BY <2>6, <2>7 DEF ToSet
  <2> QED BY <2>1, <2>3, <2>5, <2>8
<1> QED BY <1>1, <1>2

LEMMA TakePairsStep ==
  ASSUME IInv, TakePairs
  PROVE  IInv'
<1>1. /\ UNCHANGED <<machine, blocks, cpu_info, num_cpus, at, phase>>
      /\ phase = "balance" /\ ~IsUnusedCoreID(core_id)
      /\ selected_cpus' = selected_cpus \o GetVCPUPairsForCore(socket_id, core_id)
      /\ IF socket_id + 1 < GetSocketsCount
         THEN socket_id' = socket_id + 1 /\ core_id' = core_id
         ELSE socket_id' = 0 /\ core_id' = NextCore
  BY DEF TakePairs
<1>2. TypeOK /\ EntriesInv /\ BalanceInv /\ PhaseInv /\ MachineInv
  BY DEF IInv
<1>3. Chosen = {v \in ReadSoFar : Passed(v)}
  BY <1>1, <1>2 DEF BalanceInv, PhaseInv
<1>4. PICK t \in Seq(Vcpus) : t = GetVCPUPairsForCore(socket_id, core_id)
  BY <1>2, PairsOfCore
<1>5. /\ \A i, j \in DOMAIN t : t[i] = t[j] => i = j
      /\ ToSet(t) = {v \in ReadSoFar : socketOf[v] = socket_id /\ coreOf[v] = core_id}
      /\ selected_cpus' = selected_cpus \o t
  BY <1>1, <1>2, <1>4, PairsOfCore
<1>6. /\ selected_cpus \in Seq(Vcpus)
      /\ \A i, j \in DOMAIN selected_cpus : selected_cpus[i] = selected_cpus[j] => i = j
  BY <1>2 DEF TypeOK
<1>7. \A i \in DOMAIN selected_cpus, j \in DOMAIN t : selected_cpus[i] # t[j]
  <2>1. \A v \in ToSet(t) : v \in ReadSoFar /\ ~Passed(v)
    BY <1>5, <1>2, ReadTypes DEF Passed
  <2>2. \A i \in DOMAIN selected_cpus : selected_cpus[i] \in Chosen
    BY DEF Chosen, ToSet
  <2>3. \A j \in DOMAIN t : t[j] \in ToSet(t)
    BY DEF ToSet
  <2> QED BY <2>1, <2>2, <2>3, <1>3
<1>8. /\ selected_cpus' \in Seq(Vcpus)
      /\ \A i, j \in DOMAIN selected_cpus' : selected_cpus'[i] = selected_cpus'[j] => i = j
      /\ Chosen' = Chosen \cup ToSet(t)
  BY <1>5, <1>6, <1>7, ConcatDistinct DEF Chosen
<1>9. core_id + 1 = NextCore
  <2>1. PICK i \in DOMAIN cpu_info : cpu_info[i].core = core_id
    BY <1>1 DEF IsUnusedCoreID
  <2>2. cpu_info[i].core \in CoreIds
    <3>1. cpu_info[i] \in Entry
      BY <1>2 DEF TypeOK
    <3> QED BY <3>1 DEF Entry
  <2>3. core_id \in Nat
    BY <1>2 DEF TypeOK
  <2>4. core_id \in CoreIds /\ core_id <= core_id
    BY <2>1, <2>2, <2>3
  <2> QED BY <2>4 DEF NextCore
<1>10. socket_id' \in Nat /\ core_id' \in Nat
  BY <1>1, <1>2, <1>9 DEF TypeOK
<1>11. socketOf' = socketOf /\ coreOf' = coreOf /\ GetSocketsCount' = GetSocketsCount
  BY <1>1, <1>2, ReadKept DEF machine
<1>12. socket_id < GetSocketsCount
  <2>1. PICK i \in DOMAIN cpu_info : cpu_info[i].core = core_id
    BY <1>1 DEF IsUnusedCoreID
  <2>2. {cpu_info[j].socket : j \in DOMAIN cpu_info} # {}
    BY <2>1
  <2>3. GetSocketsCount \in Nat /\ GetSocketsCount # 0
    BY <2>2, <1>2, SocketsCount, FS_EmptySet DEF GetSocketsCount
  <2> QED BY <2>3, <1>1, <1>2 DEF PhaseInv
<1>13. \A v \in ReadSoFar : Passed(v)' <=> Passed(v) \/ (socketOf[v] = socket_id /\ coreOf[v] = core_id)
  BY <1>1, <1>2, <1>9, <1>11, <1>12, ReadTypes DEF Passed
<1>14. Chosen' = {v \in ReadSoFar : Passed(v)'}
  BY <1>13, <1>3, <1>5, <1>8
<1>15. socket_id' = 0 \/ socket_id' < GetSocketsCount
  BY <1>1
<1> QED BY <1>14, <1>15, <1>1, <1>8, <1>10, BalanceKept

LEMMA ReturnBalancedStep ==
  ASSUME IInv, ReturnBalanced
  PROVE  IInv'
<1>1. /\ phase = "balance" /\ phase' = "done" /\ Return(selected_cpus) /\ Len(selected_cpus) >= num_cpus
      /\ UNCHANGED <<machine, blocks, cpu_info, num_cpus, core_id, socket_id, at>>
  BY DEF ReturnBalanced, Return, Found
<1>2. TypeOK /\ EntriesInv /\ BalanceInv /\ PhaseInv /\ MachineInv /\ mode = "BALANCED"
  BY <1>1 DEF IInv, PhaseInv
<1>3. /\ selected_cpus \in Seq(Vcpus) /\ Len(selected_cpus) \in Nat
      /\ \A i, j \in DOMAIN selected_cpus : selected_cpus[i] = selected_cpus[j] => i = j
      /\ num_cpus \in Nat
  BY <1>2 DEF TypeOK
<1>4. /\ selected_cpus' \in Seq(Vcpus)
      /\ \A i, j \in DOMAIN selected_cpus' : selected_cpus'[i] = selected_cpus'[j] => i = j
      /\ Chosen' = Chosen
  BY <1>1, <1>3, ReturnKeeps DEF Chosen
<1>5. /\ available_cpus' = available_cpus /\ mode' = mode /\ num_cpus' = num_cpus
      /\ socketOf' = socketOf /\ coreOf' = coreOf /\ core_id' = core_id /\ socket_id' = socket_id
  BY <1>1 DEF machine
<1>6. EntriesInv' /\ MachineInv' /\ ReadSoFar' = ReadSoFar /\ GetSocketsCount' = GetSocketsCount
  BY <1>1, <1>2, ReadKept
<1>7. TypeOK'
  BY <1>1, <1>2, <1>4 DEF TypeOK, machine, Entry
<1>8. PhaseInv' /\ ListInv'
  BY <1>1, <1>2 DEF PhaseInv, ListInv
<1>9. Chosen = {v \in ReadSoFar : Passed(v)}
  BY <1>1, <1>2 DEF BalanceInv
<1>10. BalanceInv'
  BY <1>4, <1>5, <1>6, <1>9 DEF BalanceInv, Passed
<1>11. Chosen \subseteq available_cpus
  BY <1>9 DEF ReadSoFar
<1>12. Cardinality(Chosen) = Len(selected_cpus)
  BY <1>3, ChosenCounted DEF Chosen
<1>13. Cardinality(available_cpus) \in Nat
  BY <1>2, CpuAssumption, FS_Subset, FS_CardinalityType DEF TypeOK
<1>14. Cardinality(Chosen) >= Least(num_cpus, Cardinality(available_cpus))
  BY <1>1, <1>3, <1>12, <1>13 DEF Least
<1>15. DoneInv'
  BY <1>2, <1>4, <1>5, <1>11, <1>14 DEF DoneInv, SelectsEnough, Socket0First
<1> QED BY <1>6, <1>7, <1>8, <1>10, <1>15 DEF IInv

-----------------------------------------------------------------------------
LEMMA InitIInv == Init => IInv
<1> SUFFICES ASSUME Init PROVE IInv
  OBVIOUS
<1>1. /\ blocks = Vcpus /\ cpu_info = << >> /\ core_id = 0 /\ socket_id = 0 /\ at = 1
      /\ selected_cpus = << >> /\ phase = "read"
      /\ available_cpus \subseteq Vcpus /\ mode \in Modes /\ required_cpus_num \in Requests
      /\ utilization \in Utilizations
      /\ socketOf \in [Vcpus -> SocketIds] /\ coreOf \in [Vcpus -> CoreIds]
  BY DEF Init
<1>2. described \subseteq Vcpus /\ (~MayHideSocket => described = Vcpus)
  BY DEF Init
<1>3. num_cpus \in Nat
  <2>1. required_cpus_num \in Nat /\ utilization \in Nat
    BY <1>1, CpuAssumption
  <2>2. required_cpus_num * utilization \in Nat
    BY <2>1
  <2>3. PICK q \in Nat : q = required_cpus_num * utilization + 99
    BY <2>2
  <2>4. q \div 100 \in Nat
    OBVIOUS
  <2>5. Cardinality(available_cpus) \in Nat
    BY <1>1, CpuAssumption, FS_Subset, FS_CardinalityType
  <2>6. _GetRequiredVCPUs(required_cpus_num, utilization, available_cpus) \in Nat
    BY <2>3, <2>4, <2>5 DEF _GetRequiredVCPUs
  <2> QED BY <2>1, <2>6 DEF Init
<1>4. TypeOK
  BY <1>1, <1>2, <1>3 DEF TypeOK
<1>5. ReadSoFar = {} /\ DOMAIN cpu_info = {}
  BY <1>1 DEF ReadSoFar
<1>6. EntriesInv
  BY <1>5 DEF EntriesInv
<1>7. MachineInv
  BY <1>2 DEF Init, MachineInv, RealMachine
<1>8. PhaseInv /\ ListInv /\ BalanceInv /\ DoneInv
  BY <1>1 DEF PhaseInv, ListInv, BalanceInv, DoneInv, SelectsEnough, Socket0First
<1> QED BY <1>4, <1>6, <1>7, <1>8 DEF IInv

LEMMA StutterIInv ==
  ASSUME IInv, UNCHANGED vars
  PROVE  IInv'
<1>1. UNCHANGED machine /\ UNCHANGED <<blocks, cpu_info, num_cpus, core_id, socket_id, at, selected_cpus, phase>>
  BY DEF vars
<1>2. EntriesInv' /\ MachineInv' /\ ReadSoFar' = ReadSoFar /\ GetSocketsCount' = GetSocketsCount
  BY <1>1, ReadKept DEF IInv
<1>3. TypeOK'
  BY <1>1 DEF IInv, TypeOK, machine, Entry
<1>4. PhaseInv' /\ BalanceInv'
  BY <1>1, <1>2 DEF IInv, PhaseInv, BalanceInv, Passed, Chosen, machine
<1>5. ListInv'
  <2>1. \A i : OfCore(i)' = OfCore(i) /\ (Listed(i)' <=> Listed(i))
    BY <1>1 DEF OfCore, Listed, machine
  <2> QED BY <1>1, <2>1, ListSame DEF IInv, ListInv
<1>6. DoneInv'
  <2>1. /\ Chosen' = Chosen /\ available_cpus' = available_cpus /\ mode' = mode /\ num_cpus' = num_cpus
        /\ socketOf' = socketOf /\ coreOf' = coreOf /\ phase' = phase
    BY <1>1 DEF Chosen, machine
  <2>2. \A v : Siblings(v)' = Siblings(v)
    BY <2>1 DEF Siblings
  <2>3. SelectsEnough' <=> SelectsEnough
    BY <2>1, <2>2 DEF SelectsEnough
  <2>4. Socket0First' <=> Socket0First
    BY <2>1 DEF Socket0First, On
  <2> QED BY <2>1, <2>3, <2>4 DEF IInv, DoneInv
<1> QED BY <1>2, <1>3, <1>4, <1>5, <1>6 DEF IInv

LEMMA StepIInv == IInv /\ [Next]_vars => IInv'
<1> SUFFICES ASSUME IInv, [Next]_vars PROVE IInv'
  OBVIOUS
<1>1. CASE _AddCore
  BY <1>1, AddCoreStep
<1>2. CASE EndOfFile
  BY <1>2, EndOfFileStep
<1>3. CASE Dynamic
  BY <1>3, DynamicStep
<1>4. CASE ListCores
  BY <1>4, ListCoresStep
<1>5. CASE ListCore
  BY <1>5, ListCoreStep
<1>6. CASE ListNextSocket
  BY <1>6, ListNextSocketStep
<1>7. CASE ReturnListed
  BY <1>7, ReturnListedStep
<1>8. CASE Balanced
  BY <1>8, BalancedStep
<1>9. CASE SkipCore
  BY <1>9, SkipCoreStep
<1>10. CASE TakePairs
  BY <1>10, TakePairsStep
<1>11. CASE ReturnBalanced
  BY <1>11, ReturnBalancedStep
<1>12. CASE UNCHANGED vars
  BY <1>12, StutterIInv
<1> QED BY <1>1, <1>2, <1>3, <1>4, <1>5, <1>6, <1>7, <1>8, <1>9, <1>10, <1>11, <1>12 DEF Next

LEMMA InvariantHolds == Spec => []IInv
<1> QED BY InitIInv, StepIInv, PTL DEF Spec

(***************************************************************************)
(* The variables are of their types and no CPU is ever in the selection    *)
(* twice (cpu.py:165-287), whichever sockets the mask hides.               *)
(***************************************************************************)
THEOREM NoCpuTwice == Spec => []TypeOK
<1>1. IInv => TypeOK
  BY DEF IInv
<1> QED BY <1>1, InvariantHolds, PTL

-----------------------------------------------------------------------------
(***************************************************************************)
(* A set of naturals that holds 0 and with k also k + 1 holds all.         *)
(***************************************************************************)
LEMMA AllNaturals ==
  ASSUME NEW S, 0 \in S, \A k \in Nat : k \in S => k + 1 \in S
  PROVE  Nat \subseteq S
<1> SUFFICES ASSUME Nat \ S # {} PROVE FALSE
  OBVIOUS
<1>1. IsWellFoundedOn(OpToRel(<, Nat), Nat)
  BY NatLessThanWellFounded
<1>2. PICK n \in Nat \ S : \A m \in Nat \ S : ~(<<m, n>> \in OpToRel(<, Nat))
  BY <1>1, WFMin
<1>3. \A m \in Nat : m < n => m \in S
  BY <1>2 DEF OpToRel
<1>4. n \in Nat /\ n \notin S /\ n # 0
  BY <1>2
<1> HIDE <1>1, <1>2
<1>5. n - 1 \in Nat /\ n - 1 < n /\ (n - 1) + 1 = n
  BY <1>4
<1> QED BY <1>3, <1>4, <1>5

\* The available CPUs of socket s on the cores before k.
Before(s, k) == {v \in available_cpus : socketOf[v] = s /\ coreOf[v] < k}

SameCores ==
  \A v \in available_cpus, s \in SocketIds :
    Cardinality(Row(s, coreOf[v])) = Cardinality(Row(socketOf[v], coreOf[v]))

LEMMA RowsFinite ==
  ASSUME TypeOK, NEW s, NEW k
  PROVE  /\ IsFiniteSet(Row(s, k)) /\ Cardinality(Row(s, k)) \in Nat
         /\ IsFiniteSet(Before(s, k)) /\ Cardinality(Before(s, k)) \in Nat
<1>1. IsFiniteSet(Vcpus) /\ Row(s, k) \in SUBSET Vcpus /\ Before(s, k) \in SUBSET Vcpus
  BY CpuAssumption DEF TypeOK, Row, Before
<1> QED BY <1>1, FS_Subset, FS_CardinalityType

LEMMA SameRows ==
  ASSUME TypeOK, SameCores, NEW s \in SocketIds, NEW t \in SocketIds, NEW k
  PROVE  Cardinality(Row(s, k)) = Cardinality(Row(t, k))
<1>1. CASE \E v \in available_cpus : coreOf[v] = k
  BY <1>1 DEF SameCores
<1>2. CASE ~\E v \in available_cpus : coreOf[v] = k
  <2>1. Row(s, k) = {} /\ Row(t, k) = {}
    BY <1>2 DEF Row
  <2> QED BY <2>1
<1> QED BY <1>1, <1>2

LEMMA BeforeNext ==
  ASSUME TypeOK, NEW s, NEW k \in Nat
  PROVE  Cardinality(Before(s, k + 1)) = Cardinality(Before(s, k)) + Cardinality(Row(s, k))
<1>1. \A v \in available_cpus : coreOf[v] \in Nat
  BY CpuAssumption DEF TypeOK
<1>2. Before(s, k + 1) = Before(s, k) \cup Row(s, k)
  BY <1>1 DEF Before, Row
<1>3. Before(s, k) \cap Row(s, k) = {}
  BY <1>1 DEF Before, Row
<1>4. Cardinality(Before(s, k) \cup Row(s, k))
        = Cardinality(Before(s, k)) + Cardinality(Row(s, k)) - Cardinality({})
  BY <1>3, RowsFinite, FS_Union
<1> QED BY <1>2, <1>4, RowsFinite, FS_EmptySet

LEMMA SameBefore ==
  ASSUME TypeOK, SameCores, NEW s \in SocketIds, NEW t \in SocketIds, NEW n \in Nat
  PROVE  Cardinality(Before(s, n)) = Cardinality(Before(t, n))
<1> DEFINE S == {k \in Nat : Cardinality(Before(s, k)) = Cardinality(Before(t, k))}
<1>1. 0 \in S
  <2>1. \A v \in available_cpus : coreOf[v] \in Nat
    BY CpuAssumption DEF TypeOK
  <2>2. Before(s, 0) = {} /\ Before(t, 0) = {}
    BY <2>1 DEF Before
  <2> QED BY <2>2
<1>2. ASSUME NEW k \in Nat, k \in S PROVE k + 1 \in S
  <2>1. Cardinality(Before(s, k)) = Cardinality(Before(t, k))
    BY <1>2
  <2>2. Cardinality(Before(s, k + 1)) = Cardinality(Before(t, k + 1))
    BY <2>1, BeforeNext, SameRows
  <2> QED BY <2>2
<1> HIDE DEF S
<1>3. n \in S
  BY <1>1, <1>2, AllNaturals
<1> QED BY <1>3 DEF S

(***************************************************************************)
(* The CPUs taken of a socket: those of the cores before the one the loop  *)
(* is at, and that core's if the socket has been asked.                    *)
(***************************************************************************)
LEMMA TakenOfSocket ==
  ASSUME IInv, ~MayHideSocket, mode = "BALANCED", phase \in {"balance", "done"},
         NEW s \in SocketIds
  PROVE  /\ Cardinality(Chosen \cap On(s)) \in Nat
         /\ Cardinality(Chosen \cap On(s)) >= Cardinality(Before(s, core_id))
         /\ Cardinality(Chosen \cap On(s)) <= Cardinality(Before(s, core_id)) + Cardinality(Row(s, core_id))
<1>1. TypeOK /\ core_id \in Nat /\ socket_id \in Nat /\ s \in Nat
  BY CpuAssumption DEF IInv, TypeOK
<1>2. Chosen = {v \in available_cpus : Passed(v)} /\ \A v \in available_cpus : socketOf[v] < GetSocketsCount
  <2>1. blocks = {} /\ EntriesInv /\ MachineInv
    BY DEF IInv, PhaseInv
  <2>2. ReadSoFar = available_cpus /\ \A v \in available_cpus : socketOf[v] < GetSocketsCount
    BY <2>1, <1>1, SocketsBelowCount
  <2> QED BY <2>2 DEF IInv, BalanceInv
<1>3. \A v \in available_cpus : coreOf[v] \in Nat /\ socketOf[v] \in Nat
  BY <1>1, CpuAssumption DEF TypeOK
<1>3a. /\ Cardinality(Row(s, core_id)) \in Nat /\ Cardinality(Before(s, core_id)) \in Nat
       /\ Cardinality(Before(s, core_id + 1)) = Cardinality(Before(s, core_id)) + Cardinality(Row(s, core_id))
  BY <1>1, RowsFinite, BeforeNext
<1>4. CASE s < socket_id
  <2>1. Chosen \cap On(s) = Before(s, core_id + 1)
    BY <1>1, <1>2, <1>3, <1>4 DEF On, Before, Passed
  <2>2. Cardinality(Chosen \cap On(s)) = Cardinality(Before(s, core_id + 1))
    BY <2>1, Zenon
  <2> QED BY <2>2, <1>3a
<1>5. CASE ~(s < socket_id)
  <2>1. Chosen \cap On(s) = Before(s, core_id)
    BY <1>1, <1>2, <1>3, <1>5 DEF On, Before, Passed
  <2>2. Cardinality(Chosen \cap On(s)) = Cardinality(Before(s, core_id))
    BY <2>1, Zenon
  <2> QED BY <2>2, <1>3a
<1> QED BY <1>4, <1>5

LEMMA EvenFollows ==
  ASSUME IInv, ~MayHideSocket
  PROVE  EvenAcrossSockets
<1> SUFFICES ASSUME mode = "BALANCED", phase \in {"balance", "done"}, SameCores,
                    NEW s \in SocketIds, NEW t \in SocketIds
             PROVE  \E v \in available_cpus :
                      Cardinality(Chosen \cap On(s)) - Cardinality(Chosen \cap On(t))
                        <= Cardinality(Row(socketOf[v], coreOf[v]))
  BY DEF EvenAcrossSockets, SameCores
<1>1. TypeOK /\ core_id \in Nat /\ available_cpus # {}
  BY DEF IInv, TypeOK, MachineInv
<1>2. Cardinality(Before(s, core_id)) = Cardinality(Before(t, core_id))
  BY <1>1, SameBefore
<1>3. /\ Cardinality(Chosen \cap On(s)) \in Nat /\ Cardinality(Chosen \cap On(t)) \in Nat
      /\ Cardinality(Chosen \cap On(s)) - Cardinality(Chosen \cap On(t)) <= Cardinality(Row(s, core_id))
  BY <1>1, <1>2, TakenOfSocket, RowsFinite
<1>4. CASE Row(s, core_id) # {}
  <2>1. PICK v \in Row(s, core_id) : TRUE
    BY <1>4
  <2>2. v \in available_cpus /\ socketOf[v] = s /\ coreOf[v] = core_id
    BY <2>1 DEF Row
  <2> QED BY <2>2, <1>3
<1>5. CASE Row(s, core_id) = {}
  <2>1. PICK v \in available_cpus : TRUE
    BY <1>1
  <2>2. Cardinality(Row(s, core_id)) = 0
    BY <1>5, FS_EmptySet
  <2>3. Cardinality(Row(socketOf[v], coreOf[v])) \in Nat
    BY <1>1, RowsFinite
  <2> QED BY <2>1, <2>2, <2>3, <1>3
<1> QED BY <1>4, <1>5

(***************************************************************************)
(* Unless the mask hides a socket or cpuinfo lacks an id, the CPUs         *)
(* selected (cpu.py:165-287) are enough and where the mode says: no two of *)
(* a core, socket 0 first, or evenly of all sockets.                       *)
(***************************************************************************)
THEOREM SelectionAsAsked == ~MayHideSocket => (Spec => []SelectedAsAsked)
<1> SUFFICES ASSUME ~MayHideSocket PROVE Spec => []SelectedAsAsked
  OBVIOUS
<1>1. IInv => SelectedAsAsked
  BY EvenFollows DEF SelectedAsAsked, IInv, DoneInv
<1> QED BY <1>1, InvariantHolds, PTL
=============================================================================

---------------------- MODULE EmpiricalRecordingProofs ----------------------
(***************************************************************************)
(* Proofs about what EmpiricalData records, for every number of size       *)
(* classes, heap size and trace: the order of the objects in the lists,    *)
(* and that after the recording every object, one of the snapshot or one   *)
(* born in the recording, is accounted for once, by the slot it was left   *)
(* in or by the death that frees it.                                       *)
(***************************************************************************)
EXTENDS EmpiricalData, SequenceTheorems, FiniteSetTheorems, TLAPS

(***************************************************************************)
(* While a trace is recorded, the list of objects and the list of indices  *)
(* of a class have the same length; later the indices do not change.       *)
(***************************************************************************)
Recording ==
  phase \in {"record", "repair"} =>
    \A c \in Classes : Len(objs[c]) = Len(indices[c])

ListTypes ==
  /\ indices \in [Classes -> Seq(ObjectIndex)]
  /\ phase \in {"fill", "record", "repair"} => objs \in [Classes -> Seq(Pointer)]
  /\ births \in Nat

IndInv ==
  /\ ListTypes
  /\ Recording
  /\ ObjectsMoveDown

(***************************************************************************)
(* ObjectsMoveDown for one list of indices.                                *)
(***************************************************************************)
MovesDown(v) ==
  \A i \in 1 .. Len(v) :
    ~v[i].born =>
      /\ i <= v[i].index
      /\ i # v[i].index => \A j \in 1 .. Len(v) : ~v[j].born => j < v[i].index

(***************************************************************************)
(* The types of what is not read out of another vector.                    *)
(***************************************************************************)
ScalarTypes ==
  /\ phase \in Phases
  /\ heap \in [Addresses -> Classes \cup {0}]
  /\ allocs \in Nat /\ total \in Nat
  /\ birthIndex \in Nat /\ deathIndex \in Nat /\ replays \in Nat
  /\ class \in Classes /\ loop \in 1 .. 3
  /\ at \in Nat \ {0} /\ deathAt \in Nat \ {0}

TraceTypes ==
  /\ snapshot \in [Classes -> Seq(Pointer)]
  /\ trace \in Seq([birth : BOOLEAN, class : Classes])
  /\ deathIndices \in Seq(ObjectIndex)

LEMMA MoveDownEach == ObjectsMoveDown <=> \A c \in Classes : MovesDown(indices[c])
BY DEF ObjectsMoveDown, MovesDown

(***************************************************************************)
(* What SwapRemove returns.                                                *)
(***************************************************************************)
LEMMA SwapRemoveFacts ==
  ASSUME NEW S, NEW v \in Seq(S), v # <<>>, NEW k \in 1 .. Len(v)
  PROVE  /\ SwapRemove(v, k) \in Seq(S)
         /\ Len(SwapRemove(v, k)) = Len(v) - 1
         /\ \A i \in 1 .. Len(v) - 1 :
              SwapRemove(v, k)[i] = IF i = k THEN v[Len(v)] ELSE v[i]
<1> DEFINE w == [v EXCEPT ![k] = v[Len(v)]]
           n == Len(v)
<1>1. n \in Nat /\ n >= 1 /\ \A i \in 1 .. n : v[i] \in S
  BY EmptySeq, ElementOfSeq, LenProperties
<1>2. w \in Seq(S) /\ Len(w) = n
  BY <1>1, ExceptSeq
<1>3. \A i \in 1 .. n : w[i] = IF i = k THEN v[n] ELSE v[i]
  BY <1>1, LenProperties
<1>4. SwapRemove(v, k) = SubSeq(w, 1, n - 1)
  BY <1>2 DEF SwapRemove, Front, Last
<1>5. /\ SubSeq(w, 1, n - 1) \in Seq(S)
      /\ Len(SubSeq(w, 1, n - 1)) = n - 1
      /\ \A i \in 1 .. n - 1 : SubSeq(w, 1, n - 1)[i] = w[i]
  <2> HIDE DEF w, n
  <2> QED BY <1>1, <1>2, SubSeqProperties
<1> QED BY <1>1, <1>3, <1>4, <1>5

(***************************************************************************)
(* Recording a birth or a death keeps the objects of the snapshot in       *)
(* order: only the last one of a list is moved, and down.                  *)
(***************************************************************************)
LEMMA BirthMovesDown ==
  ASSUME NEW v \in Seq(ObjectIndex), MovesDown(v), NEW b \in Nat \ {0}
  PROVE  MovesDown(Append(v, [born |-> TRUE, index |-> b]))
<1> DEFINE o == [born |-> TRUE, index |-> b]
           w == Append(v, o)
<1>1. /\ Len(w) = Len(v) + 1 /\ w[Len(v) + 1].born
      /\ \A i \in 1 .. Len(v) : w[i] = v[i]
  BY AppendProperties, LenProperties DEF ObjectIndex
<1>2. \A i \in 1 .. Len(w) : ~w[i].born => i \in 1 .. Len(v)
  BY <1>1, LenProperties
<1> HIDE DEF w, o
<1>3. MovesDown(w)
  BY <1>1, <1>2 DEF MovesDown
<1> QED BY <1>3 DEF w, o

LEMMA DeathMovesDown ==
  ASSUME NEW v \in Seq(ObjectIndex), v # <<>>, MovesDown(v), NEW k \in 1 .. Len(v)
  PROVE  MovesDown(SwapRemove(v, k))
<1> DEFINE w == SwapRemove(v, k)
           n == Len(v)
<1>1. /\ Len(w) = n - 1 /\ n \in Nat
      /\ \A i \in 1 .. n - 1 : w[i] = IF i = k THEN v[n] ELSE v[i]
  BY SwapRemoveFacts, LenProperties
<1>2. \A i \in 1 .. n : v[i].index \in Nat
  <2>1. \A i \in 1 .. n : v[i] \in ObjectIndex
    BY ElementOfSeq
  <2> QED BY <2>1 DEF ObjectIndex
<1> HIDE DEF w, n
<1>3. k \in 1 .. n
  BY DEF n
<1>4. ASSUME NEW i \in 1 .. n - 1, ~w[i].born
      PROVE  /\ i <= w[i].index
             /\ i # w[i].index => \A j \in 1 .. n - 1 : ~w[j].born => j < w[i].index
  <2> DEFINE From(j) == IF j = k THEN n ELSE j
  <2>1. \A j \in 1 .. n - 1 : From(j) \in 1 .. n /\ j <= From(j) /\ w[j] = v[From(j)]
    BY <1>1, <1>3
  <2>2. ~v[From(i)].born /\ From(i) <= v[From(i)].index
    BY <2>1, <1>4 DEF MovesDown, n
  <2>3. i <= w[i].index
    BY <1>1, <1>2, <2>1, <2>2
  <2>4. ASSUME i # w[i].index, NEW j \in 1 .. n - 1, ~w[j].born
        PROVE  j < w[i].index
    <3>1. CASE From(i) = v[From(i)].index
      BY <1>1, <1>3, <2>1, <2>4, <3>1
    <3>2. CASE From(i) # v[From(i)].index
      <4>1. From(j) < v[From(i)].index
        BY <2>1, <2>2, <2>4, <3>2 DEF MovesDown, n
      <4> QED BY <1>1, <1>2, <2>1, <4>1
    <3> QED BY <3>1, <3>2
  <2> QED BY <2>3, <2>4
<1>5. MovesDown(w)
  BY <1>1, <1>4 DEF MovesDown
<1> QED BY <1>5 DEF w

(***************************************************************************)
(* The steps that change the lists of indices.                             *)
(***************************************************************************)
LEMMA SnapshotStep == IndInv /\ SnapshotLiveObjects => IndInv'
<1> SUFFICES ASSUME IndInv, SnapshotLiveObjects PROVE IndInv'
  OBVIOUS
<1>1. /\ phase = "fill" /\ phase' = "record" /\ objs' = objs /\ births' = births
      /\ objs \in [Classes -> Seq(Pointer)] /\ births \in Nat
  BY DEF SnapshotLiveObjects, IndInv, ListTypes
<1>2. ASSUME NEW c \in Classes
      PROVE  /\ indices'[c] \in Seq(ObjectIndex)
             /\ Len(indices'[c]) = Len(objs[c])
             /\ MovesDown(indices'[c])
  <2> DEFINE n == Len(objs[c])
             v == [i \in 1 .. n |-> [born |-> FALSE, index |-> i]]
  <2>1. n \in Nat /\ indices'[c] = v
    BY <1>1, LenProperties DEF SnapshotLiveObjects
  <2>2. \A i \in 1 .. n : [born |-> FALSE, index |-> i] \in ObjectIndex
    BY <2>1 DEF ObjectIndex
  <2>3. v \in Seq(ObjectIndex) /\ Len(v) = n
    <3> HIDE DEF n
    <3> QED BY <2>1, <2>2, IsASeq
  <2>4. \A i \in 1 .. Len(v) : v[i].index = i
    BY <2>3
  <2>5. MovesDown(v)
    <3> HIDE DEF v
    <3>1. Len(v) \in Nat
      BY <2>3, LenProperties
    <3> QED BY <2>4, <3>1 DEF MovesDown
  <2> QED BY <2>1, <2>3, <2>5
<1>3. indices' \in [Classes -> Seq(ObjectIndex)]
  <2>1. indices' = [c \in Classes |-> indices'[c]]
    BY DEF SnapshotLiveObjects
  <2> QED BY <1>2, <2>1
<1>4. ObjectsMoveDown'
  BY <1>2 DEF ObjectsMoveDown, MovesDown
<1> QED BY <1>1, <1>2, <1>3, <1>4 DEF IndInv, ListTypes, Recording

LEMMA BirthStep ==
  ASSUME IndInv, phase \in {"record", "repair"}, phase' \in {"record", "repair"},
         NEW c \in Classes, RecordBirth(c)
  PROVE  IndInv'
<1> DEFINE o == [born |-> TRUE, index |-> births + 1]
<1>1. /\ objs \in [Classes -> Seq(Pointer)] /\ indices \in [Classes -> Seq(ObjectIndex)]
      /\ births \in Nat /\ \A d \in Classes : Len(objs[d]) = Len(indices[d])
  BY DEF IndInv, ListTypes, Recording
<1>2. o \in ObjectIndex /\ births + 1 \in Nat \ {0} /\ Null \in Pointer
  BY <1>1 DEF ObjectIndex, Pointer
<1>3. /\ objs' = [objs EXCEPT ![c] = Append(objs[c], Null)]
      /\ indices' = [indices EXCEPT ![c] = Append(indices[c], o)]
      /\ births' = births + 1
  BY DEF RecordBirth
<1>4. /\ Append(objs[c], Null) \in Seq(Pointer)
      /\ Len(Append(objs[c], Null)) = Len(objs[c]) + 1
  BY <1>1, <1>2, AppendProperties
<1>5. /\ Append(indices[c], o) \in Seq(ObjectIndex)
      /\ Len(Append(indices[c], o)) = Len(indices[c]) + 1
  <2> HIDE DEF o
  <2> QED BY <1>1, <1>2, AppendProperties
<1>6. ListTypes'
  <2> HIDE DEF o
  <2> QED BY <1>1, <1>2, <1>3, <1>4, <1>5 DEF ListTypes
<1>7. Recording'
  <2> HIDE DEF o
  <2> QED BY <1>1, <1>3, <1>4, <1>5 DEF Recording
<1>8. \A d \in Classes : MovesDown(indices[d])
  BY MoveDownEach DEF IndInv
<1>9. MovesDown(Append(indices[c], o))
  BY <1>1, <1>2, <1>8, BirthMovesDown
<1>10. \A d \in Classes : MovesDown(indices'[d])
  <2> HIDE DEF o
  <2> QED BY <1>1, <1>3, <1>8, <1>9
<1>11. ObjectsMoveDown'
  BY <1>10 DEF ObjectsMoveDown, MovesDown
<1> QED BY <1>6, <1>7, <1>11 DEF IndInv

LEMMA DeathStep ==
  ASSUME IndInv, phase \in {"record", "repair"}, phase' \in {"record", "repair"},
         NEW c \in Classes, RecordDeath(c)
  PROVE  IndInv'
<1>1. /\ objs \in [Classes -> Seq(Pointer)] /\ indices \in [Classes -> Seq(ObjectIndex)]
      /\ births \in Nat /\ births' = births
      /\ \A d \in Classes : Len(objs[d]) = Len(indices[d])
  BY DEF IndInv, ListTypes, Recording, RecordDeath
<1>2. PICK k \in 1 .. Len(objs[c]) :
        /\ objs' = [objs EXCEPT ![c] = SwapRemove(objs[c], k)]
        /\ indices' = [indices EXCEPT ![c] = SwapRemove(indices[c], k)]
  BY DEF RecordDeath
<1>3. objs[c] # <<>> /\ indices[c] # <<>> /\ k \in 1 .. Len(indices[c])
  BY <1>1, <1>2, EmptySeq
<1>4. /\ SwapRemove(objs[c], k) \in Seq(Pointer)
      /\ Len(SwapRemove(objs[c], k)) = Len(objs[c]) - 1
  BY <1>1, <1>2, <1>3, SwapRemoveFacts
<1>5. /\ SwapRemove(indices[c], k) \in Seq(ObjectIndex)
      /\ Len(SwapRemove(indices[c], k)) = Len(indices[c]) - 1
  BY <1>1, <1>3, SwapRemoveFacts
<1>6. ListTypes'
  BY <1>1, <1>2, <1>4, <1>5 DEF ListTypes
<1>7. Recording'
  BY <1>1, <1>2, <1>4, <1>5 DEF Recording
<1>8. \A d \in Classes : MovesDown(indices[d])
  BY MoveDownEach DEF IndInv
<1>9. MovesDown(SwapRemove(indices[c], k))
  BY <1>1, <1>3, <1>8, DeathMovesDown
<1>10. \A d \in Classes : MovesDown(indices'[d])
  BY <1>1, <1>2, <1>8, <1>9
<1>11. ObjectsMoveDown'
  BY <1>10 DEF ObjectsMoveDown, MovesDown
<1> QED BY <1>6, <1>7, <1>11 DEF IndInv

(***************************************************************************)
(* Once the snapshot is restored, what was recorded does not change.       *)
(***************************************************************************)
LEMMA AfterRecording ==
  ASSUME RestoreSnapshot \/ Build \/ Replay \/ PrepareNextReplay \/ Destroy
  PROVE  phase' \notin {"fill", "record", "repair"} /\ UNCHANGED traceVars
BY DEF RestoreSnapshot, Build, BuildUpdateVectors, BuildDeath, SkipBirth, EndDeaths, BuildSlot,
       EndSlots, Replay, StartReplay, ReplayBirth, ReplayDeath, EndReplay, PrepareNextReplay,
       PrepareObj, PrepareBirth, PrepareDeath, EndLoop, Destroy

LEMMA NextStep == IndInv /\ [Next]_vars => IndInv'
<1> SUFFICES ASSUME IndInv, [Next]_vars PROVE IndInv'
  OBVIOUS
<1>1. ASSUME NEW c \in Classes, DoBirth(c) PROVE IndInv'
  <2>1. PICK p \in Addresses : objs' = [objs EXCEPT ![c] = Append(objs[c], p)]
    BY <1>1 DEF DoBirth
  <2>2. /\ phase = "fill" /\ phase' = "fill" /\ UNCHANGED <<indices, births>>
        /\ objs \in [Classes -> Seq(Pointer)] /\ p \in Pointer
    BY <1>1 DEF DoBirth, traceVars, IndInv, ListTypes, Pointer
  <2>3. objs' \in [Classes -> Seq(Pointer)]
    BY <2>1, <2>2, AppendProperties
  <2> QED BY <2>2, <2>3 DEF IndInv, ListTypes, Recording, ObjectsMoveDown
<1>2. CASE SnapshotLiveObjects
  BY <1>2, SnapshotStep
<1>3. CASE RecordNext
  <2>1. phase = "record" /\ phase' \in {"record", "repair"}
    BY <1>3 DEF RecordNext
  <2>2. PICK c \in Classes : RecordBirth(c) \/ RecordDeath(c)
    BY <1>3 DEF RecordNext
  <2> QED BY <2>1, <2>2, BirthStep, DeathStep
<1>4. CASE RecordRepair
  <2>1. phase = "repair" /\ phase' = "repair"
    BY <1>4 DEF RecordRepair
  <2>2. PICK c \in Classes : RecordBirth(c) \/ RecordDeath(c)
    BY <1>4 DEF RecordRepair, Unrepaired
  <2> QED BY <2>1, <2>2, BirthStep, DeathStep
<1>5. CASE RestoreSnapshot \/ Build \/ Replay \/ PrepareNextReplay \/ Destroy
  <2>1. phase' \notin {"fill", "record", "repair"} /\ UNCHANGED traceVars
    BY <1>5, AfterRecording
  <2> QED BY <2>1 DEF IndInv, ListTypes, Recording, ObjectsMoveDown, traceVars
<1>6. CASE UNCHANGED vars
  BY <1>6 DEF vars, traceVars, IndInv, ListTypes, Recording, ObjectsMoveDown
<1> QED BY <1>1, <1>2, <1>3, <1>4, <1>5, <1>6 DEF Next, Record, Destroyed

LEMMA InitStep == Init => IndInv
<1> SUFFICES ASSUME Init PROVE IndInv
  OBVIOUS
<1>1. /\ phase = "fill" /\ births = 0
      /\ indices = [c \in Classes |-> <<>>] /\ objs = [c \in Classes |-> <<>>]
  BY DEF Init, Nothing
<1>2. \A c \in Classes : Len(indices[c]) = 0
  BY <1>1
<1> QED BY <1>1, <1>2 DEF IndInv, ListTypes, Recording, ObjectsMoveDown

(***************************************************************************)
(* Types: of the trace, and of the counters of the loops.                  *)
(***************************************************************************)
LEMMA TraceTypesNext ==
  ASSUME IndInv, TraceTypes, [Next]_vars
  PROVE  TraceTypes'
<1>1. ASSUME NEW c \in Classes, RecordBirth(c) \/ RecordDeath(c), UNCHANGED snapshot,
             phase \in {"record", "repair"}
      PROVE  TraceTypes'
  <2>1. CASE RecordBirth(c)
    <3>1. [birth |-> TRUE, class |-> c] \in [birth : BOOLEAN, class : Classes]
      OBVIOUS
    <3>2. trace' \in Seq([birth : BOOLEAN, class : Classes])
      BY <2>1, <3>1, AppendProperties DEF RecordBirth, TraceTypes
    <3> QED BY <1>1, <2>1, <3>2 DEF RecordBirth, TraceTypes
  <2>2. CASE RecordDeath(c)
    <3>1. [birth |-> FALSE, class |-> c] \in [birth : BOOLEAN, class : Classes]
      OBVIOUS
    <3>2. trace' \in Seq([birth : BOOLEAN, class : Classes])
      BY <2>2, <3>1, AppendProperties DEF RecordDeath, TraceTypes
    <3>3. PICK k \in 1 .. Len(objs[c]) : deathIndices' = Append(deathIndices, indices[c][k])
      BY <2>2 DEF RecordDeath
    <3>4. indices[c][k] \in ObjectIndex
      BY <1>1, <3>3, ElementOfSeq DEF IndInv, ListTypes, Recording
    <3>5. deathIndices' \in Seq(ObjectIndex)
      BY <3>3, <3>4, AppendProperties DEF TraceTypes
    <3> QED BY <1>1, <3>2, <3>5 DEF TraceTypes
  <2> QED BY <1>1, <2>1, <2>2
<1>2. ASSUME NEW c \in Classes, DoBirth(c) PROVE TraceTypes'
  BY <1>2 DEF DoBirth, TraceTypes, traceVars
<1>3. CASE SnapshotLiveObjects
  BY <1>3 DEF SnapshotLiveObjects, TraceTypes, IndInv, ListTypes
<1>4. CASE RecordNext
  BY <1>1, <1>4 DEF RecordNext
<1>5. CASE RecordRepair
  BY <1>1, <1>5 DEF RecordRepair, Unrepaired
<1>6. CASE RestoreSnapshot \/ Build \/ Replay \/ PrepareNextReplay \/ Destroy
  BY <1>6, AfterRecording DEF TraceTypes, traceVars
<1>7. CASE UNCHANGED vars
  BY <1>7 DEF vars, traceVars, TraceTypes
<1> QED BY <1>2, <1>3, <1>4, <1>5, <1>6, <1>7 DEF Next, Record, Destroyed

LEMMA ScalarTypesNext ==
  ASSUME IndInv, TraceTypes, ScalarTypes, [Next]_vars
  PROVE  ScalarTypes'
<1> USE DEF ScalarTypes, Phases
<1>1. \A c \in Classes : c \in Nat /\ c # 0 /\ 1 \in Classes /\ (c < NumClasses => c + 1 \in Classes)
  BY EmpiricalAssumption DEF Classes
<1>2. ASSUME NEW c \in Classes, DoBirth(c) PROVE ScalarTypes'
  <2>1. heap' \in [Addresses -> Classes \cup {0}] /\ allocs' \in Nat
    BY <1>2 DEF DoBirth, Alloc
  <2> QED BY <1>2, <2>1 DEF DoBirth, replayVars, loopVars
<1>3. CASE SnapshotLiveObjects
  BY <1>3 DEF SnapshotLiveObjects, heapVars, replayVars, loopVars
<1>4. CASE Record
  BY <1>4 DEF Record, RecordNext, RecordRepair, RestoreSnapshot, heapVars, replayVars, loopVars
<1>5. CASE BuildUpdateVectors \/ SkipBirth \/ EndDeaths \/ EndSlots
  <2>1. /\ UNCHANGED <<heap, allocs, total, birthIndex, deathIndex, replays, loop>>
        /\ at' \in {1, at + 1} /\ deathAt' \in {1, deathAt}
        /\ phase' \in {"deaths", "slots", "ready"}
    BY <1>5 DEF BuildUpdateVectors, SkipBirth, EndDeaths, EndSlots, heapVars, replayVars
  <2>2. class' \in Classes
    BY <1>1, <1>5 DEF BuildUpdateVectors, SkipBirth, EndDeaths, EndSlots
  <2> QED BY <2>1, <2>2
<1>6. CASE BuildDeath \/ BuildSlot
  <2>1. /\ UNCHANGED <<phase, heap, allocs, total, birthIndex, deathIndex, replays, class, loop>>
        /\ at' = at + 1 /\ deathAt' \in {deathAt, deathAt + 1}
    BY <1>6 DEF BuildDeath, BuildSlot, heapVars, replayVars
  <2> QED BY <1>1, <2>1
<1>7. CASE ReplayBirth
  <2>1. NextOp.class \in Classes
    <3>1. birthIndex + deathIndex + 1 \in 1 .. Len(trace)
      BY <1>7, LenProperties DEF ReplayBirth, InTrace, TraceTypes
    <3>2. trace[birthIndex + deathIndex + 1] \in [birth : BOOLEAN, class : Classes]
      BY <3>1, ElementOfSeq DEF TraceTypes
    <3> QED BY <3>2 DEF NextOp
  <2>2. heap' \in [Addresses -> Classes \cup {0}] /\ allocs' \in Nat
    BY <1>7, <2>1 DEF ReplayBirth, Alloc
  <2> QED BY <1>7, <2>2 DEF ReplayBirth, loopVars
<1>8. CASE ReplayDeath
  <2>1. heap' \in [Addresses -> Classes \cup {0}]
    BY <1>8 DEF ReplayDeath, Dealloc
  <2> QED BY <1>8, <2>1 DEF ReplayDeath, loopVars
<1>9. CASE StartReplay
  BY <1>9 DEF StartReplay, heapVars, loopVars
<1>10. CASE EndReplay
  <2>1. births \in Nat /\ total' = total + births
    BY <1>10 DEF EndReplay, IndInv, ListTypes
  <2> QED BY <1>1, <1>10, <2>1 DEF EndReplay, heapVars, replayVars
<1>11. CASE PrepareNextReplay
  BY <1>1, <1>11 DEF PrepareNextReplay, PrepareObj, PrepareBirth, PrepareDeath, EndLoop,
                     heapVars, replayVars
<1>12. CASE Destroy
  <2>1. heap' \in [Addresses -> Classes \cup {0}]
    BY <1>12 DEF Destroy
  <2> QED BY <1>12, <2>1 DEF Destroy, replayVars, loopVars
<1>13. CASE UNCHANGED vars
  BY <1>13 DEF vars, heapVars, replayVars, loopVars
<1> QED BY <1>2, <1>3, <1>4, <1>5, <1>6, <1>7, <1>8, <1>9, <1>10, <1>11, <1>12, <1>13
        DEF Next, Build, Replay, Destroyed

LEMMA BaseInit == Init => TraceTypes /\ ScalarTypes
BY EmpiricalAssumption DEF Init, Nothing, TraceTypes, ScalarTypes, Phases, Classes

(***************************************************************************)
(* The lists of indices are what the recording keeps of the moves made by  *)
(* "objs[i] = objs.back()" (RecordDeath): an object of the snapshot is     *)
(* only ever moved down, and from then on its old slot and those after it  *)
(* hold no object of the snapshot.  PrepareNextReplay relies on it when it *)
(* updates objs in place.                                                  *)
(***************************************************************************)
THEOREM MovesDownCorrect == Spec => []ObjectsMoveDown
<1>1. IndInv => ObjectsMoveDown
  BY DEF IndInv
<1> QED BY <1>1, InitStep, NextStep, PTL DEF Spec

-----------------------------------------------------------------------------
(***************************************************************************)
(* Every object is accounted for once.                                     *)
(***************************************************************************)

(***************************************************************************)
(* How many members of a set of positions are at most k.                   *)
(***************************************************************************)
Count(S, k) == Cardinality(S \cap (1 .. k))

Births == {k \in 1 .. Len(trace) : trace[k].birth}
Deaths == {k \in 1 .. Len(trace) : ~trace[k].birth}

\* birth_object_index_ and death_object_index_ after k operations.
BirthsTo(k) == Count(Births, k)
DeathsTo(k) == Count(Deaths, k)

(***************************************************************************)
(* The objects of a class: those of the snapshot, by their slots, and      *)
(* those born in the recording.                                            *)
(***************************************************************************)
Old(i) == [born |-> FALSE, index |-> i]
New(b) == [born |-> TRUE, index |-> b]

Objects(c) ==
  {Old(i) : i \in 1 .. Len(snapshot[c])}
  \cup {New(BirthsTo(k)) : k \in {l \in Births : trace[l].class = c}}

\* The object that the death at position k of the trace frees.
Victim(k) == deathIndices[DeathsTo(k)]

-----------------------------------------------------------------------------
Counted == births = BirthsTo(Len(trace)) /\ Len(deathIndices) = DeathsTo(Len(trace))

SlotsHoldObjects ==
  \A c \in Classes : \A i \in 1 .. Len(indices[c]) : indices[c][i] \in Objects(c)

(***************************************************************************)
(* A death frees an object of its class, after the birth of that object.   *)
(***************************************************************************)
DeathsFreeObjects ==
  \A c \in Classes : \A k \in Deaths :
    trace[k].class = c =>
      Victim(k) \in Objects(c) /\ (Victim(k).born => Victim(k).index <= BirthsTo(k))

NoneForgotten ==
  \A c \in Classes : \A o \in Objects(c) :
    \/ \E i \in 1 .. Len(indices[c]) : indices[c][i] = o
    \/ \E k \in Deaths : trace[k].class = c /\ Victim(k) = o

NoneTwice ==
  /\ \A c \in Classes : \A i, j \in 1 .. Len(indices[c]) :
       indices[c][i] = indices[c][j] => i = j
  /\ \A k, l \in Deaths :
       trace[k].class = trace[l].class /\ Victim(k) = Victim(l) => k = l
  /\ \A c \in Classes : \A k \in Deaths : \A i \in 1 .. Len(indices[c]) :
       trace[k].class = c => indices[c][i] # Victim(k)

Recorded ==
  Counted /\ SlotsHoldObjects /\ DeathsFreeObjects /\ NoneForgotten /\ NoneTwice

-----------------------------------------------------------------------------
(***************************************************************************)
(* Counting positions.                                                     *)
(***************************************************************************)
LEMMA CountFacts ==
  ASSUME NEW S \in SUBSET (Nat \ {0}), NEW k \in Nat
  PROVE  /\ Count(S, k) \in Nat
         /\ Count(S, 0) = 0
         /\ Count(S, k + 1) = Count(S, k) + (IF k + 1 \in S THEN 1 ELSE 0)
         /\ \A j \in 0 .. k : Count(S, j) <= Count(S, k)
         /\ k \in S => \A j \in 0 .. k - 1 : Count(S, j) < Count(S, k)
<1>1. \A j \in Nat : IsFiniteSet(S \cap (1 .. j)) /\ Cardinality(S \cap (1 .. j)) \in Nat
  <2> TAKE j \in Nat
  <2>1. IsFiniteSet(1 .. j) /\ S \cap (1 .. j) \in SUBSET (1 .. j)
    BY FS_Interval
  <2> QED BY <2>1, FS_Subset, FS_CardinalityType
<1>2. Count(S, 0) = 0
  <2>1. S \cap (1 .. 0) = {}
    OBVIOUS
  <2> QED BY <2>1, FS_EmptySet DEF Count
<1>3. \A j \in Nat : Count(S, j + 1) = Count(S, j) + (IF j + 1 \in S THEN 1 ELSE 0)
  <2> TAKE j \in Nat
  <2>1. CASE j + 1 \in S
    <3>1. S \cap (1 .. j + 1) = (S \cap (1 .. j)) \cup {j + 1} /\ j + 1 \notin S \cap (1 .. j)
      BY <2>1
    <3> QED BY <1>1, <2>1, <3>1, FS_AddElement DEF Count
  <2>2. CASE j + 1 \notin S
    <3>1. S \cap (1 .. j + 1) = S \cap (1 .. j)
      BY <2>2
    <3> QED BY <1>1, <2>2, <3>1 DEF Count
  <2> QED BY <2>1, <2>2
<1>4. \A m \in Nat : \A j \in 0 .. m : Count(S, j) <= Count(S, m)
  <2> TAKE m \in Nat
  <2> TAKE j \in 0 .. m
  <2>1. S \cap (1 .. j) \in SUBSET (S \cap (1 .. m))
    OBVIOUS
  <2> QED BY <1>1, <2>1, FS_Subset DEF Count
<1>5. ASSUME k \in S, NEW j \in 0 .. k - 1 PROVE Count(S, j) < Count(S, k)
  <2>1. k - 1 \in Nat /\ (k - 1) + 1 = k /\ j \in Nat
    BY <1>5
  <2>2. Count(S, k) = Count(S, k - 1) + 1
    BY <1>3, <1>5, <2>1
  <2>3. Count(S, j) <= Count(S, k - 1)
    BY <1>4, <2>1
  <2>4. Count(S, j) \in Nat /\ Count(S, k - 1) \in Nat
    BY <1>1, <2>1 DEF Count
  <2> QED BY <2>2, <2>3, <2>4
<1> QED BY <1>1, <1>2, <1>3, <1>4, <1>5 DEF Count

LEMMA CountSame ==
  ASSUME NEW S \in SUBSET (Nat \ {0}), NEW n \in Nat, NEW k \in 0 .. n
  PROVE  Count(S \cup {n + 1}, k) = Count(S, k)
<1>1. (S \cup {n + 1}) \cap (1 .. k) = S \cap (1 .. k)
  OBVIOUS
<1> QED BY <1>1 DEF Count

\* Counted positions are numbered without gaps or repetitions.
LEMMA CountOnce ==
  ASSUME NEW S \in SUBSET (Nat \ {0}), NEW k \in S, NEW l \in S, Count(S, k) = Count(S, l)
  PROVE  k = l
<1>1. k \in Nat /\ l \in Nat
  OBVIOUS
<1>2. Count(S, k) \in Nat /\ Count(S, l) \in Nat
  BY <1>1, CountFacts
<1>3. \A j \in 0 .. l - 1 : Count(S, j) < Count(S, l)
  BY <1>1, CountFacts
<1>4. \A j \in 0 .. k - 1 : Count(S, j) < Count(S, k)
  BY <1>1, CountFacts
<1>5. ~(k < l)
  BY <1>1, <1>2, <1>3
<1>6. ~(l < k)
  BY <1>1, <1>2, <1>4
<1> QED BY <1>1, <1>5, <1>6

(***************************************************************************)
(* The positions of births and deaths, and their numbers.                  *)
(***************************************************************************)
LEMMA Positions ==
  ASSUME TraceTypes
  PROVE  /\ Len(trace) \in Nat
         /\ Births \in SUBSET (Nat \ {0}) /\ Deaths \in SUBSET (Nat \ {0})
         /\ \A k \in 1 .. Len(trace) : trace[k].class \in Classes /\ trace[k].birth \in BOOLEAN
         /\ \A k \in Nat : BirthsTo(k) \in Nat /\ DeathsTo(k) \in Nat
         /\ \A k \in Births : BirthsTo(k) \in 1 .. BirthsTo(Len(trace))
         /\ \A k \in Deaths : DeathsTo(k) \in 1 .. DeathsTo(Len(trace))
<1>1. trace \in Seq([birth : BOOLEAN, class : Classes]) /\ Len(trace) \in Nat
  BY LenProperties DEF TraceTypes
<1>2. Births \in SUBSET (Nat \ {0}) /\ Deaths \in SUBSET (Nat \ {0})
  BY <1>1 DEF Births, Deaths
<1>3. ASSUME NEW k \in 1 .. Len(trace)
      PROVE  trace[k].class \in Classes /\ trace[k].birth \in BOOLEAN
  <2>1. trace[k] \in [birth : BOOLEAN, class : Classes]
    BY <1>1, ElementOfSeq
  <2> QED BY <2>1
<1>4. ASSUME NEW S \in SUBSET (Nat \ {0}), NEW k \in S, k <= Len(trace)
      PROVE  Count(S, k) \in 1 .. Count(S, Len(trace))
  <2>1. k \in Nat /\ 0 \in 0 .. k - 1 /\ k \in 0 .. Len(trace)
    BY <1>1, <1>4
  <2>2. Count(S, k) \in Nat /\ Count(S, Len(trace)) \in Nat /\ Count(S, 0) = 0
    BY <1>1, <2>1, CountFacts
  <2>3. Count(S, 0) < Count(S, k) /\ Count(S, k) <= Count(S, Len(trace))
    BY <1>1, <2>1, CountFacts
  <2> QED BY <2>2, <2>3
<1>5. \A k \in Nat : BirthsTo(k) \in Nat /\ DeathsTo(k) \in Nat
  BY <1>2, CountFacts DEF BirthsTo, DeathsTo
<1>6. \A k \in Births : k <= Len(trace)
  BY <1>1 DEF Births
<1>7. \A k \in Deaths : k <= Len(trace)
  BY <1>1 DEF Deaths
<1>8. \A k \in Births : BirthsTo(k) \in 1 .. BirthsTo(Len(trace))
  BY <1>2, <1>4, <1>6 DEF BirthsTo
<1>9. \A k \in Deaths : DeathsTo(k) \in 1 .. DeathsTo(Len(trace))
  BY <1>2, <1>4, <1>7 DEF DeathsTo
<1> QED BY <1>1, <1>2, <1>3, <1>5, <1>8, <1>9

LEMMA ObjectsIff ==
  ASSUME NEW c, NEW o
  PROVE  o \in Objects(c) <=>
           \/ \E i \in 1 .. Len(snapshot[c]) : o = Old(i)
           \/ \E k \in Births : trace[k].class = c /\ o = New(BirthsTo(k))
BY DEF Objects

(***************************************************************************)
(* RecordBirth: a position and an object more, which is in the last slot.  *)
(***************************************************************************)
LEMMA BirthFacts ==
  ASSUME IndInv, TraceTypes, Counted, NEW c \in Classes, RecordBirth(c), UNCHANGED snapshot
  PROVE  /\ Len(trace') = Len(trace) + 1
         /\ \A k \in 1 .. Len(trace) : trace'[k] = trace[k]
         /\ Deaths' = Deaths
         /\ \A k : DeathsTo(k)' = DeathsTo(k)
         /\ \A k \in 0 .. Len(trace) : BirthsTo(k)' = BirthsTo(k)
         /\ BirthsTo(Len(trace))' = births + 1
         /\ \A d : d # c => Objects(d)' = Objects(d)
         /\ Objects(c)' = Objects(c) \cup {New(births + 1)}
<1> DEFINE op == [birth |-> TRUE, class |-> c]
<1>0. PICK n \in Nat : n = Len(trace)
  BY LenProperties DEF TraceTypes
<1>1. op \in [birth : BOOLEAN, class : Classes] /\ op.birth /\ op.class = c
  OBVIOUS
<1> HIDE DEF op
<1>2. /\ trace \in Seq([birth : BOOLEAN, class : Classes]) /\ n \in Nat
      /\ trace' = Append(trace, op)
  BY DEF TraceTypes, RecordBirth, op
<1>3. /\ Len(trace') = n + 1 /\ trace'[n + 1] = op
      /\ \A k \in 1 .. n : trace'[k] = trace[k]
  BY <1>0, <1>1, <1>2, AppendProperties
<1>4. Births' = Births \cup {n + 1} /\ Deaths' = Deaths
  BY <1>0, <1>1, <1>2, <1>3 DEF Births, Deaths
<1>5. \A k : DeathsTo(k)' = DeathsTo(k)
  BY <1>4 DEF DeathsTo, Count
<1>6. Births \in SUBSET (Nat \ {0})
  BY Positions
<1>7. ASSUME NEW k \in 0 .. n PROVE BirthsTo(k)' = BirthsTo(k)
  BY <1>2, <1>4, <1>6, CountSame DEF BirthsTo
<1>8. BirthsTo(n + 1)' = births + 1
  <2>1. Births \cup {n + 1} \in SUBSET (Nat \ {0})
    BY <1>2, <1>6
  <2>2. Count(Births \cup {n + 1}, n + 1) = Count(Births \cup {n + 1}, n) + 1
    BY <1>2, <2>1, CountFacts
  <2>3. Count(Births \cup {n + 1}, n) = births
    BY <1>0, <1>6, CountSame DEF Counted, BirthsTo
  <2> QED BY <1>4, <2>2, <2>3 DEF BirthsTo
<1>9. ASSUME NEW d, NEW o
      PROVE  o \in Objects(d)' <=> o \in Objects(d) \/ (d = c /\ o = New(births + 1))
  <2>1. o \in Objects(d)' <=>
          \/ \E i \in 1 .. Len(snapshot[d]) : o = Old(i)
          \/ \E k \in Births' : trace'[k].class = d /\ o = New(BirthsTo(k)')
    BY DEF Objects, New, Old
  <2>2. \A k \in Births : k \in 0 .. n /\ trace'[k] = trace[k]
    BY <1>0, <1>3 DEF Births
  <2>3. (\E k \in Births' : trace'[k].class = d /\ o = New(BirthsTo(k)')) <=>
          \/ \E k \in Births : trace[k].class = d /\ o = New(BirthsTo(k))
          \/ d = c /\ o = New(births + 1)
    <3> HIDE DEF New
    <3> QED BY <1>1, <1>3, <1>4, <1>7, <1>8, <2>2
  <2> QED BY <2>1, <2>3, ObjectsIff
<1>10. ASSUME NEW d, d # c PROVE Objects(d)' = Objects(d)
  <2>1. \A o : o \in Objects(d)' <=> o \in Objects(d)
    BY <1>9, <1>10
  <2> QED BY <2>1
<1>11. Objects(c)' = Objects(c) \cup {New(births + 1)}
  BY <1>9
<1>12. BirthsTo(Len(trace))' = births + 1
  <2>1. BirthsTo(Len(trace))' = Count(Births', Len(trace')) /\ BirthsTo(n + 1)' = Count(Births', n + 1)
    BY DEF BirthsTo
  <2> QED BY <1>3, <1>8, <2>1
<1> QED BY <1>0, <1>3, <1>4, <1>5, <1>7, <1>10, <1>11, <1>12

LEMMA FreshObject ==
  ASSUME TraceTypes, Counted, NEW c
  PROVE  New(births + 1) \notin Objects(c)
<1>1. births \in Nat /\ \A k \in Births : BirthsTo(k) \in 1 .. births
  BY Positions DEF Counted
<1>2. \A i : New(births + 1) # Old(i)
  BY DEF New, Old
<1>3. \A k \in Births : New(births + 1) # New(BirthsTo(k))
  BY <1>1 DEF New
<1> QED BY <1>2, <1>3, ObjectsIff

LEMMA BirthRecorded ==
  ASSUME IndInv, TraceTypes, Recorded, NEW c \in Classes, RecordBirth(c), UNCHANGED snapshot
  PROVE  Recorded'
<1> DEFINE new == New(births + 1)
<1>1. PICK n \in Nat : n = Len(trace)
  BY Positions
<1>2. /\ Len(trace') = n + 1
      /\ \A k \in 1 .. n : trace'[k] = trace[k]
      /\ Deaths' = Deaths
      /\ \A k : DeathsTo(k)' = DeathsTo(k)
      /\ \A k \in 0 .. n : BirthsTo(k)' = BirthsTo(k)
      /\ BirthsTo(Len(trace))' = births + 1
      /\ \A d : d # c => Objects(d)' = Objects(d)
      /\ Objects(c)' = Objects(c) \cup {new}
  BY <1>1, BirthFacts DEF Recorded
<1>3. births' = births + 1 /\ deathIndices' = deathIndices
  BY DEF RecordBirth
<1>4. \A d : new \notin Objects(d)
  BY FreshObject DEF Recorded
<1>5. /\ indices' = [indices EXCEPT ![c] = Append(indices[c], new)]
      /\ indices \in [Classes -> Seq(ObjectIndex)] /\ births \in Nat
  BY DEF RecordBirth, New, IndInv, ListTypes
<1>6. new \in ObjectIndex
  BY <1>5 DEF New, ObjectIndex
<1> HIDE DEF new
<1>7. PICK m \in Nat : m = Len(indices[c])
  BY <1>5, LenProperties
<1>8. /\ \A d \in Classes : d # c => indices'[d] = indices[d]
      /\ Len(indices'[c]) = m + 1 /\ indices'[c][m + 1] = new
      /\ \A i \in 1 .. m : indices'[c][i] = indices[c][i]
  BY <1>5, <1>6, <1>7, AppendProperties
<1>9. /\ \A k \in Deaths : k \in 1 .. n /\ k \in 0 .. n /\ trace'[k] = trace[k]
      /\ \A k : Victim(k)' = Victim(k)
  BY <1>1, <1>2, <1>3 DEF Victim, Deaths
<1>10. Counted'
  <2>1. Deaths \in SUBSET (Nat \ {0}) /\ n + 1 \notin Deaths
    <3>1. n + 1 \notin 1 .. n
      OBVIOUS
    <3> QED BY <1>9, <3>1, Positions
  <2>2. Count(Deaths, n + 1) = Count(Deaths, n)
    <3>1. /\ Count(Deaths, n) \in Nat
          /\ Count(Deaths, n + 1) = Count(Deaths, n) + (IF n + 1 \in Deaths THEN 1 ELSE 0)
      BY <2>1, CountFacts
    <3> QED BY <2>1, <3>1
  <2>3. DeathsTo(Len(trace))' = Count(Deaths, n + 1) /\ DeathsTo(Len(trace)) = Count(Deaths, n)
    <3>1. DeathsTo(Len(trace))' = Count(Deaths', Len(trace'))
      BY DEF DeathsTo
    <3> QED BY <1>1, <1>2, <3>1 DEF DeathsTo
  <2> QED BY <1>2, <1>3, <2>2, <2>3 DEF Recorded, Counted
<1>11. SlotsHoldObjects'
  <2> SUFFICES ASSUME NEW d \in Classes, NEW i \in 1 .. Len(indices'[d])
               PROVE  indices'[d][i] \in Objects(d)'
    BY DEF SlotsHoldObjects
  <2>1. CASE d # c
    BY <1>2, <1>8, <2>1 DEF Recorded, SlotsHoldObjects
  <2>2. CASE d = c
    BY <1>2, <1>7, <1>8, <2>2 DEF Recorded, SlotsHoldObjects
  <2> QED BY <2>1, <2>2
<1>12. \A d : Objects(d) \subseteq Objects(d)'
  BY <1>2
<1>13. DeathsFreeObjects'
  <2> SUFFICES ASSUME NEW d \in Classes, NEW k \in Deaths', trace'[k].class = d
               PROVE  /\ Victim(k)' \in Objects(d)'
                      /\ Victim(k)'.born => Victim(k)'.index <= BirthsTo(k)'
    BY DEF DeathsFreeObjects
  <2>1. k \in Deaths /\ trace[k].class = d /\ Victim(k)' = Victim(k) /\ BirthsTo(k)' = BirthsTo(k)
    BY <1>2, <1>9
  <2>2. Victim(k) \in Objects(d) /\ (Victim(k).born => Victim(k).index <= BirthsTo(k))
    BY <2>1 DEF Recorded, DeathsFreeObjects
  <2> QED BY <1>12, <2>1, <2>2
<1>14. NoneForgotten'
  <2> SUFFICES ASSUME NEW d \in Classes, NEW o \in Objects(d)'
               PROVE  \/ \E i \in 1 .. Len(indices'[d]) : indices'[d][i] = o
                      \/ \E k \in Deaths' : trace'[k].class = d /\ Victim(k)' = o
    BY DEF NoneForgotten
  <2>1. CASE o \in Objects(d)
    <3>1. CASE \E i \in 1 .. Len(indices[d]) : indices[d][i] = o
      BY <1>7, <1>8, <3>1
    <3>2. CASE \E k \in Deaths : trace[k].class = d /\ Victim(k) = o
      BY <1>2, <1>9, <3>2
    <3> QED BY <2>1, <3>1, <3>2 DEF Recorded, NoneForgotten
  <2>2. CASE d = c /\ o = new
    BY <1>7, <1>8, <2>2
  <2> QED BY <1>2, <2>1, <2>2
<1>15. NoneTwice'
  <2>1. /\ \A i \in 1 .. m : indices[c][i] # new
        /\ \A k \in Deaths : trace[k].class = c => Victim(k) # new
    BY <1>4, <1>7 DEF Recorded, SlotsHoldObjects, DeathsFreeObjects
  <2>2. ASSUME NEW d \in Classes, NEW i \in 1 .. Len(indices'[d]), NEW j \in 1 .. Len(indices'[d]),
               indices'[d][i] = indices'[d][j]
        PROVE  i = j
    <3>1. CASE d # c
      BY <1>8, <2>2, <3>1 DEF Recorded, NoneTwice
    <3>2. CASE d = c
      BY <1>7, <1>8, <2>1, <2>2, <3>2 DEF Recorded, NoneTwice
    <3> QED BY <3>1, <3>2
  <2>3. ASSUME NEW k \in Deaths', NEW l \in Deaths', trace'[k].class = trace'[l].class,
               Victim(k)' = Victim(l)'
        PROVE  k = l
    BY <1>2, <1>9, <2>3 DEF Recorded, NoneTwice
  <2>4. ASSUME NEW d \in Classes, NEW k \in Deaths', NEW i \in 1 .. Len(indices'[d]),
               trace'[k].class = d
        PROVE  indices'[d][i] # Victim(k)'
    <3>1. k \in Deaths /\ trace[k].class = d /\ Victim(k)' = Victim(k)
      BY <1>2, <1>9, <2>4
    <3>2. CASE d # c
      BY <1>8, <3>1, <3>2 DEF Recorded, NoneTwice
    <3>3. CASE d = c
      BY <1>7, <1>8, <2>1, <3>1, <3>3 DEF Recorded, NoneTwice
    <3> QED BY <3>2, <3>3
  <2> QED BY <2>2, <2>3, <2>4 DEF NoneTwice
<1> QED BY <1>10, <1>11, <1>13, <1>14, <1>15 DEF Recorded

(***************************************************************************)
(* RecordDeath: a position more, whose victim leaves its slot; the last    *)
(* object takes that slot.                                                 *)
(***************************************************************************)
LEMMA DeathFacts ==
  ASSUME IndInv, TraceTypes, Counted, NEW c \in Classes, NEW victim \in ObjectIndex,
         trace' = Append(trace, [birth |-> FALSE, class |-> c]),
         deathIndices' = Append(deathIndices, victim), UNCHANGED <<snapshot, births>>
  PROVE  /\ Len(trace') = Len(trace) + 1
         /\ \A k \in 1 .. Len(trace) : trace'[k] = trace[k]
         /\ trace'[Len(trace) + 1].class = c
         /\ Deaths' = Deaths \cup {Len(trace) + 1}
         /\ \A k : BirthsTo(k)' = BirthsTo(k)
         /\ \A k \in Deaths : Victim(k)' = Victim(k)
         /\ \A k : k = Len(trace) + 1 => Victim(k)' = victim
         /\ \A d : Objects(d)' = Objects(d)
         /\ BirthsTo(Len(trace) + 1) = births
         /\ Counted'
<1> DEFINE op == [birth |-> FALSE, class |-> c]
<1>0. PICK n \in Nat : n = Len(trace)
  BY LenProperties DEF TraceTypes
<1>1. op \in [birth : BOOLEAN, class : Classes] /\ ~op.birth /\ op.class = c
  OBVIOUS
<1> HIDE DEF op
<1>2. trace \in Seq([birth : BOOLEAN, class : Classes]) /\ trace' = Append(trace, op)
  BY DEF TraceTypes, op
<1>3. /\ Len(trace') = n + 1 /\ trace'[n + 1] = op
      /\ \A k \in 1 .. n : trace'[k] = trace[k]
  BY <1>0, <1>1, <1>2, AppendProperties
<1>4. Deaths' = Deaths \cup {n + 1} /\ Births' = Births
  BY <1>0, <1>1, <1>2, <1>3 DEF Births, Deaths
<1>5. \A k : BirthsTo(k)' = BirthsTo(k)
  BY <1>4 DEF BirthsTo, Count
<1>6. Deaths \in SUBSET (Nat \ {0}) /\ Births \in SUBSET (Nat \ {0})
  BY Positions
<1>7. PICK q \in Nat : q = Len(deathIndices)
  BY LenProperties DEF TraceTypes
<1>8. ASSUME NEW k \in 0 .. n PROVE DeathsTo(k)' = DeathsTo(k)
  BY <1>4, <1>6, CountSame DEF DeathsTo
<1>9. DeathsTo(n + 1)' = q + 1
  <2>1. Deaths \cup {n + 1} \in SUBSET (Nat \ {0})
    BY <1>6
  <2>2. Count(Deaths \cup {n + 1}, n + 1) = Count(Deaths \cup {n + 1}, n) + 1
    BY <2>1, CountFacts
  <2>3. Count(Deaths \cup {n + 1}, n) = q
    BY <1>0, <1>6, <1>7, CountSame DEF Counted, DeathsTo
  <2> QED BY <1>4, <2>2, <2>3 DEF DeathsTo
<1>10. /\ Len(deathIndices') = q + 1 /\ deathIndices'[q + 1] = victim
       /\ \A j \in 1 .. q : deathIndices'[j] = deathIndices[j]
  BY <1>7, AppendProperties DEF TraceTypes
<1>11. ASSUME NEW k \in Deaths PROVE Victim(k)' = Victim(k)
  <2>1. k \in 0 .. n
    BY <1>0 DEF Deaths
  <2>2. DeathsTo(k) \in 1 .. q
    BY <1>7, Positions DEF Counted
  <2> QED BY <1>8, <1>10, <2>1, <2>2 DEF Victim
<1>12. Victim(n + 1)' = victim
  BY <1>9, <1>10 DEF Victim
<1>13. ASSUME NEW d PROVE Objects(d)' = Objects(d)
  <2>1. \A k \in Births : trace'[k] = trace[k]
    BY <1>0, <1>3 DEF Births
  <2>2. ASSUME NEW o PROVE o \in Objects(d)' <=> o \in Objects(d)
    <3>0. o \in Objects(d)' <=>
            \/ \E i \in 1 .. Len(snapshot[d]) : o = Old(i)
            \/ \E k \in Births' : trace'[k].class = d /\ o = New(BirthsTo(k)')
      BY DEF Objects, New, Old
    <3>1. (\E k \in Births' : trace'[k].class = d /\ o = New(BirthsTo(k)')) <=>
            \E k \in Births : trace[k].class = d /\ o = New(BirthsTo(k))
      BY <1>4, <1>5, <2>1
    <3>2. o \in Objects(d) <=>
            \/ \E i \in 1 .. Len(snapshot[d]) : o = Old(i)
            \/ \E k \in Births : trace[k].class = d /\ o = New(BirthsTo(k))
      BY ObjectsIff
    <3> QED BY <3>0, <3>1, <3>2
  <2> QED BY <2>2
<1>14. BirthsTo(n + 1) = births /\ BirthsTo(n) = births
  <2>1. n + 1 \notin Births
    BY <1>0 DEF Births
  <2>2. /\ Count(Births, n) \in Nat
        /\ Count(Births, n + 1) = Count(Births, n) + (IF n + 1 \in Births THEN 1 ELSE 0)
    BY <1>6, CountFacts
  <2> QED BY <1>0, <2>1, <2>2 DEF BirthsTo, Counted
<1>15. Counted'
  <2>1. /\ DeathsTo(Len(trace))' = Count(Deaths', Len(trace')) /\ DeathsTo(n + 1)' = Count(Deaths', n + 1)
        /\ BirthsTo(Len(trace))' = Count(Births', Len(trace')) /\ BirthsTo(n + 1)' = Count(Births', n + 1)
    BY DEF DeathsTo, BirthsTo
  <2>2. DeathsTo(Len(trace))' = q + 1 /\ BirthsTo(Len(trace))' = births
    BY <1>3, <1>5, <1>9, <1>14, <2>1
  <2> QED BY <1>10, <2>2 DEF Counted
<1> QED BY <1>0, <1>1, <1>3, <1>4, <1>5, <1>11, <1>12, <1>13, <1>14, <1>15

LEMMA DeathRecorded ==
  ASSUME IndInv, TraceTypes, Recorded, phase \in {"record", "repair"},
         NEW c \in Classes, RecordDeath(c), UNCHANGED snapshot
  PROVE  Recorded'
<1>1. PICK n \in Nat : n = Len(trace)
  BY Positions
<1>2. PICK m \in Nat : m = Len(indices[c])
  BY LenProperties DEF IndInv, ListTypes
<1>3. PICK s \in 1 .. m :
        /\ trace' = Append(trace, [birth |-> FALSE, class |-> c])
        /\ deathIndices' = Append(deathIndices, indices[c][s])
        /\ indices' = [indices EXCEPT ![c] = SwapRemove(indices[c], s)]
        /\ births' = births
  BY <1>2 DEF RecordDeath, IndInv, Recording
<1>4. PICK victim \in ObjectIndex : victim = indices[c][s]
  BY <1>2, ElementOfSeq DEF IndInv, ListTypes
<1>5. /\ Len(trace') = n + 1
      /\ \A k \in 1 .. n : trace'[k] = trace[k]
      /\ trace'[n + 1].class = c
      /\ Deaths' = Deaths \cup {n + 1}
      /\ \A k : BirthsTo(k)' = BirthsTo(k)
      /\ \A k \in Deaths : Victim(k)' = Victim(k)
      /\ Victim(n + 1)' = victim
      /\ \A d : Objects(d)' = Objects(d)
      /\ BirthsTo(n + 1) = births
      /\ Counted'
  BY <1>1, <1>3, <1>4, DeathFacts DEF Recorded
<1>6. /\ indices \in [Classes -> Seq(ObjectIndex)] /\ indices[c] # <<>>
      /\ \A d \in Classes : d # c => indices'[d] = indices[d]
      /\ indices'[c] = SwapRemove(indices[c], s)
  BY <1>2, <1>3, EmptySeq DEF IndInv, ListTypes
<1>7. /\ Len(indices'[c]) = m - 1
      /\ \A i \in 1 .. m - 1 : indices'[c][i] = IF i = s THEN indices[c][m] ELSE indices[c][i]
  <2>1. indices[c] \in Seq(ObjectIndex) /\ s \in 1 .. Len(indices[c])
    BY <1>2, <1>6
  <2> QED BY <1>2, <1>6, <2>1, SwapRemoveFacts
<1>8. \A k \in Deaths : k \in 1 .. n /\ trace'[k] = trace[k] /\ k # n + 1
  BY <1>1, <1>5 DEF Deaths
<1>9. victim \in Objects(c) /\ m \in 1 .. m
  BY <1>2, <1>3, <1>4 DEF Recorded, SlotsHoldObjects
<1>10. SlotsHoldObjects'
  <2> SUFFICES ASSUME NEW d \in Classes, NEW i \in 1 .. Len(indices'[d])
               PROVE  indices'[d][i] \in Objects(d)'
    BY DEF SlotsHoldObjects
  <2>1. CASE d # c
    BY <1>5, <1>6, <2>1 DEF Recorded, SlotsHoldObjects
  <2>2. CASE d = c
    <3>1. \A j \in 1 .. m : indices[c][j] \in Objects(c)
      BY <1>2 DEF Recorded, SlotsHoldObjects
    <3>2. i \in 1 .. m - 1
      BY <1>7, <2>2
    <3>3. indices'[c][i] = indices[c][m] \/ indices'[c][i] = indices[c][i]
      BY <1>7, <3>2
    <3>4. m \in 1 .. m /\ i \in 1 .. m
      BY <1>9, <3>2
    <3>5. indices'[c][i] \in Objects(c)
      BY <3>1, <3>3, <3>4
    <3> QED BY <1>5, <2>2, <3>5
  <2> QED BY <2>1, <2>2
<1>11. DeathsFreeObjects'
  <2> SUFFICES ASSUME NEW d \in Classes, NEW k \in Deaths', trace'[k].class = d
               PROVE  /\ Victim(k)' \in Objects(d)'
                      /\ Victim(k)'.born => Victim(k)'.index <= BirthsTo(k)'
    BY DEF DeathsFreeObjects
  <2>1. CASE k \in Deaths
    <3>1. Victim(k) \in Objects(d) /\ (Victim(k).born => Victim(k).index <= BirthsTo(k))
      BY <1>8, <2>1 DEF Recorded, DeathsFreeObjects
    <3> QED BY <1>5, <2>1, <3>1
  <2>2. CASE k = n + 1
    <3>1. victim.born => victim.index <= births
      <4>1. \A i : ~Old(i).born
        BY DEF Old
      <4>2. \A l \in Births : New(BirthsTo(l)).index <= births
        BY Positions DEF New, Recorded, Counted
      <4> QED BY <1>9, <4>1, <4>2, ObjectsIff
    <3> QED BY <1>5, <1>9, <2>2, <3>1
  <2> QED BY <1>5, <2>1, <2>2
<1>12. NoneForgotten'
  <2> SUFFICES ASSUME NEW d \in Classes, NEW o \in Objects(d)'
               PROVE  \/ \E i \in 1 .. Len(indices'[d]) : indices'[d][i] = o
                      \/ \E k \in Deaths' : trace'[k].class = d /\ Victim(k)' = o
    BY DEF NoneForgotten
  <2>1. CASE \E i \in 1 .. Len(indices[d]) : indices[d][i] = o
    <3>1. PICK i \in 1 .. Len(indices[d]) : indices[d][i] = o
      BY <2>1
    <3>2. CASE d # c
      BY <1>6, <3>1, <3>2
    <3>3. CASE d = c /\ i = s
      BY <1>4, <1>5, <3>1, <3>3
    <3>4. CASE d = c /\ i # s /\ i = m
      BY <1>7, <3>1, <3>4
    <3>5. CASE d = c /\ i # s /\ i # m
      BY <1>2, <1>7, <3>1, <3>5
    <3> QED BY <3>2, <3>3, <3>4, <3>5
  <2>2. CASE \E k \in Deaths : trace[k].class = d /\ Victim(k) = o
    BY <1>5, <1>8, <2>2
  <2> QED BY <1>5, <2>1, <2>2 DEF Recorded, NoneForgotten
<1>13. NoneTwice'
  <2>1. /\ \A i, j \in 1 .. m : indices[c][i] = indices[c][j] => i = j
        /\ \A k \in Deaths : \A i \in 1 .. m : trace[k].class = c => indices[c][i] # Victim(k)
    BY <1>2 DEF Recorded, NoneTwice
  <2>2. ASSUME NEW d \in Classes, NEW i \in 1 .. Len(indices'[d]), NEW j \in 1 .. Len(indices'[d]),
               indices'[d][i] = indices'[d][j]
        PROVE  i = j
    <3>1. CASE d # c
      BY <1>6, <2>2, <3>1 DEF Recorded, NoneTwice
    <3>2. CASE d = c
      BY <1>7, <2>1, <2>2, <3>2
    <3> QED BY <3>1, <3>2
  <2>3. ASSUME NEW k \in Deaths', NEW l \in Deaths', trace'[k].class = trace'[l].class,
               Victim(k)' = Victim(l)'
        PROVE  k = l
    <3>1. \A j \in Deaths : trace'[j].class = c => Victim(j)' # victim
      BY <1>4, <1>5, <1>8, <2>1
    <3>2. CASE k \in Deaths /\ l \in Deaths
      BY <1>5, <1>8, <2>3, <3>2 DEF Recorded, NoneTwice
    <3> QED BY <1>5, <2>3, <3>1, <3>2
  <2>4. ASSUME NEW d \in Classes, NEW k \in Deaths', NEW i \in 1 .. Len(indices'[d]),
               trace'[k].class = d
        PROVE  indices'[d][i] # Victim(k)'
    <3>1. CASE d # c
      <4>1. k \in Deaths
        BY <1>5, <2>4, <3>1
      <4>2. trace[k].class = d /\ Victim(k)' = Victim(k) /\ indices'[d] = indices[d]
        BY <1>5, <1>6, <1>8, <2>4, <3>1, <4>1
      <4> QED BY <4>1, <4>2 DEF Recorded, NoneTwice
    <3>2. CASE d = c /\ k \in Deaths
      <4>1. trace[k].class = c /\ Victim(k)' = Victim(k)
        BY <1>5, <1>8, <2>4, <3>2
      <4>2. PICK j \in 1 .. m : indices'[c][i] = indices[c][j]
        <5>1. i \in 1 .. m - 1
          BY <1>7, <3>2
        <5>2. indices'[c][i] = indices[c][m] \/ indices'[c][i] = indices[c][i]
          BY <1>7, <5>1
        <5>3. m \in 1 .. m /\ i \in 1 .. m
          BY <1>9, <5>1
        <5> QED BY <5>2, <5>3
      <4> QED BY <2>1, <3>2, <4>1, <4>2
    <3>3. CASE d = c /\ k = n + 1
      BY <1>4, <1>5, <1>7, <2>1, <3>3
    <3> QED BY <1>5, <3>1, <3>2, <3>3
  <2> QED BY <2>2, <2>3, <2>4 DEF NoneTwice
<1> QED BY <1>5, <1>10, <1>11, <1>12, <1>13 DEF Recorded

-----------------------------------------------------------------------------
(***************************************************************************)
(* The repair gives every class the length it had in the snapshot.         *)
(***************************************************************************)
Repaired ==
  /\ phase = "fill" => trace = <<>>
  /\ phase \in {"restored", "deaths", "slots", "ready", "replay", "prepare"} =>
       \A c \in Classes : Len(indices[c]) = Len(snapshot[c])

RecordInv == IndInv /\ TraceTypes /\ ScalarTypes /\ Recorded /\ Repaired

(***************************************************************************)
(* All of this is about the trace and the lists of the recording.          *)
(***************************************************************************)
LEMMA SameTrace ==
  ASSUME UNCHANGED traceVars
  PROVE  /\ Births' = Births /\ Deaths' = Deaths
         /\ \A k : BirthsTo(k)' = BirthsTo(k) /\ DeathsTo(k)' = DeathsTo(k)
         /\ \A k : Victim(k)' = Victim(k)
         /\ \A c : Objects(c)' = Objects(c)
<1>1. UNCHANGED <<snapshot, indices, trace, deathIndices, births>>
  BY DEF traceVars
<1>2. Births' = Births /\ Deaths' = Deaths
  BY <1>1 DEF Births, Deaths
<1>3. \A k : BirthsTo(k)' = BirthsTo(k) /\ DeathsTo(k)' = DeathsTo(k)
  BY <1>2 DEF BirthsTo, DeathsTo, Count
<1>4. \A k : Victim(k)' = Victim(k)
  BY <1>1, <1>3 DEF Victim
<1>5. ASSUME NEW c PROVE Objects(c)' = Objects(c)
  <2>1. Objects(c)' =
          {Old(i) : i \in 1 .. Len(snapshot[c])}
          \cup {New(BirthsTo(k)') : k \in {l \in Births' : trace[l].class = c}}
    BY <1>1 DEF Objects, Old, New
  <2> QED BY <1>2, <1>3, <2>1 DEF Objects
<1> QED BY <1>2, <1>3, <1>4, <1>5

LEMMA SameRecorded ==
  ASSUME Recorded, UNCHANGED traceVars
  PROVE  Recorded'
<1>1. UNCHANGED <<snapshot, indices, trace, deathIndices, births>>
  BY DEF traceVars
<1>2. /\ Births' = Births /\ Deaths' = Deaths
      /\ \A k : BirthsTo(k)' = BirthsTo(k) /\ DeathsTo(k)' = DeathsTo(k)
      /\ \A k : Victim(k)' = Victim(k)
      /\ \A c : Objects(c)' = Objects(c)
  BY SameTrace
<1>3. Counted'
  <2>1. /\ BirthsTo(Len(trace))' = Count(Births', Len(trace'))
        /\ DeathsTo(Len(trace))' = Count(Deaths', Len(trace'))
    BY DEF BirthsTo, DeathsTo
  <2> QED BY <1>1, <1>2, <2>1 DEF Recorded, Counted, BirthsTo, DeathsTo
<1>4. SlotsHoldObjects' /\ DeathsFreeObjects'
  BY <1>1, <1>2 DEF Recorded, SlotsHoldObjects, DeathsFreeObjects
<1>5. NoneForgotten' /\ NoneTwice'
  BY <1>1, <1>2 DEF Recorded, NoneForgotten, NoneTwice
<1> QED BY <1>3, <1>4, <1>5 DEF Recorded

(***************************************************************************)
(* Before anything is recorded, the objects are those of the snapshot.     *)
(***************************************************************************)
LEMMA NothingRecorded ==
  ASSUME trace = <<>>
  PROVE  /\ Births = {} /\ Deaths = {}
         /\ BirthsTo(Len(trace)) = 0 /\ DeathsTo(Len(trace)) = 0
<1>1. Len(trace) = 0
  BY EmptySeq
<1>2. Births = {} /\ Deaths = {}
  BY <1>1 DEF Births, Deaths
<1> QED BY <1>1, <1>2, CountFacts DEF BirthsTo, DeathsTo

LEMMA SnapshotRecorded ==
  ASSUME IndInv, Recorded, trace = <<>>, SnapshotLiveObjects
  PROVE  Recorded'
<1>1. /\ UNCHANGED <<trace, deathIndices, births>> /\ snapshot' = objs
      /\ objs \in [Classes -> Seq(Pointer)]
  BY DEF SnapshotLiveObjects, IndInv, ListTypes
<1>2. Births = {} /\ Deaths = {} /\ BirthsTo(Len(trace)) = 0 /\ DeathsTo(Len(trace)) = 0
  BY NothingRecorded
<1>3. Births' = {} /\ Deaths' = {}
  BY <1>1, <1>2 DEF Births, Deaths
<1>4. Counted'
  BY <1>1, <1>2, <1>3 DEF Recorded, Counted, BirthsTo, DeathsTo
<1>5. ASSUME NEW c \in Classes
      PROVE  /\ Len(indices'[c]) = Len(objs[c])
             /\ \A i \in 1 .. Len(objs[c]) : indices'[c][i] = Old(i)
             /\ \A o : o \in Objects(c)' <=> \E i \in 1 .. Len(objs[c]) : o = Old(i)
  <2>1. indices'[c] = [i \in 1 .. Len(objs[c]) |-> Old(i)] /\ Len(objs[c]) \in Nat
    BY <1>1, LenProperties DEF SnapshotLiveObjects, Old
  <2>2. Objects(c)' = {Old(i) : i \in 1 .. Len(objs[c])}
    BY <1>1, <1>3 DEF Objects, Old
  <2> QED BY <2>1, <2>2
<1>6. \A i, j : Old(i) = Old(j) => i = j
  BY DEF Old
<1>7. SlotsHoldObjects' /\ DeathsFreeObjects' /\ NoneForgotten'
  BY <1>3, <1>5 DEF SlotsHoldObjects, DeathsFreeObjects, NoneForgotten
<1>8. NoneTwice'
  BY <1>3, <1>5, <1>6 DEF NoneTwice
<1> QED BY <1>4, <1>7, <1>8 DEF Recorded

LEMMA RecordInvNext ==
  ASSUME RecordInv, [Next]_vars
  PROVE  RecordInv'
<1> USE DEF RecordInv
<1>1. IndInv' /\ TraceTypes' /\ ScalarTypes'
  BY NextStep, TraceTypesNext, ScalarTypesNext
<1> SUFFICES Recorded' /\ Repaired'
  BY <1>1
<1>2. ASSUME NEW c \in Classes, DoBirth(c) PROVE Recorded' /\ Repaired'
  <2>1. phase = "fill" /\ phase' = "fill" /\ UNCHANGED traceVars
    BY <1>2 DEF DoBirth
  <2> QED BY <2>1, SameRecorded DEF Repaired, traceVars
<1>3. CASE SnapshotLiveObjects
  <2>1. phase = "fill" /\ phase' = "record" /\ trace = <<>>
    BY <1>3 DEF SnapshotLiveObjects, Repaired
  <2> QED BY <1>3, <2>1, SnapshotRecorded DEF Repaired
<1>4. CASE RecordNext \/ RecordRepair
  <2>1. /\ phase \in {"record", "repair"} /\ phase' \in {"record", "repair"}
        /\ UNCHANGED snapshot
        /\ \E c \in Classes : RecordBirth(c) \/ RecordDeath(c)
    BY <1>4 DEF RecordNext, RecordRepair, Unrepaired
  <2>2. Recorded'
    BY <2>1, BirthRecorded, DeathRecorded
  <2> QED BY <2>1, <2>2 DEF Repaired
<1>5. CASE RestoreSnapshot
  <2>1. phase = "repair" /\ phase' = "restored" /\ UNCHANGED traceVars
    BY <1>5 DEF RestoreSnapshot
  <2>2. \A c \in Classes : Len(indices[c]) = Len(snapshot[c])
    BY <1>5, <2>1 DEF RestoreSnapshot, Unrepaired, IndInv, Recording
  <2> QED BY <2>1, <2>2, SameRecorded DEF Repaired, traceVars
<1>6. CASE Build \/ Replay \/ PrepareNextReplay \/ Destroy
  <2>1. phase' \notin {"fill", "record", "repair"} /\ UNCHANGED traceVars
    BY <1>6, AfterRecording
  <2>2. phase' = "destroyed" \/ phase \in {"restored", "deaths", "slots", "ready", "replay", "prepare"}
    BY <1>6 DEF Build, BuildUpdateVectors, BuildDeath, SkipBirth, EndDeaths, BuildSlot, EndSlots,
       Replay, StartReplay, ReplayBirth, ReplayDeath, EndReplay, PrepareNextReplay, PrepareObj,
       PrepareBirth, PrepareDeath, EndLoop, Destroy
  <2> QED BY <2>1, <2>2, SameRecorded DEF Repaired, traceVars
<1>7. CASE UNCHANGED vars
  <2>1. UNCHANGED traceVars /\ phase' = phase
    BY <1>7 DEF vars
  <2> QED BY <2>1, SameRecorded DEF Repaired, traceVars
<1> QED BY <1>2, <1>3, <1>4, <1>5, <1>6, <1>7 DEF Next, Record, Destroyed

LEMMA InitRecorded == Init => RecordInv
<1>1. Init => Recorded /\ Repaired
  <2> SUFFICES ASSUME Init PROVE Recorded /\ Repaired
    OBVIOUS
  <2>1. /\ trace = <<>> /\ deathIndices = <<>> /\ births = 0 /\ phase = "fill"
        /\ \A c \in Classes : indices[c] = <<>> /\ snapshot[c] = <<>>
    BY DEF Init, Nothing
  <2>2. \A c \in Classes : Len(indices[c]) = 0 /\ Len(snapshot[c]) = 0
    BY <2>1, EmptySeq
  <2>3. Births = {} /\ Deaths = {} /\ BirthsTo(Len(trace)) = 0 /\ DeathsTo(Len(trace)) = 0
    BY <2>1, NothingRecorded
  <2>4. \A c \in Classes : Objects(c) = {}
    BY <2>2, <2>3 DEF Objects
  <2>5. Counted
    BY <2>1, <2>3, EmptySeq DEF Counted
  <2> QED BY <2>1, <2>2, <2>3, <2>4, <2>5 DEF Recorded, SlotsHoldObjects, DeathsFreeObjects,
             NoneForgotten, NoneTwice, Repaired
<1>2. Init => IndInv /\ TraceTypes /\ ScalarTypes
  BY InitStep, BaseInit
<1> QED BY <1>1, <1>2 DEF RecordInv

(***************************************************************************)
(* Whatever is drawn in the recording and its repair (RecordNext,          *)
(* RecordRepairToSnapshotState), objs_indices_after_recording and          *)
(* death_obj_indices_ name every object of the snapshot and every birth    *)
(* exactly once between them, and no death comes before its birth.         *)
(***************************************************************************)
THEOREM RecordedCorrect == Spec => []RecordInv
<1>1. RecordInv /\ [Next]_vars => RecordInv'
  BY RecordInvNext
<1> QED BY InitRecorded, <1>1, PTL DEF Spec
=============================================================================

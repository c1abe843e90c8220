------------------------ MODULE EmpiricalReplayProofs ------------------------
(***************************************************************************)
(* Proofs about the replays of EmpiricalData, for every number of size     *)
(* classes, heap size, trace and number of replays: a replay frees only    *)
(* objects that are allocated, and between replays the lists hold exactly  *)
(* the allocated objects.                                                  *)
(***************************************************************************)
EXTENDS EmpiricalRecordingProofs

VectorTypes ==
  /\ objs \in [Classes -> Seq(Pointer)] /\ before \in [Classes -> Seq(Pointer)]
  /\ objUpdate \in [Classes -> Seq(UpdatePair)]
  /\ birthUpdate \in [Classes -> Seq(UpdatePair)]
  /\ deathUpdate \in [Classes -> Seq(UpdatePair)]
  /\ birthPlaces \in Seq(Place \cup {Null})
  /\ birthObjects \in Seq(Pointer) /\ deathObjects \in Seq(Pointer)

(***************************************************************************)
(* The lists f hold exactly the objects allocated in h, each once and      *)
(* under its class.                                                        *)
(***************************************************************************)
Owned(h, f) ==
  /\ \A c \in Classes : \A i \in 1 .. Len(f[c]) : f[c][i] \in Addresses
  /\ \A c, d \in Classes : \A i \in 1 .. Len(f[c]), j \in 1 .. Len(f[d]) :
       f[c][i] = f[d][j] => c = d /\ i = j
  /\ \A c \in Classes, p \in Addresses :
       h[p] = c <=> \E i \in 1 .. Len(f[c]) : f[c][i] = p

Lengths == \A c \in Classes : Len(objs[c]) = Len(indices[c])

NoUpdates == objUpdate = Nothing /\ birthUpdate = Nothing /\ deathUpdate = Nothing

-----------------------------------------------------------------------------
(***************************************************************************)
(* The update vectors: every pair is the move or the look-up that the      *)
(* recording asks for.                                                     *)
(***************************************************************************)
DeathPair(k) == [from |-> Victim(k).index, to |-> DeathsTo(k)]

DeathUpdatesSound ==
  \A c \in Classes : \A n \in 1 .. Len(deathUpdate[c]) :
    \E k \in Deaths : /\ trace[k].class = c /\ ~Victim(k).born
                      /\ deathUpdate[c][n] = DeathPair(k)

ObjUpdatesSound ==
  \A c \in Classes : \A n \in 1 .. Len(objUpdate[c]) :
    /\ objUpdate[c][n].to \in 1 .. Len(indices[c])
    /\ indices[c][objUpdate[c][n].to] = Old(objUpdate[c][n].from)
    /\ objUpdate[c][n].from # objUpdate[c][n].to

BirthUpdatesSound ==
  \A c \in Classes : \A n \in 1 .. Len(birthUpdate[c]) :
    /\ birthUpdate[c][n].to \in 1 .. Len(indices[c])
    /\ indices[c][birthUpdate[c][n].to] = New(birthUpdate[c][n].from)

(***************************************************************************)
(* What BuildUpdateVectors does for a death and for a slot: of an object   *)
(* of the snapshot it notes a pair, of one born in the replay where its    *)
(* address is to be stored.                                                *)
(***************************************************************************)
DeathBuilt(c, k) ==
  /\ ~Victim(k).born =>
       \E n \in 1 .. Len(deathUpdate[c]) : deathUpdate[c][n] = DeathPair(k)
  /\ Victim(k).born =>
       birthPlaces[Victim(k).index] = [vector |-> "death", index |-> DeathsTo(k)]

SlotBuilt(c, i) ==
  /\ ~indices[c][i].born /\ indices[c][i].index # i =>
       \E n \in 1 .. Len(objUpdate[c]) :
         objUpdate[c][n] = [from |-> indices[c][i].index, to |-> i]
  /\ indices[c][i].born =>
       /\ birthPlaces[indices[c][i].index] = [vector |-> "birth", index |-> indices[c][i].index]
       /\ \E n \in 1 .. Len(birthUpdate[c]) :
            birthUpdate[c][n] = [from |-> indices[c][i].index, to |-> i]

Sizes ==
  /\ Len(birthPlaces) = births /\ Len(birthObjects) = births
  /\ Len(deathObjects) = Len(deathIndices)

VectorsBuilt ==
  /\ Sizes /\ DeathUpdatesSound /\ ObjUpdatesSound /\ BirthUpdatesSound
  /\ \A c \in Classes : \A k \in Deaths : trace[k].class = c => DeathBuilt(c, k)
  /\ \A c \in Classes : \A i \in 1 .. Len(indices[c]) : SlotBuilt(c, i)

\* death_objects_ has the object of the snapshot that the death will free.
LookedUp(c, k) ==
  ~Victim(k).born => deathObjects[DeathsTo(k)] = objs[c][Victim(k).index]

AllLookedUp == \A c \in Classes : \A k \in Deaths : trace[k].class = c => LookedUp(c, k)

-----------------------------------------------------------------------------
(***************************************************************************)
(* In a replay: the objects that are alive at this point of the trace, and *)
(* where their addresses are.                                              *)
(***************************************************************************)
Position == birthIndex + deathIndex

Alive(c) ==
  {o \in Objects(c) :
     /\ o.born => o.index <= birthIndex
     /\ \A k \in Deaths : trace[k].class = c /\ Victim(k) = o => k > Position}

AddressOf(c, o) ==
  IF ~o.born THEN before[c][o.index]
  ELSE IF birthPlaces[o.index].vector = "death" THEN deathObjects[birthPlaces[o.index].index]
  ELSE birthObjects[o.index]

AliveAllocated ==
  /\ \A c \in Classes : \A o \in Alive(c) : AddressOf(c, o) \in Addresses
  /\ \A c, d \in Classes : \A o \in Alive(c), q \in Alive(d) :
       AddressOf(c, o) = AddressOf(d, q) => c = d /\ o = q
  /\ \A c \in Classes, p \in Addresses :
       heap[p] = c <=> \E o \in Alive(c) : AddressOf(c, o) = p

(***************************************************************************)
(* The object that PrepareNextReplay is to leave in a slot.                *)
(***************************************************************************)
Target(c, i) ==
  IF indices[c][i].born THEN birthObjects[indices[c][i].index]
  ELSE before[c][indices[c][i].index]
Targets == [c \in Classes |-> [i \in 1 .. Len(indices[c]) |-> Target(c, i)]]

ClassPrepared(c) ==
  /\ \A i \in 1 .. Len(indices[c]) : objs[c][i] = Target(c, i)
  /\ \A k \in Deaths : trace[k].class = c => LookedUp(c, k)

\* The class in preparation, in each of its three loops.
ClassInPreparation ==
  /\ loop = 1 =>
       /\ \A i \in 1 .. Len(indices[class]) :
            indices[class][i].born \/ indices[class][i].index = i =>
              objs[class][i] = before[class][i]
       /\ \A n \in 1 .. Len(objUpdate[class]) :
            n < at => objs[class][objUpdate[class][n].to] = Target(class, objUpdate[class][n].to)
  /\ loop = 2 =>
       /\ \A i \in 1 .. Len(indices[class]) :
            ~indices[class][i].born => objs[class][i] = Target(class, i)
       /\ \A n \in 1 .. Len(birthUpdate[class]) :
            n < at => objs[class][birthUpdate[class][n].to] = Target(class, birthUpdate[class][n].to)
  /\ loop = 3 =>
       /\ \A i \in 1 .. Len(indices[class]) : objs[class][i] = Target(class, i)
       /\ \A n \in 1 .. Len(deathUpdate[class]) :
            n < at => deathObjects[deathUpdate[class][n].to] = objs[class][deathUpdate[class][n].from]

-----------------------------------------------------------------------------
(***************************************************************************)
(* The invariant, phase by phase.                                          *)
(***************************************************************************)
Filling == Owned(heap, objs) /\ allocs = total /\ replays = 0 /\ NoUpdates

RecordingHeap ==
  /\ Owned(heap, snapshot) /\ allocs = total /\ replays = 0 /\ NoUpdates
  /\ trace = <<>> => objs = snapshot

Restored == Owned(heap, objs) /\ allocs = total /\ replays = 0 /\ Lengths /\ NoUpdates

BuildingDeaths ==
  /\ Owned(heap, objs) /\ allocs = total /\ replays = 0 /\ Lengths
  /\ Sizes /\ DeathUpdatesSound /\ objUpdate = Nothing /\ birthUpdate = Nothing
  /\ at <= Len(trace) + 1 /\ deathAt = Count(Deaths, at - 1) + 1
  /\ \A c \in Classes : \A k \in Deaths :
       trace[k].class = c /\ k < at => DeathBuilt(c, k) /\ LookedUp(c, k)

BuildingSlots ==
  /\ Owned(heap, objs) /\ allocs = total /\ replays = 0 /\ Lengths
  /\ Sizes /\ DeathUpdatesSound /\ ObjUpdatesSound /\ BirthUpdatesSound /\ AllLookedUp
  /\ \A c \in Classes : \A k \in Deaths : trace[k].class = c => DeathBuilt(c, k)
  /\ \A c \in Classes : \A i \in 1 .. Len(indices[c]) :
       c < class \/ (c = class /\ i < at) => SlotBuilt(c, i)

Ready ==
  /\ Owned(heap, objs) /\ allocs = total /\ Lengths /\ VectorsBuilt /\ AllLookedUp
  /\ replays > 0 =>
       \A c \in Classes : \A i \in 1 .. Len(indices[c]) : objs[c][i] = Target(c, i)

Replaying ==
  /\ allocs = total + birthIndex /\ Lengths /\ VectorsBuilt /\ AllLookedUp
  /\ before = objs
  /\ Position <= Len(trace)
  /\ birthIndex = Count(Births, Position) /\ deathIndex = Count(Deaths, Position)
  /\ AliveAllocated

Preparing ==
  /\ Owned(heap, Targets) /\ allocs = total /\ Lengths /\ VectorsBuilt
  /\ \A c \in Classes : Len(before[c]) = Len(indices[c])
  /\ \A c \in Classes : c < class => ClassPrepared(c)
  /\ \A c \in Classes : c > class => objs[c] = before[c]
  /\ ClassInPreparation

PhaseInv ==
  /\ phase = "fill" => Filling
  /\ phase \in {"record", "repair"} => RecordingHeap
  /\ phase = "restored" => Restored
  /\ phase = "deaths" => BuildingDeaths
  /\ phase = "slots" => BuildingSlots
  /\ phase = "ready" => Ready
  /\ phase = "replay" => Replaying
  /\ phase = "prepare" => Preparing
  /\ phase = "destroyed" => \A p \in Addresses : heap[p] = 0

ReplayInv == RecordInv /\ VectorTypes /\ PhaseInv

-----------------------------------------------------------------------------
(***************************************************************************)
(* Assigning an entry of a vector, and appending to the vector of a class. *)
(***************************************************************************)
LEMMA FunctionIsSeq ==
  ASSUME NEW S, NEW n \in Nat, NEW w \in [1 .. n -> S]
  PROVE  w \in Seq(S) /\ Len(w) = n
<1>1. w \in Seq(S)
  BY SeqDef
<1> QED BY <1>1, LenProperties

LEMMA Assign ==
  ASSUME NEW S, NEW v \in Seq(S), NEW i \in Nat, NEW x \in S, NEW w, w = [v EXCEPT ![i] = x]
  PROVE  /\ w \in Seq(S) /\ Len(w) = Len(v)
         /\ \A j \in 1 .. Len(v) : w[j] = IF j = i THEN x ELSE v[j]
<1>1. PICK n \in Nat : n = Len(v) /\ v \in [1 .. n -> S] /\ DOMAIN v = 1 .. n
  BY LenProperties
<1>2. w \in [1 .. n -> S] /\ \A j \in 1 .. n : w[j] = IF j = i THEN x ELSE v[j]
  BY <1>1
<1> QED BY <1>1, <1>2, FunctionIsSeq

LEMMA AssignIn ==
  ASSUME NEW S, NEW f \in [Classes -> Seq(S)], NEW c \in Classes, NEW x \in S,
         NEW v, v = f[c], NEW i \in 1 .. Len(v), NEW w, w = [v EXCEPT ![i] = x],
         NEW g, g = [f EXCEPT ![c] = w]
  PROVE  /\ g \in [Classes -> Seq(S)]
         /\ \A d \in Classes : d # c => g[d] = f[d]
         /\ \A d \in Classes : Len(g[d]) = Len(f[d])
         /\ \A j \in 1 .. Len(f[c]) : g[c][j] = IF j = i THEN x ELSE f[c][j]
<1>1. v \in Seq(S)
  OBVIOUS
<1>2. PICK n \in Nat : n = Len(v) /\ v \in [1 .. n -> S] /\ DOMAIN v = 1 .. n
  BY <1>1, LenProperties
<1>3. w \in [1 .. n -> S] /\ \A j \in 1 .. n : w[j] = IF j = i THEN x ELSE v[j]
  BY <1>2
<1>4. w \in Seq(S) /\ Len(w) = n
  BY <1>3, FunctionIsSeq
<1> QED BY <1>2, <1>3, <1>4

LEMMA AppendIn ==
  ASSUME NEW S, NEW f \in [Classes -> Seq(S)], NEW c \in Classes, NEW x \in S,
         NEW g, g = [f EXCEPT ![c] = Append(f[c], x)]
  PROVE  /\ g \in [Classes -> Seq(S)]
         /\ \A d \in Classes : d # c => g[d] = f[d]
         /\ Len(g[c]) = Len(f[c]) + 1 /\ g[c][Len(f[c]) + 1] = x
         /\ \A n \in 1 .. Len(f[c]) : g[c][n] = f[c][n]
<1>1. PICK v : v = Append(f[c], x)
  OBVIOUS
<1>2. /\ v \in Seq(S) /\ Len(v) = Len(f[c]) + 1 /\ v[Len(f[c]) + 1] = x
      /\ \A n \in 1 .. Len(f[c]) : v[n] = f[c][n]
  BY <1>1, AppendProperties
<1> QED BY <1>1, <1>2

-----------------------------------------------------------------------------
(***************************************************************************)
(* What is recorded of an object: its class and index are in range, and an *)
(* object born in the recording has an index of its own.                   *)
(***************************************************************************)
LEMMA ObjectFacts ==
  ASSUME RecordInv, NEW c \in Classes, NEW o \in Objects(c)
  PROVE  /\ o \in ObjectIndex
         /\ o.born => o.index \in 1 .. births /\ o = New(o.index)
         /\ ~o.born => o.index \in 1 .. Len(snapshot[c]) /\ o = Old(o.index)
<1>1. Len(snapshot[c]) \in Nat /\ births \in Nat
  BY LenProperties DEF RecordInv, TraceTypes, IndInv, ListTypes
<1>2. CASE \E i \in 1 .. Len(snapshot[c]) : o = Old(i)
  BY <1>1, <1>2 DEF Old, ObjectIndex
<1>3. CASE \E k \in Births : trace[k].class = c /\ o = New(BirthsTo(k))
  <2>1. \A k \in Births : BirthsTo(k) \in 1 .. births
    BY Positions DEF RecordInv, Recorded, Counted
  <2> QED BY <1>1, <1>3, <2>1 DEF New, ObjectIndex
<1> QED BY <1>2, <1>3, ObjectsIff

LEMMA BornOnce ==
  ASSUME RecordInv, NEW c \in Classes, NEW d \in Classes, NEW o \in Objects(c), NEW q \in Objects(d),
         o.born, q.born, o.index = q.index
  PROVE  c = d /\ o = q
<1>1. ASSUME NEW e, NEW x \in Objects(e), x.born
      PROVE  \E k \in Births : trace[k].class = e /\ x = New(BirthsTo(k)) /\ x.index = BirthsTo(k)
  <2>1. \A i : x # Old(i)
    BY <1>1 DEF Old
  <2>2. PICK k \in Births : trace[k].class = e /\ x = New(BirthsTo(k))
    BY <2>1, ObjectsIff
  <2> QED BY <2>2 DEF New
<1>2. PICK k \in Births : trace[k].class = c /\ o = New(BirthsTo(k)) /\ o.index = BirthsTo(k)
  BY <1>1
<1>3. PICK l \in Births : trace[l].class = d /\ q = New(BirthsTo(l)) /\ q.index = BirthsTo(l)
  BY <1>1
<1>4. Births \in SUBSET (Nat \ {0}) /\ Count(Births, k) = Count(Births, l)
  BY <1>2, <1>3, Positions DEF RecordInv, BirthsTo
<1>5. k = l
  BY <1>4, CountOnce
<1> QED BY <1>2, <1>3, <1>5

\* The slots, and the deaths, of the recording.
LEMMA SlotFacts ==
  ASSUME RecordInv, NEW c \in Classes, NEW i \in 1 .. Len(indices[c])
  PROVE  /\ Len(indices[c]) \in Nat
         /\ indices[c][i] \in Objects(c) /\ indices[c][i] \in ObjectIndex
         /\ indices[c][i].born => /\ indices[c][i].index \in 1 .. births
                                  /\ indices[c][i] = New(indices[c][i].index)
         /\ ~indices[c][i].born => /\ indices[c][i].index \in 1 .. Len(snapshot[c])
                                   /\ indices[c][i] = Old(indices[c][i].index)
<1>1. Len(indices[c]) \in Nat
  BY LenProperties DEF RecordInv, IndInv, ListTypes
<1>2. indices[c][i] \in Objects(c)
  BY DEF RecordInv, Recorded, SlotsHoldObjects
<1> QED BY <1>1, <1>2, ObjectFacts

LEMMA DeathFactsOf ==
  ASSUME RecordInv, NEW c \in Classes, NEW k \in Deaths, trace[k].class = c
  PROVE  /\ k \in 1 .. Len(trace) /\ DeathsTo(k) \in 1 .. Len(deathIndices)
         /\ Victim(k) \in Objects(c) /\ Victim(k) \in ObjectIndex
         /\ Victim(k).born => Victim(k).index \in 1 .. births /\ Victim(k).index <= BirthsTo(k)
         /\ ~Victim(k).born => /\ Victim(k).index \in 1 .. Len(snapshot[c])
                               /\ Victim(k) = Old(Victim(k).index)
<1>1. k \in 1 .. Len(trace) /\ DeathsTo(k) \in 1 .. Len(deathIndices)
  BY Positions DEF Deaths, RecordInv, Recorded, Counted
<1>2. Victim(k) \in Objects(c) /\ (Victim(k).born => Victim(k).index <= BirthsTo(k))
  BY DEF RecordInv, Recorded, DeathsFreeObjects
<1> QED BY <1>1, <1>2, ObjectFacts

LEMMA DeathsApart ==
  ASSUME RecordInv, NEW k \in Deaths, NEW l \in Deaths, DeathsTo(k) = DeathsTo(l)
  PROVE  k = l
<1>1. Deaths \in SUBSET (Nat \ {0}) /\ Count(Deaths, k) = Count(Deaths, l)
  BY Positions DEF RecordInv, DeathsTo
<1> QED BY <1>1, CountOnce

\* An object born in the recording has one birth, so one fate.
LEMMA BornDeathsApart ==
  ASSUME RecordInv, NEW k \in Deaths, NEW l \in Deaths,
         Victim(k).born, Victim(l).born, Victim(k).index = Victim(l).index
  PROVE  k = l
<1>1. trace[k].class \in Classes /\ trace[l].class \in Classes
  BY Positions DEF Deaths, RecordInv
<1>2. Victim(k) \in Objects(trace[k].class)
  BY <1>1, DeathFactsOf
<1>3. Victim(l) \in Objects(trace[l].class)
  BY <1>1, DeathFactsOf
<1>4. trace[k].class = trace[l].class /\ Victim(k) = Victim(l)
  BY <1>1, <1>2, <1>3, BornOnce
<1> QED BY <1>4 DEF RecordInv, Recorded, NoneTwice

LEMMA BornSlotsApart ==
  ASSUME RecordInv, NEW c \in Classes, NEW d \in Classes,
         NEW i \in 1 .. Len(indices[c]), NEW j \in 1 .. Len(indices[d]),
         indices[c][i].born, indices[d][j].born, indices[c][i].index = indices[d][j].index
  PROVE  c = d /\ i = j
<1>1. indices[c][i] \in Objects(c) /\ indices[d][j] \in Objects(d)
  BY SlotFacts
<1>2. c = d /\ indices[c][i] = indices[d][j]
  BY <1>1, BornOnce
<1> QED BY <1>2 DEF RecordInv, Recorded, NoneTwice

LEMMA BornSlotNoDeath ==
  ASSUME RecordInv, NEW c \in Classes, NEW i \in 1 .. Len(indices[c]), NEW k \in Deaths,
         indices[c][i].born, Victim(k).born
  PROVE  indices[c][i].index # Victim(k).index
<1> SUFFICES ASSUME indices[c][i].index = Victim(k).index PROVE FALSE
  OBVIOUS
<1>1. trace[k].class \in Classes
  BY Positions DEF Deaths, RecordInv
<1>2. Victim(k) \in Objects(trace[k].class)
  BY <1>1, DeathFactsOf
<1>3. indices[c][i] \in Objects(c)
  BY SlotFacts
<1>4. trace[k].class = c /\ Victim(k) = indices[c][i]
  BY <1>1, <1>2, <1>3, BornOnce
<1> QED BY <1>4 DEF RecordInv, Recorded, NoneTwice

-----------------------------------------------------------------------------
(***************************************************************************)
(* Up to the restored snapshot: the constructor fills the lists, and the   *)
(* recording allocates nothing.                                            *)
(***************************************************************************)
LEMMA FillStep ==
  ASSUME RecordInv, VectorTypes, Filling, NEW c \in Classes, DoBirth(c)
  PROVE  VectorTypes' /\ Filling'
<1>1. PICK p \in Addresses : Alloc(p, c) /\ objs' = [objs EXCEPT ![c] = Append(objs[c], p)]
  BY DEF DoBirth
<1>2. /\ UNCHANGED <<objUpdate, birthUpdate, deathUpdate, birthPlaces, birthObjects, deathObjects,
                     before, replays>>
      /\ total' = total + 1
  BY DEF DoBirth, updateVars, replayVars
<1>3. /\ heap[p] = 0 /\ heap' = [heap EXCEPT ![p] = c] /\ allocs' = allocs + 1
      /\ heap \in [Addresses -> Classes \cup {0}] /\ allocs \in Nat /\ 0 \notin Classes
      /\ objs \in [Classes -> Seq(Pointer)] /\ p \in Pointer /\ allocs = total
  BY <1>1 DEF Alloc, RecordInv, ScalarTypes, VectorTypes, Pointer, Classes, Filling
<1>4. PICK m \in Nat : m = Len(objs[c])
  BY <1>3, LenProperties
<1>5. /\ objs' \in [Classes -> Seq(Pointer)]
      /\ \A d \in Classes : d # c => objs'[d] = objs[d]
      /\ Len(objs'[c]) = m + 1 /\ objs'[c][m + 1] = p
      /\ \A n \in 1 .. m : objs'[c][n] = objs[c][n]
  BY <1>1, <1>3, <1>4, AppendIn
<1>6. /\ \A d \in Classes : \A i \in 1 .. Len(objs[d]) : objs[d][i] \in Addresses
      /\ \A d, e \in Classes : \A i \in 1 .. Len(objs[d]), j \in 1 .. Len(objs[e]) :
           objs[d][i] = objs[e][j] => d = e /\ i = j
      /\ \A d \in Classes, q \in Addresses :
           heap[q] = d <=> \E i \in 1 .. Len(objs[d]) : objs[d][i] = q
  BY DEF Filling, Owned
<1>7. \A d \in Classes : \A i \in 1 .. Len(objs[d]) : objs[d][i] # p
  BY <1>3, <1>6
<1>8. \A d \in Classes : \A i \in 1 .. Len(objs'[d]) :
        \/ d = c /\ i = m + 1 /\ objs'[d][i] = p
        \/ i \in 1 .. Len(objs[d]) /\ objs'[d][i] = objs[d][i]
  BY <1>4, <1>5
<1>9. \A d \in Classes : \A i \in 1 .. Len(objs'[d]) : objs'[d][i] \in Addresses
  BY <1>6, <1>8
<1>10. ASSUME NEW d \in Classes, NEW e \in Classes, NEW i \in 1 .. Len(objs'[d]),
              NEW j \in 1 .. Len(objs'[e]), objs'[d][i] = objs'[e][j]
       PROVE  d = e /\ i = j
  BY <1>6, <1>7, <1>8, <1>10
<1>11. ASSUME NEW d \in Classes, NEW q \in Addresses
       PROVE  heap'[q] = d <=> \E i \in 1 .. Len(objs'[d]) : objs'[d][i] = q
  <2>1. CASE q = p
    <3>1. heap'[q] = c
      BY <1>3, <2>1
    <3>2. m + 1 \in 1 .. Len(objs'[c])
      BY <1>5
    <3>3. \A i \in 1 .. Len(objs'[d]) : objs'[d][i] = p => d = c
      BY <1>7, <1>8
    <3> QED BY <1>5, <2>1, <3>1, <3>2, <3>3
  <2>2. CASE q # p
    <3>1. heap'[q] = heap[q]
      BY <1>3, <2>2
    <3>2. (\E i \in 1 .. Len(objs'[d]) : objs'[d][i] = q) <=>
            \E i \in 1 .. Len(objs[d]) : objs[d][i] = q
      <4>1. \A i \in 1 .. Len(objs'[d]) :
              objs'[d][i] = q => i \in 1 .. Len(objs[d]) /\ objs[d][i] = q
        BY <1>8, <2>2
      <4>2. CASE d # c
        BY <1>5, <4>2
      <4>3. CASE d = c
        <5>1. \A i \in 1 .. m : i \in 1 .. Len(objs'[c]) /\ objs'[c][i] = objs[c][i]
          BY <1>5
        <5> QED BY <1>4, <4>1, <4>3, <5>1
      <4> QED BY <4>2, <4>3
    <3> QED BY <1>6, <3>1, <3>2
  <2> QED BY <2>1, <2>2
<1>12. Owned(heap, objs)'
  BY <1>9, <1>10, <1>11 DEF Owned
<1> QED BY <1>2, <1>3, <1>5, <1>12 DEF VectorTypes, Filling, NoUpdates

LEMMA SnapshotTaken ==
  ASSUME VectorTypes, Filling, SnapshotLiveObjects
  PROVE  VectorTypes' /\ RecordingHeap'
BY DEF VectorTypes, Filling, SnapshotLiveObjects, RecordingHeap, NoUpdates, Owned, updateVars, replayVars,
       heapVars

LEMMA RecordStep ==
  ASSUME RecordInv, RecordInv', VectorTypes, RecordingHeap, RecordNext \/ RecordRepair
  PROVE  VectorTypes' /\ RecordingHeap'
<1>1. /\ UNCHANGED <<heap, allocs, total, snapshot, replays, before, birthObjects, deathObjects>>
      /\ UNCHANGED <<objUpdate, birthUpdate, deathUpdate, birthPlaces>>
      /\ phase' \in {"record", "repair"}
      /\ \E c \in Classes : RecordBirth(c) \/ RecordDeath(c)
  BY DEF RecordNext, RecordRepair, heapVars, updateVars, replayVars, Unrepaired
<1>2. objs' \in [Classes -> Seq(Pointer)]
  BY <1>1 DEF RecordInv, IndInv, ListTypes
<1>3. ASSUME NEW c \in Classes, NEW b \in BOOLEAN, trace' = Append(trace, [birth |-> b, class |-> c])
      PROVE  trace' # <<>>
  <2>1. trace \in Seq([birth : BOOLEAN, class : Classes]) /\
          [birth |-> b, class |-> c] \in [birth : BOOLEAN, class : Classes]
    BY DEF RecordInv, TraceTypes
  <2> QED BY <1>3, <2>1, AppendProperties
<1>4. trace' # <<>>
  BY <1>1, <1>3 DEF RecordBirth, RecordDeath
<1> QED BY <1>1, <1>2, <1>4 DEF VectorTypes, RecordingHeap, NoUpdates, Owned

LEMMA RestoreStep ==
  ASSUME RecordInv, VectorTypes, RecordingHeap, RestoreSnapshot
  PROVE  VectorTypes' /\ Restored'
<1>1. /\ phase = "repair" /\ Unrepaired = {} /\ objs' = snapshot
      /\ UNCHANGED <<heap, allocs, total, snapshot, indices, replays, before, birthObjects, deathObjects>>
      /\ UNCHANGED <<objUpdate, birthUpdate, deathUpdate, birthPlaces>>
  BY DEF RestoreSnapshot, heapVars, updateVars, replayVars, traceVars
<1>2. \A c \in Classes : Len(snapshot[c]) = Len(indices[c])
  BY <1>1 DEF Unrepaired, RecordInv, IndInv, Recording
<1> QED BY <1>1, <1>2 DEF VectorTypes, RecordingHeap, Restored, NoUpdates, Owned, Lengths,
           RecordInv, TraceTypes

-----------------------------------------------------------------------------
(***************************************************************************)
(* BuildUpdateVectors.                                                     *)
(***************************************************************************)
LEMMA BuildStart ==
  ASSUME RecordInv, VectorTypes, Restored, BuildUpdateVectors
  PROVE  VectorTypes' /\ BuildingDeaths'
<1>1. /\ UNCHANGED <<heap, allocs, total, objs, replays, before>> /\ UNCHANGED traceVars
      /\ UNCHANGED <<objUpdate, birthUpdate, deathUpdate>>
      /\ UNCHANGED <<snapshot, indices, trace, deathIndices, births>>
      /\ at' = 1 /\ deathAt' = 1
      /\ birthPlaces' = [b \in 1 .. births |-> Null]
      /\ birthObjects' = [b \in 1 .. births |-> Null]
      /\ deathObjects' = [d \in 1 .. Len(deathIndices) |-> Null]
  BY DEF BuildUpdateVectors, heapVars, traceVars
<1>2. births \in Nat /\ Len(deathIndices) \in Nat /\ Null \in Pointer /\ Null \in Place \cup {Null}
  BY LenProperties DEF RecordInv, IndInv, ListTypes, TraceTypes, Pointer
<1>3. birthPlaces' \in Seq(Place \cup {Null}) /\ Len(birthPlaces') = births
  <2>1. birthPlaces' \in [1 .. births -> Place \cup {Null}]
    BY <1>1, <1>2
  <2> QED BY <1>2, <2>1, FunctionIsSeq
<1>4. birthObjects' \in Seq(Pointer) /\ Len(birthObjects') = births
  <2>1. birthObjects' \in [1 .. births -> Pointer]
    BY <1>1, <1>2
  <2> QED BY <1>2, <2>1, FunctionIsSeq
<1>5. deathObjects' \in Seq(Pointer) /\ Len(deathObjects') = Len(deathIndices)
  <2>1. deathObjects' \in [1 .. Len(deathIndices) -> Pointer]
    BY <1>1, <1>2
  <2> QED BY <1>2, <2>1, FunctionIsSeq
<1>6. VectorTypes'
  BY <1>1, <1>3, <1>4, <1>5 DEF VectorTypes
<1>7. Deaths' = Deaths /\ Deaths \in SUBSET (Nat \ {0}) /\ Len(trace) \in Nat
  BY <1>1, SameTrace, Positions DEF RecordInv
<1>8. Count(Deaths', at' - 1) = 0
  <2>1. at' - 1 = 0
    BY <1>1
  <2>2. Count(Deaths, 0) = 0
    BY <1>7, CountFacts
  <2> QED BY <1>7, <2>1, <2>2
<1>9. DeathUpdatesSound'
  <2>1. \A c \in Classes : Len(deathUpdate'[c]) = 0
    BY <1>1, EmptySeq DEF Restored, NoUpdates, Nothing
  <2> QED BY <2>1 DEF DeathUpdatesSound
<1>10. \A k \in Deaths' : ~(k < at')
  BY <1>1, <1>7
<1>11. at' <= Len(trace') + 1 /\ deathAt' = Count(Deaths', at' - 1) + 1
  BY <1>1, <1>7, <1>8
<1>12. Owned(heap, objs)' /\ Lengths'
  <2>1. UNCHANGED <<heap, objs, indices>>
    BY <1>1
  <2> QED BY <2>1 DEF Restored, Owned, Lengths
<1>14. Sizes'
  <2>1. UNCHANGED <<births, deathIndices>>
    BY <1>1
  <2> QED BY <1>3, <1>4, <1>5, <2>1 DEF Sizes
<1>13. objUpdate' = Nothing /\ birthUpdate' = Nothing /\ allocs' = total' /\ replays' = 0
  BY <1>1 DEF Restored, NoUpdates
<1> QED BY <1>6, <1>9, <1>10, <1>11, <1>12, <1>13, <1>14 DEF BuildingDeaths

LEMMA BuildDeathStep ==
  ASSUME RecordInv, VectorTypes, BuildingDeaths, BuildDeath
  PROVE  VectorTypes' /\ BuildingDeaths'
<1>1. /\ UNCHANGED <<heap, allocs, total, objs, replays, before>> /\ UNCHANGED traceVars
      /\ UNCHANGED <<objUpdate, birthUpdate, birthObjects>>
      /\ UNCHANGED <<snapshot, indices, trace, deathIndices, births>>
      /\ at' = at + 1 /\ deathAt' = deathAt + 1
      /\ at <= Len(trace) /\ ~trace[at].birth
  BY DEF BuildDeath, heapVars, traceVars
<1>2. /\ Deaths' = Deaths
      /\ \A k : DeathsTo(k)' = DeathsTo(k) /\ Victim(k)' = Victim(k)
  BY <1>1, SameTrace
<1>3. /\ at \in Nat \ {0} /\ Len(trace) \in Nat /\ Deaths \in SUBSET (Nat \ {0})
      /\ \A k \in 1 .. Len(trace) : trace[k].class \in Classes
      /\ deathAt = Count(Deaths, at - 1) + 1
  BY Positions DEF RecordInv, ScalarTypes, BuildingDeaths
<1>4. PICK a \in Nat \ {0}, c \in Classes : a = at /\ c = trace[at].class /\ a \in Deaths
  BY <1>1, <1>3 DEF Deaths
<1>5. DeathsTo(a) = deathAt
  <2>1. /\ a - 1 \in Nat /\ (a - 1) + 1 = a
    BY <1>4
  <2>2. Count(Deaths, (a - 1) + 1) = Count(Deaths, a - 1) + (IF (a - 1) + 1 \in Deaths THEN 1 ELSE 0)
    BY <1>3, <2>1, CountFacts
  <2> QED BY <1>3, <1>4, <2>1, <2>2 DEF DeathsTo
<1>6. PICK e \in Nat : e = deathAt /\ e \in 1 .. Len(deathIndices) /\ e = DeathsTo(a)
  BY <1>4, <1>5, DeathFactsOf DEF RecordInv, ScalarTypes
<1>7. PICK o \in ObjectIndex : /\ o = Victim(a) /\ o = deathIndices[deathAt] /\ o \in Objects(c)
                               /\ o.born => o.index \in 1 .. births
                               /\ ~o.born => o.index \in 1 .. Len(snapshot[c])
  <2>1. Victim(a) = deathIndices[deathAt]
    BY <1>5 DEF Victim
  <2> QED BY <1>4, <2>1, DeathFactsOf
<1>8. \A k \in Deaths : k < at' => k < at \/ k = a
  BY <1>1, <1>3, <1>4
<1>9. \A k \in Deaths : k < at => DeathsTo(k) # e
  <2> SUFFICES ASSUME NEW k \in Deaths, k < at, DeathsTo(k) = e PROVE FALSE
    OBVIOUS
  <2>1. k = a
    BY <1>4, <1>6, DeathsApart
  <2> QED BY <1>3, <1>4, <2>1
<1>10. /\ deathUpdate \in [Classes -> Seq(UpdatePair)] /\ birthPlaces \in Seq(Place \cup {Null})
       /\ deathObjects \in Seq(Pointer) /\ objs \in [Classes -> Seq(Pointer)]
       /\ Len(birthPlaces) = births /\ Len(deathObjects) = Len(deathIndices)
       /\ \A d \in Classes : Len(objs[d]) = Len(indices[d])
       /\ \A d \in Classes : \A k \in Deaths :
            trace[k].class = d /\ k < at => DeathBuilt(d, k) /\ LookedUp(d, k)
  BY DEF VectorTypes, BuildingDeaths, Sizes, Lengths
<1>11. Len(deathObjects) \in Nat /\ Len(birthPlaces) \in Nat /\ Len(deathIndices) \in Nat
  BY <1>10, LenProperties DEF RecordInv, TraceTypes
<1> DEFINE Built == \A d \in Classes : \A k \in Deaths :
                      trace[k].class = d /\ k < at' => DeathBuilt(d, k)' /\ LookedUp(d, k)'
<1>12. ASSUME ~o.born
       PROVE  VectorTypes' /\ Sizes' /\ DeathUpdatesSound' /\ Built
  <2> DEFINE pair == [from |-> o.index, to |-> e]
  <2>0. pair \in UpdatePair /\ pair = DeathPair(a)
    BY <1>6, <1>7 DEF UpdatePair, DeathPair, ObjectIndex
  <2> HIDE DEF pair
  <2>1. /\ deathUpdate' = [deathUpdate EXCEPT ![c] = Append(deathUpdate[c], pair)]
        /\ deathObjects' = [deathObjects EXCEPT ![e] = objs[c][o.index]]
        /\ birthPlaces' = birthPlaces
    BY <1>4, <1>6, <1>7, <1>12 DEF BuildDeath, pair
  <2>2. PICK m \in Nat : m = Len(deathUpdate[c])
    BY <1>10, LenProperties
  <2>3. /\ deathUpdate' \in [Classes -> Seq(UpdatePair)]
        /\ \A d \in Classes : d # c => deathUpdate'[d] = deathUpdate[d]
        /\ Len(deathUpdate'[c]) = m + 1 /\ deathUpdate'[c][m + 1] = pair
        /\ \A n \in 1 .. m : deathUpdate'[c][n] = deathUpdate[c][n]
    BY <1>10, <2>0, <2>1, <2>2, AppendIn
  <2>4. PICK x \in Pointer : x = objs[c][o.index]
    <3>1. o.index \in 1 .. Len(objs[c])
      BY <1>7, <1>10, <1>12 DEF Restored, RecordInv, Repaired, BuildDeath
    <3> QED BY <1>10, <3>1, ElementOfSeq
  <2>5. /\ deathObjects' \in Seq(Pointer) /\ Len(deathObjects') = Len(deathObjects)
        /\ \A j \in 1 .. Len(deathObjects) : deathObjects'[j] = IF j = e THEN x ELSE deathObjects[j]
    BY <1>6, <1>10, <2>1, <2>4, Assign
  <2>6. VectorTypes' /\ Sizes'
    BY <1>1, <1>10, <2>1, <2>3, <2>5 DEF VectorTypes, Sizes, BuildingDeaths
  <2>7. DeathUpdatesSound'
    <3> SUFFICES ASSUME NEW d \in Classes, NEW n \in 1 .. Len(deathUpdate'[d])
                 PROVE  \E k \in Deaths : /\ trace[k].class = d /\ ~Victim(k).born
                                          /\ deathUpdate'[d][n] = DeathPair(k)
      BY <1>1, <1>2 DEF DeathUpdatesSound, DeathPair
    <3>1. CASE d = c /\ n = m + 1
      BY <1>4, <1>7, <1>12, <2>0, <2>3, <3>1
    <3>2. CASE ~(d = c /\ n = m + 1)
      <4>1. n \in 1 .. Len(deathUpdate[d]) /\ deathUpdate'[d][n] = deathUpdate[d][n]
        BY <2>2, <2>3, <3>2
      <4> QED BY <4>1 DEF BuildingDeaths, DeathUpdatesSound
    <3> QED BY <3>1, <3>2
  <2>8. ASSUME NEW d \in Classes, NEW k \in Deaths, trace[k].class = d, k < at'
        PROVE  DeathBuilt(d, k)' /\ LookedUp(d, k)'
    <3>1. CASE k = a
      <4>1. d = c /\ ~Victim(k).born /\ m + 1 \in 1 .. Len(deathUpdate'[c])
        <5>1. d = c
          BY <1>4, <2>8, <3>1
        <5>2. ~Victim(k).born
          BY <1>7, <1>12, <3>1
        <5> QED BY <2>3, <5>1, <5>2
      <4>2. DeathBuilt(d, k)'
        BY <1>2, <2>0, <2>3, <3>1, <4>1 DEF DeathBuilt, DeathPair
      <4>3. LookedUp(d, k)'
        BY <1>1, <1>2, <1>6, <1>7, <1>10, <2>4, <2>5, <3>1, <4>1 DEF LookedUp
      <4> QED BY <4>2, <4>3
    <3>2. CASE k < at
      <4>1. DeathBuilt(d, k) /\ LookedUp(d, k) /\ DeathsTo(k) # e /\ DeathsTo(k) \in 1 .. Len(deathIndices)
        BY <1>9, <1>10, <2>8, <3>2, DeathFactsOf
      <4>2. DeathBuilt(d, k)'
        <5>1. ASSUME NEW n \in 1 .. Len(deathUpdate[d])
              PROVE  n \in 1 .. Len(deathUpdate'[d]) /\ deathUpdate'[d][n] = deathUpdate[d][n]
          BY <2>2, <2>3
        <5>2. DeathPair(k)' = DeathPair(k)
          BY <1>2 DEF DeathPair
        <5> QED BY <1>2, <2>1, <4>1, <5>1, <5>2 DEF DeathBuilt
      <4>3. LookedUp(d, k)'
        BY <1>1, <1>2, <1>10, <2>5, <4>1 DEF LookedUp
      <4> QED BY <4>2, <4>3
    <3> QED BY <1>8, <2>8, <3>1, <3>2
  <2> QED BY <2>6, <2>7, <2>8
<1>13. ASSUME o.born
       PROVE  VectorTypes' /\ Sizes' /\ DeathUpdatesSound' /\ Built
  <2> DEFINE place == [vector |-> "death", index |-> e]
  <2>0. place \in Place \cup {Null}
    BY <1>6 DEF Place
  <2> HIDE DEF place
  <2>1. /\ birthPlaces' = [birthPlaces EXCEPT ![o.index] = place]
        /\ UNCHANGED <<deathUpdate, deathObjects>>
    BY <1>6, <1>7, <1>13 DEF BuildDeath, place
  <2>2. PICK b \in Nat : b = o.index /\ b \in 1 .. births
    BY <1>7, <1>13 DEF ObjectIndex
  <2>3. /\ birthPlaces' \in Seq(Place \cup {Null}) /\ Len(birthPlaces') = Len(birthPlaces)
        /\ \A j \in 1 .. Len(birthPlaces) : birthPlaces'[j] = IF j = b THEN place ELSE birthPlaces[j]
    BY <1>10, <2>0, <2>1, <2>2, Assign
  <2>4. VectorTypes' /\ Sizes'
    BY <1>1, <1>10, <2>1, <2>3 DEF VectorTypes, Sizes, BuildingDeaths
  <2>5. DeathUpdatesSound'
    BY <1>1, <1>2, <2>1 DEF BuildingDeaths, DeathUpdatesSound, DeathPair
  <2>6. ASSUME NEW d \in Classes, NEW k \in Deaths, trace[k].class = d, k < at'
        PROVE  DeathBuilt(d, k)' /\ LookedUp(d, k)'
    <3>1. CASE k = a
      BY <1>2, <1>6, <1>7, <1>10, <1>13, <2>2, <2>3, <3>1 DEF DeathBuilt, LookedUp, place
    <3>2. CASE k < at
      <4>1. DeathBuilt(d, k) /\ LookedUp(d, k)
        BY <1>10, <2>6, <3>2
      <4>2. Victim(k).born => Victim(k).index \in 1 .. births /\ Victim(k).index # b
        <5>1. Victim(k).born /\ Victim(k).index = b => k = a
          BY <1>4, <1>7, <1>13, <2>2, BornDeathsApart
        <5> QED BY <1>3, <1>4, <2>6, <3>2, <5>1, DeathFactsOf
      <4>3. DeathBuilt(d, k)'
        BY <1>2, <1>10, <2>1, <2>3, <4>1, <4>2 DEF DeathBuilt, DeathPair
      <4>4. LookedUp(d, k)'
        BY <1>1, <1>2, <2>1, <4>1 DEF LookedUp
      <4> QED BY <4>3, <4>4
    <3> QED BY <1>8, <2>6, <3>1, <3>2
  <2> QED BY <2>4, <2>5, <2>6
<1>14. VectorTypes' /\ Sizes' /\ DeathUpdatesSound' /\ Built
  BY <1>7, <1>12, <1>13 DEF ObjectIndex
<1>15. at' <= Len(trace') + 1 /\ deathAt' = Count(Deaths', at' - 1) + 1
  <2>1. at' - 1 = a
    BY <1>1, <1>4
  <2> QED BY <1>1, <1>2, <1>3, <1>4, <1>5, <2>1 DEF DeathsTo
<1>16. \A d \in Classes : \A k \in Deaths' :
         trace'[k].class = d /\ k < at' => DeathBuilt(d, k)' /\ LookedUp(d, k)'
  BY <1>1, <1>2, <1>14
<1> HIDE DEF Built
<1> QED BY <1>1, <1>14, <1>15, <1>16 DEF BuildingDeaths, Owned, Lengths

LEMMA SkipBirthStep ==
  ASSUME RecordInv, VectorTypes, BuildingDeaths, SkipBirth
  PROVE  VectorTypes' /\ BuildingDeaths'
<1>1. /\ UNCHANGED <<heap, allocs, total, objs, replays, before>> /\ UNCHANGED traceVars
      /\ UNCHANGED <<objUpdate, birthUpdate, deathUpdate, birthPlaces, birthObjects, deathObjects>>
      /\ UNCHANGED <<snapshot, indices, trace, deathIndices, births, deathAt>>
      /\ at' = at + 1 /\ at <= Len(trace) /\ trace[at].birth
  BY DEF SkipBirth, heapVars, traceVars, updateVars, replayVars
<1>2. /\ Deaths' = Deaths
      /\ \A k : DeathsTo(k)' = DeathsTo(k) /\ Victim(k)' = Victim(k)
  BY <1>1, SameTrace
<1>3. /\ at \in Nat \ {0} /\ Len(trace) \in Nat /\ Deaths \in SUBSET (Nat \ {0}) /\ at \notin Deaths
      /\ deathAt = Count(Deaths, at - 1) + 1
  BY <1>1, Positions DEF RecordInv, ScalarTypes, BuildingDeaths, Deaths
<1>4. PICK a \in Nat \ {0} : a = at
  BY <1>3
<1>5. Count(Deaths, a) = Count(Deaths, a - 1)
  <2>1. a - 1 \in Nat /\ (a - 1) + 1 = a
    BY <1>4
  <2>2. /\ Count(Deaths, (a - 1) + 1) = Count(Deaths, a - 1) + (IF (a - 1) + 1 \in Deaths THEN 1 ELSE 0)
        /\ Count(Deaths, a - 1) \in Nat
    BY <1>3, <2>1, CountFacts
  <2> QED BY <1>3, <1>4, <2>1, <2>2
<1>6. at' <= Len(trace') + 1 /\ deathAt' = Count(Deaths', at' - 1) + 1
  <2>1. at' - 1 = a
    BY <1>1, <1>4
  <2> QED BY <1>1, <1>2, <1>3, <1>4, <1>5, <2>1
<1>7. ASSUME NEW d \in Classes, NEW k \in Deaths, trace[k].class = d, k < at'
      PROVE  DeathBuilt(d, k)' /\ LookedUp(d, k)'
  <2>1. k < at
    BY <1>1, <1>3, <1>7
  <2>2. DeathBuilt(d, k) /\ LookedUp(d, k)
    BY <1>7, <2>1 DEF BuildingDeaths
  <2> QED BY <1>1, <1>2, <2>2 DEF DeathBuilt, LookedUp, DeathPair
<1>8. VectorTypes' /\ Sizes' /\ Owned(heap, objs)' /\ Lengths'
  BY <1>1 DEF VectorTypes, BuildingDeaths, Sizes, Owned, Lengths
<1>9. DeathUpdatesSound'
  BY <1>1, <1>2 DEF BuildingDeaths, DeathUpdatesSound, DeathPair
<1>10. \A d \in Classes : \A k \in Deaths' :
         trace'[k].class = d /\ k < at' => DeathBuilt(d, k)' /\ LookedUp(d, k)'
  BY <1>1, <1>2, <1>7
<1> QED BY <1>1, <1>6, <1>8, <1>9, <1>10 DEF BuildingDeaths

\* What of the vectors is built does not change with the loop.
LEMMA SameVectors ==
  ASSUME UNCHANGED traceVars, UNCHANGED updateVars
  PROVE  /\ Deaths' = Deaths
         /\ DeathUpdatesSound' = DeathUpdatesSound
         /\ ObjUpdatesSound' = ObjUpdatesSound /\ BirthUpdatesSound' = BirthUpdatesSound
         /\ \A c, k : DeathBuilt(c, k)' = DeathBuilt(c, k)
         /\ \A c, i : SlotBuilt(c, i)' = SlotBuilt(c, i)
<1>1. /\ UNCHANGED <<snapshot, indices, trace, deathIndices, births>>
      /\ UNCHANGED <<objUpdate, birthUpdate, deathUpdate, birthPlaces>>
  BY DEF traceVars, updateVars
<1>2. /\ Deaths' = Deaths
      /\ \A k : DeathsTo(k)' = DeathsTo(k) /\ Victim(k)' = Victim(k)
  BY SameTrace
<1>3. DeathUpdatesSound' = DeathUpdatesSound
  BY <1>1, <1>2 DEF DeathUpdatesSound, DeathPair
<1>4. ObjUpdatesSound' = ObjUpdatesSound /\ BirthUpdatesSound' = BirthUpdatesSound
  BY <1>1 DEF ObjUpdatesSound, BirthUpdatesSound, Old, New
<1>5. \A c, k : DeathBuilt(c, k)' = DeathBuilt(c, k)
  BY <1>1, <1>2 DEF DeathBuilt, DeathPair
<1>6. \A c, i : SlotBuilt(c, i)' = SlotBuilt(c, i)
  BY <1>1 DEF SlotBuilt
<1> QED BY <1>2, <1>3, <1>4, <1>5, <1>6

LEMMA EndDeathsStep ==
  ASSUME RecordInv, VectorTypes, BuildingDeaths, EndDeaths
  PROVE  VectorTypes' /\ BuildingSlots'
<1>1. /\ UNCHANGED <<heap, allocs, total, objs, replays, before>> /\ UNCHANGED traceVars
      /\ UNCHANGED updateVars
      /\ UNCHANGED <<objUpdate, birthUpdate, deathUpdate, birthPlaces, birthObjects, deathObjects>>
      /\ UNCHANGED <<snapshot, indices, trace, deathIndices, births, deathAt>>
      /\ class' = 1 /\ at' = 1 /\ at > Len(trace)
  BY DEF EndDeaths, heapVars, traceVars, updateVars, replayVars
<1>2. /\ Deaths' = Deaths /\ DeathUpdatesSound' = DeathUpdatesSound
      /\ \A c, k : DeathBuilt(c, k)' = DeathBuilt(c, k)
  BY <1>1, SameVectors
<1>3. \A k : DeathsTo(k)' = DeathsTo(k) /\ Victim(k)' = Victim(k)
  BY <1>1, SameTrace
<1>4. at \in Nat /\ Len(trace) \in Nat /\ \A k \in Deaths : k \in 1 .. Len(trace)
  BY Positions DEF RecordInv, ScalarTypes, Deaths
<1>5. \A c \in Classes : \A k \in Deaths : trace[k].class = c => DeathBuilt(c, k) /\ LookedUp(c, k)
  BY <1>1, <1>4 DEF BuildingDeaths
<1>6. VectorTypes' /\ Sizes' /\ Owned(heap, objs)' /\ Lengths'
  BY <1>1 DEF VectorTypes, BuildingDeaths, Sizes, Owned, Lengths
<1>7. AllLookedUp'
  BY <1>1, <1>2, <1>3, <1>5 DEF AllLookedUp, LookedUp
<1>8. \A c \in Classes : \A k \in Deaths' : trace'[k].class = c => DeathBuilt(c, k)'
  BY <1>1, <1>2, <1>5
<1>9. ObjUpdatesSound' /\ BirthUpdatesSound'
  <2>1. \A c \in Classes : Len(objUpdate'[c]) = 0 /\ Len(birthUpdate'[c]) = 0
    BY <1>1, EmptySeq DEF BuildingDeaths, Nothing
  <2> QED BY <2>1 DEF ObjUpdatesSound, BirthUpdatesSound
<1>10. \A c \in Classes : \A i \in 1 .. Len(indices'[c]) : ~(c < class' \/ (c = class' /\ i < at'))
  <2>1. ASSUME NEW c \in Classes, NEW i \in 1 .. Len(indices'[c])
        PROVE  ~(c < 1) /\ ~(i < 1)
    <3>1. c \in Nat \ {0} /\ Len(indices[c]) \in Nat
      BY EmpiricalAssumption, LenProperties DEF Classes, RecordInv, IndInv, ListTypes
    <3> QED BY <1>1, <3>1
  <2> QED BY <1>1, <2>1
<1> QED BY <1>1, <1>2, <1>6, <1>7, <1>8, <1>9, <1>10 DEF BuildingSlots, BuildingDeaths

LEMMA BuildSlotStep ==
  ASSUME RecordInv, VectorTypes, BuildingSlots, BuildSlot
  PROVE  VectorTypes' /\ BuildingSlots'
<1>1. /\ UNCHANGED <<heap, allocs, total, objs, replays, before>> /\ UNCHANGED traceVars
      /\ UNCHANGED <<deathUpdate, birthObjects, deathObjects>>
      /\ UNCHANGED <<snapshot, indices, trace, deathIndices, births, deathAt, class>>
      /\ at' = at + 1 /\ at <= Len(indices[class])
  BY DEF BuildSlot, heapVars, traceVars, replayVars
<1>2. /\ Deaths' = Deaths
      /\ \A k : DeathsTo(k)' = DeathsTo(k) /\ Victim(k)' = Victim(k)
  BY <1>1, SameTrace
<1>3. PICK a \in Nat \ {0}, c \in Classes : a = at /\ c = class
  BY DEF RecordInv, ScalarTypes
<1>4. a \in 1 .. Len(indices[c]) /\ Len(indices[c]) \in Nat
  BY <1>1, <1>3, LenProperties DEF RecordInv, IndInv, ListTypes
<1>5. PICK o \in ObjectIndex :
        /\ o = indices[c][a]
        /\ o.born => o.index \in 1 .. births /\ o = New(o.index)
        /\ ~o.born => o = Old(o.index)
  BY <1>4, SlotFacts
<1>6. /\ objUpdate \in [Classes -> Seq(UpdatePair)] /\ birthUpdate \in [Classes -> Seq(UpdatePair)]
      /\ birthPlaces \in Seq(Place \cup {Null}) /\ Len(birthPlaces) = births
      /\ ObjUpdatesSound /\ BirthUpdatesSound
      /\ \A d \in Classes : \A k \in Deaths : trace[k].class = d => DeathBuilt(d, k)
      /\ \A d \in Classes : \A i \in 1 .. Len(indices[d]) :
           d < c \/ (d = c /\ i < a) => SlotBuilt(d, i)
  BY <1>3 DEF VectorTypes, BuildingSlots, Sizes
<1> DEFINE pair == [from |-> o.index, to |-> a]
           Goal == /\ VectorTypes' /\ Sizes' /\ ObjUpdatesSound' /\ BirthUpdatesSound'
                   /\ \A d \in Classes : \A k \in Deaths : trace[k].class = d => DeathBuilt(d, k)'
                   /\ \A d \in Classes : \A i \in 1 .. Len(indices[d]) :
                        SlotBuilt(d, i) \/ (d = c /\ i = a) => SlotBuilt(d, i)'
<1>7. pair \in UpdatePair /\ pair.from = o.index /\ pair.to = a
  BY DEF UpdatePair, ObjectIndex
<1>8. ASSUME ~o.born, o.index = a PROVE Goal
  <2>1. UNCHANGED <<objUpdate, birthUpdate, birthPlaces>>
    BY <1>3, <1>5, <1>8 DEF BuildSlot
  <2>2. UNCHANGED updateVars
    BY <1>1, <2>1 DEF updateVars
  <2>3. /\ ObjUpdatesSound' = ObjUpdatesSound /\ BirthUpdatesSound' = BirthUpdatesSound
        /\ \A d, k : DeathBuilt(d, k)' = DeathBuilt(d, k)
        /\ \A d, i : SlotBuilt(d, i)' = SlotBuilt(d, i)
    BY <1>1, <2>2, SameVectors
  <2>4. SlotBuilt(c, a)
    BY <1>5, <1>8 DEF SlotBuilt
  <2>5. VectorTypes' /\ Sizes'
    BY <1>1, <2>1 DEF VectorTypes, BuildingSlots, Sizes
  <2> QED BY <1>6, <2>3, <2>4, <2>5
<1>9. ASSUME ~o.born, o.index # a PROVE Goal
  <2> HIDE DEF pair
  <2>1. /\ objUpdate' = [objUpdate EXCEPT ![c] = Append(objUpdate[c], pair)]
        /\ UNCHANGED <<birthUpdate, birthPlaces>>
    BY <1>3, <1>5, <1>9 DEF BuildSlot, pair
  <2>2. PICK m \in Nat : m = Len(objUpdate[c])
    BY <1>6, LenProperties
  <2>3. /\ objUpdate' \in [Classes -> Seq(UpdatePair)]
        /\ \A d \in Classes : d # c => objUpdate'[d] = objUpdate[d]
        /\ Len(objUpdate'[c]) = m + 1 /\ objUpdate'[c][m + 1] = pair
        /\ \A n \in 1 .. m : objUpdate'[c][n] = objUpdate[c][n]
    BY <1>6, <1>7, <2>1, <2>2, AppendIn
  <2>4. ASSUME NEW d \in Classes, NEW n \in 1 .. Len(objUpdate[d])
        PROVE  n \in 1 .. Len(objUpdate'[d]) /\ objUpdate'[d][n] = objUpdate[d][n]
    BY <2>2, <2>3
  <2>5. VectorTypes' /\ Sizes'
    BY <1>1, <2>1, <2>3 DEF VectorTypes, BuildingSlots, Sizes
  <2>6. ObjUpdatesSound'
    <3> SUFFICES ASSUME NEW d \in Classes, NEW n \in 1 .. Len(objUpdate'[d])
                 PROVE  /\ objUpdate'[d][n].to \in 1 .. Len(indices[d])
                        /\ indices[d][objUpdate'[d][n].to] = Old(objUpdate'[d][n].from)
                        /\ objUpdate'[d][n].from # objUpdate'[d][n].to
      BY <1>1 DEF ObjUpdatesSound, Old
    <3>1. CASE d = c /\ n = m + 1
      BY <1>4, <1>5, <1>7, <1>9, <2>3, <3>1
    <3>2. CASE ~(d = c /\ n = m + 1)
      <4>1. n \in 1 .. Len(objUpdate[d]) /\ objUpdate'[d][n] = objUpdate[d][n]
        BY <2>2, <2>3, <3>2
      <4> QED BY <1>6, <4>1 DEF ObjUpdatesSound
    <3> QED BY <3>1, <3>2
  <2>7. BirthUpdatesSound'
    BY <1>1, <1>6, <2>1 DEF BirthUpdatesSound, New
  <2>8. \A d \in Classes : \A k \in Deaths : trace[k].class = d => DeathBuilt(d, k)'
    BY <1>1, <1>2, <1>6, <2>1 DEF DeathBuilt, DeathPair
  <2>9. ASSUME NEW d \in Classes, NEW i \in 1 .. Len(indices[d]), SlotBuilt(d, i) \/ (d = c /\ i = a)
        PROVE  SlotBuilt(d, i)'
    <3>1. CASE SlotBuilt(d, i)
      BY <1>1, <2>1, <2>4, <3>1 DEF SlotBuilt
    <3>2. CASE d = c /\ i = a
      <4>1. m + 1 \in 1 .. Len(objUpdate'[c])
        BY <2>3
      <4> QED BY <1>1, <1>5, <1>9, <2>3, <3>2, <4>1 DEF SlotBuilt, pair
    <3> QED BY <2>9, <3>1, <3>2
  <2> QED BY <2>5, <2>6, <2>7, <2>8, <2>9
<1>10. ASSUME o.born PROVE Goal
  <2> DEFINE place == [vector |-> "birth", index |-> o.index]
  <2>0. place \in Place \cup {Null}
    BY DEF Place, ObjectIndex
  <2> HIDE DEF pair, place
  <2>1. /\ birthUpdate' = [birthUpdate EXCEPT ![c] = Append(birthUpdate[c], pair)]
        /\ birthPlaces' = [birthPlaces EXCEPT ![o.index] = place]
        /\ UNCHANGED objUpdate
    BY <1>3, <1>5, <1>10 DEF BuildSlot, pair, place
  <2>2. PICK m \in Nat : m = Len(birthUpdate[c])
    BY <1>6, LenProperties
  <2>3. /\ birthUpdate' \in [Classes -> Seq(UpdatePair)]
        /\ \A d \in Classes : d # c => birthUpdate'[d] = birthUpdate[d]
        /\ Len(birthUpdate'[c]) = m + 1 /\ birthUpdate'[c][m + 1] = pair
        /\ \A n \in 1 .. m : birthUpdate'[c][n] = birthUpdate[c][n]
    BY <1>6, <1>7, <2>1, <2>2, AppendIn
  <2>4. PICK b \in Nat : b = o.index /\ b \in 1 .. births
    BY <1>5, <1>10 DEF ObjectIndex
  <2>5. /\ birthPlaces' \in Seq(Place \cup {Null}) /\ Len(birthPlaces') = Len(birthPlaces)
        /\ \A j \in 1 .. Len(birthPlaces) : birthPlaces'[j] = IF j = b THEN place ELSE birthPlaces[j]
    BY <1>6, <2>0, <2>1, <2>4, Assign
  <2>6. VectorTypes' /\ Sizes'
    BY <1>1, <1>6, <2>1, <2>3, <2>5 DEF VectorTypes, BuildingSlots, Sizes
  <2>7. ObjUpdatesSound'
    BY <1>1, <1>6, <2>1 DEF ObjUpdatesSound, Old
  <2>8. BirthUpdatesSound'
    <3> SUFFICES ASSUME NEW d \in Classes, NEW n \in 1 .. Len(birthUpdate'[d])
                 PROVE  /\ birthUpdate'[d][n].to \in 1 .. Len(indices[d])
                        /\ indices[d][birthUpdate'[d][n].to] = New(birthUpdate'[d][n].from)
      BY <1>1 DEF BirthUpdatesSound, New
    <3>1. CASE d = c /\ n = m + 1
      BY <1>4, <1>5, <1>7, <1>10, <2>3, <3>1
    <3>2. CASE ~(d = c /\ n = m + 1)
      <4>1. n \in 1 .. Len(birthUpdate[d]) /\ birthUpdate'[d][n] = birthUpdate[d][n]
        BY <2>2, <2>3, <3>2
      <4> QED BY <1>6, <4>1 DEF BirthUpdatesSound
    <3> QED BY <3>1, <3>2
  <2>9. ASSUME NEW d \in Classes, NEW k \in Deaths, trace[k].class = d PROVE DeathBuilt(d, k)'
    <3>1. Victim(k).born => Victim(k).index \in 1 .. births /\ Victim(k).index # b
      BY <1>4, <1>5, <1>10, <2>4, <2>9, DeathFactsOf, BornSlotNoDeath
    <3>2. DeathBuilt(d, k)
      BY <1>6, <2>9
    <3> QED BY <1>1, <1>2, <1>6, <2>5, <3>1, <3>2 DEF DeathBuilt, DeathPair
  <2>10. ASSUME NEW d \in Classes, NEW i \in 1 .. Len(indices[d]), SlotBuilt(d, i) \/ (d = c /\ i = a)
         PROVE  SlotBuilt(d, i)'
    <3>1. CASE d = c /\ i = a
      <4>1. m + 1 \in 1 .. Len(birthUpdate'[c])
        BY <2>3
      <4> QED BY <1>1, <1>5, <1>6, <1>10, <2>3, <2>4, <2>5, <3>1, <4>1 DEF SlotBuilt, pair, place
    <3>2. CASE SlotBuilt(d, i) /\ ~(d = c /\ i = a)
      <4>1. indices[d][i].born => indices[d][i].index \in 1 .. births /\ indices[d][i].index # b
        BY <1>4, <1>5, <1>10, <2>4, <3>2, SlotFacts, BornSlotsApart
      <4>2. ASSUME NEW n \in 1 .. Len(birthUpdate[d])
            PROVE  n \in 1 .. Len(birthUpdate'[d]) /\ birthUpdate'[d][n] = birthUpdate[d][n]
        <5>1. CASE d # c
          BY <2>3, <5>1
        <5>2. CASE d = c
          <6>1. n \in 1 .. m /\ n \in 1 .. m + 1
            BY <2>2, <5>2
          <6> QED BY <2>3, <5>2, <6>1
        <5> QED BY <5>1, <5>2
      <4>3. indices[d][i].born => birthPlaces'[indices[d][i].index] = birthPlaces[indices[d][i].index]
        BY <1>6, <2>5, <4>1
      <4>4. UNCHANGED <<indices, objUpdate>>
        BY <1>1, <2>1
      <4> QED BY <3>2, <4>2, <4>3, <4>4 DEF SlotBuilt
    <3> QED BY <2>10, <3>1, <3>2
  <2> QED BY <2>6, <2>7, <2>8, <2>9, <2>10
<1>11. Goal
  <2> HIDE DEF Goal
  <2> QED BY <1>5, <1>8, <1>9, <1>10 DEF ObjectIndex
<1>12. DeathUpdatesSound'
  BY <1>1, <1>2 DEF BuildingSlots, DeathUpdatesSound, DeathPair
<1>13. AllLookedUp' /\ Owned(heap, objs)' /\ Lengths'
  <2>1. AllLookedUp'
    BY <1>1, <1>2 DEF BuildingSlots, AllLookedUp, LookedUp
  <2>2. Owned(heap, objs)'
    <3>1. Owned(heap, objs)
      BY DEF BuildingSlots
    <3>2. UNCHANGED <<heap, objs>>
      BY <1>1
    <3> QED BY <3>1, <3>2 DEF Owned
  <2>3. Lengths'
    BY <1>1 DEF BuildingSlots, Lengths
  <2> QED BY <2>1, <2>2, <2>3
<1>14. ASSUME NEW d \in Classes, NEW i \in 1 .. Len(indices[d]), d < class' \/ (d = class' /\ i < at')
       PROVE  SlotBuilt(d, i)'
  <2>1. d < c \/ (d = c /\ i < a) \/ (d = c /\ i = a)
    BY <1>1, <1>3, <1>4, <1>14
  <2> QED BY <1>6, <1>11, <2>1
<1>15. \A d \in Classes : \A i \in 1 .. Len(indices'[d]) :
         d < class' \/ (d = class' /\ i < at') => SlotBuilt(d, i)'
  BY <1>1, <1>14
<1>16. \A d \in Classes : \A k \in Deaths' : trace'[k].class = d => DeathBuilt(d, k)'
  BY <1>1, <1>2, <1>11
<1> QED BY <1>1, <1>11, <1>12, <1>13, <1>15, <1>16 DEF BuildingSlots

LEMMA EndSlotsStep ==
  ASSUME RecordInv, VectorTypes, BuildingSlots, EndSlots
  PROVE  /\ VectorTypes'
         /\ phase' = "slots" => BuildingSlots'
         /\ phase' = "ready" => Ready'
<1>1. /\ UNCHANGED <<heap, allocs, total, objs, replays, before>> /\ UNCHANGED traceVars
      /\ UNCHANGED updateVars
      /\ UNCHANGED <<objUpdate, birthUpdate, deathUpdate, birthPlaces, birthObjects, deathObjects>>
      /\ UNCHANGED <<snapshot, indices, trace, deathIndices, births, deathAt>>
      /\ phase = "slots" /\ at' = 1 /\ at > Len(indices[class])
  BY DEF EndSlots, heapVars, traceVars, updateVars, replayVars
<1>2. /\ Deaths' = Deaths /\ DeathUpdatesSound' /\ ObjUpdatesSound' /\ BirthUpdatesSound'
      /\ \A c, k : DeathBuilt(c, k)' = DeathBuilt(c, k)
      /\ \A c, i : SlotBuilt(c, i)' = SlotBuilt(c, i)
  BY <1>1, SameVectors DEF BuildingSlots
<1>3. \A k : DeathsTo(k)' = DeathsTo(k) /\ Victim(k)' = Victim(k)
  BY <1>1, SameTrace
<1>4. VectorTypes' /\ Sizes' /\ Owned(heap, objs)' /\ Lengths'
  BY <1>1 DEF VectorTypes, BuildingSlots, Sizes, Owned, Lengths
<1>5. AllLookedUp'
  BY <1>1, <1>2, <1>3 DEF BuildingSlots, AllLookedUp, LookedUp
<1>6. /\ at \in Nat \ {0} /\ class \in Classes /\ NumClasses \in Nat
      /\ \A c \in Classes : c \in 1 .. NumClasses /\ Len(indices[c]) \in Nat
  BY LenProperties, EmpiricalAssumption DEF RecordInv, ScalarTypes, IndInv, ListTypes, Classes
<1>7. \A c \in Classes : \A i \in 1 .. Len(indices[c]) : c <= class => SlotBuilt(c, i)
  BY <1>1, <1>6 DEF BuildingSlots
<1>8. \A c \in Classes : \A k \in Deaths' : trace'[k].class = c => DeathBuilt(c, k)'
  BY <1>1, <1>2 DEF BuildingSlots
<1>9. CASE phase' = "slots"
  <2>1. class' = class + 1
    BY <1>9 DEF EndSlots
  <2>2. \A c \in Classes : \A i \in 1 .. Len(indices'[c]) :
          c < class' \/ (c = class' /\ i < at') => SlotBuilt(c, i)'
    BY <1>1, <1>2, <1>6, <1>7, <2>1
  <2> QED BY <1>1, <1>2, <1>4, <1>5, <1>8, <1>9, <2>2 DEF BuildingSlots
<1>10. CASE phase' = "ready"
  <2>1. class = NumClasses
    BY <1>1, <1>10 DEF EndSlots
  <2>2. \A c \in Classes : \A i \in 1 .. Len(indices'[c]) : SlotBuilt(c, i)'
    BY <1>1, <1>2, <1>6, <1>7, <2>1
  <2>3. VectorsBuilt'
    BY <1>2, <1>4, <1>8, <2>2 DEF VectorsBuilt
  <2> QED BY <1>1, <1>4, <1>5, <1>10, <2>3 DEF BuildingSlots, Ready
<1> QED BY <1>4, <1>9, <1>10

-----------------------------------------------------------------------------
(***************************************************************************)
(* ReplayTrace.                                                            *)
(***************************************************************************)
LEMMA SameBuilt ==
  ASSUME VectorsBuilt, UNCHANGED traceVars, UNCHANGED updateVars,
         Len(birthObjects') = Len(birthObjects), Len(deathObjects') = Len(deathObjects)
  PROVE  VectorsBuilt'
<1>1. /\ UNCHANGED <<snapshot, indices, trace, deathIndices, births>>
      /\ UNCHANGED <<objUpdate, birthUpdate, deathUpdate, birthPlaces>>
  BY DEF traceVars, updateVars
<1>2. /\ Deaths' = Deaths
      /\ DeathUpdatesSound' = DeathUpdatesSound
      /\ ObjUpdatesSound' = ObjUpdatesSound /\ BirthUpdatesSound' = BirthUpdatesSound
      /\ \A c, k : DeathBuilt(c, k)' = DeathBuilt(c, k)
      /\ \A c, i : SlotBuilt(c, i)' = SlotBuilt(c, i)
  BY SameVectors
<1> QED BY <1>1, <1>2 DEF VectorsBuilt, Sizes

\* Where the address of an object born in the replay is stored.
LEMMA PlaceFacts ==
  ASSUME RecordInv, VectorsBuilt, NEW c \in Classes, NEW o \in Objects(c), o.born
  PROVE  \/ /\ birthPlaces[o.index] = [vector |-> "birth", index |-> o.index]
            /\ \E i \in 1 .. Len(indices[c]) : indices[c][i] = o
         \/ \E k \in Deaths :
              /\ trace[k].class = c /\ Victim(k) = o
              /\ birthPlaces[o.index] = [vector |-> "death", index |-> DeathsTo(k)]
<1>1. CASE \E i \in 1 .. Len(indices[c]) : indices[c][i] = o
  <2>1. PICK i \in 1 .. Len(indices[c]) : indices[c][i] = o
    BY <1>1
  <2>2. SlotBuilt(c, i)
    BY DEF VectorsBuilt
  <2> QED BY <2>1, <2>2 DEF SlotBuilt
<1>2. CASE \E k \in Deaths : trace[k].class = c /\ Victim(k) = o
  <2>1. PICK k \in Deaths : trace[k].class = c /\ Victim(k) = o
    BY <1>2
  <2>2. DeathBuilt(c, k)
    BY <2>1 DEF VectorsBuilt
  <2> QED BY <2>1, <2>2 DEF DeathBuilt
<1> QED BY <1>1, <1>2 DEF RecordInv, Recorded, NoneForgotten

LEMMA AliveIff ==
  ASSUME NEW c, NEW o
  PROVE  o \in Alive(c) <=>
           /\ o \in Objects(c) /\ (o.born => o.index <= birthIndex)
           /\ \A k \in Deaths : trace[k].class = c /\ Victim(k) = o => k > Position
BY DEF Alive

LEMMA StartStep ==
  ASSUME RecordInv, VectorTypes, Ready, StartReplay
  PROVE  VectorTypes' /\ Replaying'
<1>1. /\ UNCHANGED <<heap, allocs, total, objs>> /\ UNCHANGED traceVars /\ UNCHANGED updateVars
      /\ UNCHANGED <<objUpdate, birthUpdate, deathUpdate, birthPlaces, birthObjects, deathObjects>>
      /\ UNCHANGED <<snapshot, indices, trace, deathIndices, births>>
      /\ birthIndex' = 0 /\ deathIndex' = 0 /\ before' = objs /\ phase = "ready"
  BY DEF StartReplay, heapVars, traceVars, updateVars
<1>2. /\ Deaths' = Deaths /\ Births' = Births
      /\ \A k : DeathsTo(k)' = DeathsTo(k) /\ Victim(k)' = Victim(k)
      /\ \A c : Objects(c)' = Objects(c)
  BY <1>1, SameTrace
<1>3. VectorTypes' /\ Lengths'
  BY <1>1 DEF VectorTypes, Ready, Lengths
<1>4. VectorsBuilt'
  BY <1>1, SameBuilt DEF Ready
<1>5. AllLookedUp'
  BY <1>1, <1>2 DEF Ready, AllLookedUp, LookedUp
<1>6. Position' = 0 /\ Len(trace) \in Nat /\ Births \in SUBSET (Nat \ {0}) /\ Deaths \in SUBSET (Nat \ {0})
  <2>1. Position' = 0
    BY <1>1 DEF Position
  <2> QED BY <2>1, Positions DEF RecordInv
<1>7. birthIndex' = Count(Births', Position') /\ deathIndex' = Count(Deaths', Position')
  <2>1. Count(Births, 0) = 0 /\ Count(Deaths, 0) = 0
    BY <1>6, CountFacts
  <2> QED BY <1>1, <1>2, <1>6, <2>1
<1>8. ASSUME NEW c \in Classes
      PROVE  /\ Len(objs[c]) \in Nat
             /\ \A o : o \in Alive(c)' <=> \E i \in 1 .. Len(objs[c]) : o = Old(i)
             /\ \A i \in 1 .. Len(objs[c]) : AddressOf(c, Old(i))' = objs[c][i]
  <2>1. Len(objs[c]) = Len(snapshot[c]) /\ Len(objs[c]) \in Nat
    BY <1>1, LenProperties DEF Ready, Lengths, RecordInv, Repaired, VectorTypes
  <2>2. ASSUME NEW o \in Alive(c)' PROVE \E i \in 1 .. Len(objs[c]) : o = Old(i)
    <3>1. o \in Objects(c) /\ (o.born => o.index <= 0)
      BY <1>1, <1>2, <2>2 DEF Alive
    <3>2. ~o.born
      BY <3>1, ObjectFacts DEF ObjectIndex
    <3> QED BY <2>1, <3>1, <3>2, ObjectFacts
  <2>3. ASSUME NEW i \in 1 .. Len(objs[c]) PROVE Old(i) \in Alive(c)'
    <3>1. Old(i) \in Objects(c) /\ ~Old(i).born
      BY <2>1, ObjectsIff DEF Old
    <3>2. \A k \in Deaths : k > Position'
      BY <1>6
    <3>3. Alive(c)' = {o \in Objects(c)' :
                         /\ o.born => o.index <= birthIndex'
                         /\ \A k \in Deaths' : trace'[k].class = c /\ Victim(k)' = o => k > Position'}
      BY DEF Alive
    <3> QED BY <1>2, <3>1, <3>2, <3>3
  <2>4. \A i \in 1 .. Len(objs[c]) : AddressOf(c, Old(i))' = objs[c][i]
    BY <1>1 DEF AddressOf, Old
  <2> QED BY <2>1, <2>2, <2>3, <2>4
<1>9. AliveAllocated'
  <2>1. Owned(heap, objs)
    BY DEF Ready
  <2>2. ASSUME NEW c \in Classes, NEW o \in Alive(c)' PROVE AddressOf(c, o)' \in Addresses
    BY <1>8, <2>1, <2>2 DEF Owned
  <2>3. ASSUME NEW c \in Classes, NEW d \in Classes, NEW o \in Alive(c)', NEW q \in Alive(d)',
               AddressOf(c, o)' = AddressOf(d, q)'
        PROVE  c = d /\ o = q
    <3>1. PICK i \in 1 .. Len(objs[c]) : o = Old(i)
      BY <1>8
    <3>2. PICK j \in 1 .. Len(objs[d]) : q = Old(j)
      BY <1>8
    <3>3. objs[c][i] = objs[d][j]
      BY <1>8, <2>3, <3>1, <3>2
    <3>4. c = d /\ i = j
      BY <2>1, <3>3 DEF Owned
    <3> QED BY <3>1, <3>2, <3>4
  <2>4. ASSUME NEW c \in Classes, NEW p \in Addresses
        PROVE  heap'[p] = c <=> \E o \in Alive(c)' : AddressOf(c, o)' = p
    <3>1. heap[p] = c <=> \E i \in 1 .. Len(objs[c]) : objs[c][i] = p
      BY <2>1 DEF Owned
    <3> QED BY <1>1, <1>8, <3>1
  <2> QED BY <2>2, <2>3, <2>4 DEF AliveAllocated
<1>10. allocs' = total' + birthIndex' /\ before' = objs' /\ Position' <= Len(trace')
  BY <1>1, <1>6 DEF Ready, RecordInv, ScalarTypes
<1> QED BY <1>3, <1>4, <1>5, <1>7, <1>9, <1>10 DEF Replaying

\* The counters of the replay are those of the trace.
LEMMA NextPosition ==
  ASSUME RecordInv, Replaying, InTrace, NEW n, n = Position
  PROVE  /\ n \in Nat /\ n + 1 \in 1 .. Len(trace) /\ NextOp = trace[n + 1]
         /\ NextOp.class \in Classes /\ NextOp.birth \in BOOLEAN
         /\ BirthsTo(n) = birthIndex /\ DeathsTo(n) = deathIndex
         /\ NextOp.birth => /\ n + 1 \in Births /\ n + 1 \notin Deaths
                            /\ BirthsTo(n + 1) = birthIndex + 1 /\ DeathsTo(n + 1) = deathIndex
         /\ ~NextOp.birth => /\ n + 1 \in Deaths /\ n + 1 \notin Births
                             /\ BirthsTo(n + 1) = birthIndex /\ DeathsTo(n + 1) = deathIndex + 1
<1>1. /\ birthIndex \in Nat /\ deathIndex \in Nat /\ Len(trace) \in Nat
      /\ Births \in SUBSET (Nat \ {0}) /\ Deaths \in SUBSET (Nat \ {0})
      /\ \A k \in 1 .. Len(trace) : trace[k].class \in Classes /\ trace[k].birth \in BOOLEAN
  BY Positions DEF RecordInv, ScalarTypes
<1>2. n \in Nat /\ n + 1 \in 1 .. Len(trace) /\ NextOp = trace[n + 1]
  BY <1>1 DEF InTrace, NextOp, Position
<1>3. BirthsTo(n) = birthIndex /\ DeathsTo(n) = deathIndex
  BY DEF Replaying, BirthsTo, DeathsTo
<1>4. /\ BirthsTo(n + 1) = BirthsTo(n) + (IF n + 1 \in Births THEN 1 ELSE 0)
      /\ DeathsTo(n + 1) = DeathsTo(n) + (IF n + 1 \in Deaths THEN 1 ELSE 0)
  BY <1>1, <1>2, CountFacts DEF BirthsTo, DeathsTo
<1>5. (n + 1 \in Births <=> NextOp.birth) /\ (n + 1 \in Deaths <=> ~NextOp.birth)
  BY <1>2 DEF Births, Deaths
<1> QED BY <1>1, <1>2, <1>3, <1>4, <1>5

\* A birth makes its object alive.
LEMMA BirthAlive ==
  ASSUME RecordInv, Replaying, InTrace, NextOp.birth, UNCHANGED traceVars,
         birthIndex' = birthIndex + 1, deathIndex' = deathIndex,
         NEW b, b = birthIndex + 1, NEW c, c = NextOp.class
  PROVE  /\ New(b) \in Objects(c) /\ b \in 1 .. births
         /\ \A d \in Classes : \A o : o \in Alive(d) => o \in Objects(d) /\ (o.born => o.index # b)
         /\ \A d \in Classes : \A o : o \in Alive(d)' <=> o \in Alive(d) \/ (d = c /\ o = New(b))
<1>1. PICK n : n = Position
  OBVIOUS
<1>2. /\ n \in Nat /\ n + 1 \in 1 .. Len(trace) /\ NextOp = trace[n + 1] /\ c \in Classes
      /\ BirthsTo(n) = birthIndex /\ n + 1 \in Births /\ n + 1 \notin Deaths /\ BirthsTo(n + 1) = b
  BY <1>1, NextPosition
<1>3. /\ birthIndex \in Nat /\ deathIndex \in Nat /\ Len(trace) \in Nat
      /\ Deaths \in SUBSET (Nat \ {0}) /\ Births \in SUBSET (Nat \ {0})
  BY Positions DEF RecordInv, ScalarTypes
<1>4. New(b) \in Objects(c) /\ New(b).born /\ New(b).index = b
  BY <1>2, ObjectsIff DEF New
<1>5. b \in 1 .. births
  BY <1>2, <1>4, ObjectFacts
<1>6. Position' = n + 1
  BY <1>1, <1>3 DEF Position
<1>7. /\ Deaths' = Deaths /\ trace' = trace
      /\ \A k : Victim(k)' = Victim(k)
      /\ \A d : Objects(d)' = Objects(d)
  BY SameTrace DEF traceVars
<1>8. ASSUME NEW d, NEW o
      PROVE  o \in Alive(d)' <=>
               /\ o \in Objects(d) /\ (o.born => o.index <= b)
               /\ \A k \in Deaths : trace[k].class = d /\ Victim(k) = o => k > n + 1
  <2>1. o \in Alive(d)' <=>
          /\ o \in Objects(d)' /\ (o.born => o.index <= birthIndex')
          /\ \A k \in Deaths' : trace'[k].class = d /\ Victim(k)' = o => k > Position'
    BY DEF Alive
  <2> QED BY <1>6, <1>7, <2>1
<1>9. \A k \in Deaths : k > n + 1 <=> k > n
  BY <1>2, <1>3
<1>10. ASSUME NEW d \in Classes, NEW o \in Alive(d)
       PROVE  o \in Objects(d) /\ o \in Alive(d)' /\ (o.born => o.index # b)
  <2>1. /\ o \in Objects(d) /\ (o.born => o.index <= birthIndex)
        /\ \A k \in Deaths : trace[k].class = d /\ Victim(k) = o => k > n
    BY <1>1, AliveIff
  <2>2. o.born => o.index \in Nat
    BY <2>1, ObjectFacts DEF ObjectIndex
  <2>3. o.born => o.index <= b /\ o.index # b
    BY <1>3, <2>1, <2>2
  <2> QED BY <1>8, <1>9, <2>1, <2>3
<1>11. New(b) \in Alive(c)'
  <2>1. ASSUME NEW k \in Deaths, trace[k].class = c, Victim(k) = New(b) PROVE k > n + 1
    <3>1. k \in Nat /\ b <= BirthsTo(k)
      <4>1. Victim(k).born => Victim(k).index <= BirthsTo(k)
        BY <1>2, <2>1, DeathFactsOf
      <4> QED BY <1>3, <1>4, <2>1, <4>1
    <3>2. k <= n => BirthsTo(k) <= BirthsTo(n) /\ BirthsTo(k) \in Nat
      <4>1. \A j \in 0 .. n : Count(Births, j) <= Count(Births, n)
        BY <1>2, <1>3, CountFacts
      <4>2. Count(Births, k) \in Nat
        BY <1>3, <3>1, CountFacts
      <4> QED BY <1>2, <3>1, <4>1, <4>2 DEF BirthsTo
    <3>3. ~(k <= n)
      BY <1>2, <1>3, <3>1, <3>2
    <3> QED BY <1>2, <1>9, <2>1, <3>1, <3>3
  <2>2. b <= b
    BY <1>3
  <2> QED BY <1>4, <1>8, <2>1, <2>2
<1>12. ASSUME NEW d \in Classes, NEW o \in Alive(d)', ~(d = c /\ o = New(b)) PROVE o \in Alive(d)
  <2>1. /\ o \in Objects(d) /\ (o.born => o.index <= b)
        /\ \A k \in Deaths : trace[k].class = d /\ Victim(k) = o => k > n
    BY <1>8, <1>9
  <2>2. o.born => o.index \in Nat /\ o.index # b
    <3>1. o.born => o.index \in Nat
      BY <2>1, ObjectFacts DEF ObjectIndex
    <3>2. o.born /\ o.index = b => d = c /\ o = New(b)
      BY <1>2, <1>4, <2>1, BornOnce
    <3> QED BY <1>12, <3>1, <3>2
  <2>3. o.born => o.index <= birthIndex
    BY <1>3, <2>1, <2>2
  <2> QED BY <1>1, <2>1, <2>3, AliveIff
<1> QED BY <1>4, <1>5, <1>10, <1>11, <1>12

LEMMA ReplayBirthStep ==
  ASSUME RecordInv, VectorTypes, Replaying, ReplayBirth
  PROVE  VectorTypes' /\ Replaying'
<1>1. /\ InTrace /\ NextOp.birth
      /\ UNCHANGED <<total, objs, before>> /\ UNCHANGED traceVars /\ UNCHANGED updateVars
      /\ UNCHANGED <<objUpdate, birthUpdate, deathUpdate, birthPlaces>>
      /\ UNCHANGED <<snapshot, indices, trace, deathIndices, births>>
      /\ birthIndex' = birthIndex + 1 /\ deathIndex' = deathIndex
  BY DEF ReplayBirth, traceVars, updateVars
<1>2. PICK n : n = Position
  OBVIOUS
<1>3. PICK b \in Nat, c \in Classes : b = birthIndex + 1 /\ c = NextOp.class
  BY <1>1, <1>2, NextPosition DEF RecordInv, ScalarTypes
<1>4. /\ n \in Nat /\ n + 1 \in 1 .. Len(trace) /\ c \in Classes
      /\ BirthsTo(n + 1) = b /\ DeathsTo(n + 1) = deathIndex
  BY <1>1, <1>2, <1>3, NextPosition
<1>5. PICK p \in Addresses :
        /\ heap[p] = 0 /\ heap' = [heap EXCEPT ![p] = c] /\ allocs' = allocs + 1
        /\ LET place == birthPlaces[b]
           IN \/ /\ place.vector = "death"
                 /\ deathObjects' = [deathObjects EXCEPT ![place.index] = p]
                 /\ UNCHANGED birthObjects
              \/ /\ place.vector = "birth"
                 /\ birthObjects' = [birthObjects EXCEPT ![place.index] = p]
                 /\ UNCHANGED deathObjects
  BY <1>3 DEF ReplayBirth, Alloc
<1>6. /\ New(b) \in Objects(c) /\ b \in 1 .. births /\ New(b).born /\ New(b).index = b
      /\ \A d \in Classes : \A o : o \in Alive(d) => o \in Objects(d) /\ (o.born => o.index # b)
      /\ \A d \in Classes : \A o : o \in Alive(d)' <=> o \in Alive(d) \/ (d = c /\ o = New(b))
  <2>1. New(b).born /\ New(b).index = b
    BY DEF New
  <2> QED BY <1>1, <1>3, <2>1, BirthAlive
<1>7. /\ heap \in [Addresses -> Classes \cup {0}] /\ allocs \in Nat /\ total \in Nat
      /\ birthIndex \in Nat /\ deathIndex \in Nat /\ 0 \notin Classes /\ p \in Pointer
      /\ birthObjects \in Seq(Pointer) /\ deathObjects \in Seq(Pointer) /\ births \in Nat
      /\ Len(birthObjects) = births /\ Len(deathObjects) = Len(deathIndices)
      /\ VectorsBuilt /\ AllLookedUp /\ AliveAllocated
  <2>1. /\ heap \in [Addresses -> Classes \cup {0}] /\ allocs \in Nat /\ total \in Nat
        /\ birthIndex \in Nat /\ deathIndex \in Nat /\ births \in Nat
    BY DEF RecordInv, ScalarTypes, IndInv, ListTypes
  <2>2. birthObjects \in Seq(Pointer) /\ deathObjects \in Seq(Pointer)
    BY DEF VectorTypes
  <2>3. VectorsBuilt /\ AllLookedUp /\ AliveAllocated
    BY DEF Replaying
  <2>4. Len(birthObjects) = births /\ Len(deathObjects) = Len(deathIndices)
    BY <2>3 DEF VectorsBuilt, Sizes
  <2>5. 0 \notin Classes /\ p \in Pointer
    BY <1>5 DEF Classes, Pointer
  <2> QED BY <2>1, <2>2, <2>3, <2>4, <2>5
<1>8. /\ Deaths' = Deaths /\ Births' = Births
      /\ \A k : DeathsTo(k)' = DeathsTo(k) /\ Victim(k)' = Victim(k)
      /\ \A d : Objects(d)' = Objects(d)
  BY <1>1, SameTrace
<1> DEFINE Stored ==
             /\ birthObjects' \in Seq(Pointer) /\ Len(birthObjects') = Len(birthObjects)
             /\ deathObjects' \in Seq(Pointer) /\ Len(deathObjects') = Len(deathObjects)
             /\ AddressOf(c, New(b))' = p
             /\ \A d \in Classes : \A o \in Alive(d) : AddressOf(d, o)' = AddressOf(d, o)
             /\ \A k \in Deaths :
                  ~Victim(k).born => deathObjects'[DeathsTo(k)] = deathObjects[DeathsTo(k)]
<1>9. ASSUME NEW d \in Classes, NEW o \in Alive(d), o.born
      PROVE  /\ o.index \in 1 .. births /\ o.index # b /\ o.index \in Nat
             /\ \/ birthPlaces[o.index] = [vector |-> "birth", index |-> o.index]
                \/ \E k \in Deaths :
                     /\ trace[k].class = d /\ Victim(k) = o
                     /\ birthPlaces[o.index] = [vector |-> "death", index |-> DeathsTo(k)]
  <2>1. o \in Objects(d) /\ o.index # b
    BY <1>6, <1>9
  <2> QED BY <1>7, <1>9, <2>1, ObjectFacts, PlaceFacts DEF ObjectIndex
<1>10. \A d, o : AddressOf(d, o)' =
         IF ~o.born THEN before[d][o.index]
         ELSE IF birthPlaces[o.index].vector = "death" THEN deathObjects'[birthPlaces[o.index].index]
         ELSE birthObjects'[o.index]
  BY <1>1 DEF AddressOf
<1>11. ASSUME birthPlaces[b] = [vector |-> "birth", index |-> b] PROVE Stored
  <2>1. birthObjects' = [birthObjects EXCEPT ![b] = p] /\ deathObjects' = deathObjects
    BY <1>5, <1>11
  <2>2. /\ birthObjects' \in Seq(Pointer) /\ Len(birthObjects') = Len(birthObjects)
        /\ \A j \in 1 .. Len(birthObjects) : birthObjects'[j] = IF j = b THEN p ELSE birthObjects[j]
    <3>1. birthObjects \in Seq(Pointer) /\ p \in Pointer /\ b \in 1 .. Len(birthObjects)
      BY <1>6, <1>7
    <3>2. birthObjects' = [birthObjects EXCEPT ![b] = p]
      BY <2>1
    <3> QED BY <3>1, <3>2, Assign
  <2>3. AddressOf(c, New(b))' = p
    BY <1>6, <1>7, <1>10, <1>11, <2>2
  <2>4. ASSUME NEW d \in Classes, NEW o \in Alive(d) PROVE AddressOf(d, o)' = AddressOf(d, o)
    <3>1. CASE ~o.born
      BY <1>10, <3>1 DEF AddressOf
    <3>2. CASE o.born
      <4>1. birthObjects'[o.index] = birthObjects[o.index]
        BY <1>7, <1>9, <2>2, <3>2
      <4> QED BY <1>10, <2>1, <3>2, <4>1 DEF AddressOf
    <3> QED BY <3>1, <3>2
  <2> QED BY <1>7, <2>1, <2>2, <2>3, <2>4
<1>12. ASSUME NEW k \in Deaths, trace[k].class = c, Victim(k) = New(b),
              birthPlaces[b] = [vector |-> "death", index |-> DeathsTo(k)]
       PROVE  Stored
  <2>0. PICK e \in Nat : e = DeathsTo(k) /\ e \in 1 .. Len(deathObjects)
    BY <1>4, <1>7, <1>12, DeathFactsOf, LenProperties
  <2>1. deathObjects' = [deathObjects EXCEPT ![e] = p] /\ birthObjects' = birthObjects
    BY <1>5, <1>12, <2>0
  <2>2. /\ deathObjects' \in Seq(Pointer) /\ Len(deathObjects') = Len(deathObjects)
        /\ \A j \in 1 .. Len(deathObjects) : deathObjects'[j] = IF j = e THEN p ELSE deathObjects[j]
    BY <1>7, <2>0, <2>1, Assign
  <2>3. AddressOf(c, New(b))' = p
    BY <1>6, <1>10, <1>12, <2>0, <2>2
  <2>4. ASSUME NEW l \in Deaths, Victim(l) # New(b)
        PROVE  deathObjects'[DeathsTo(l)] = deathObjects[DeathsTo(l)]
    <3>1. DeathsTo(l) # e
      BY <1>12, <2>0, <2>4, DeathsApart
    <3>2. DeathsTo(l) \in 1 .. Len(deathObjects)
      BY <1>7, Positions DEF RecordInv, Recorded, Counted
    <3> QED BY <2>2, <3>1, <3>2
  <2>5. ASSUME NEW d \in Classes, NEW o \in Alive(d) PROVE AddressOf(d, o)' = AddressOf(d, o)
    <3>1. CASE ~o.born
      BY <1>10, <3>1 DEF AddressOf
    <3>2. CASE o.born /\ birthPlaces[o.index] = [vector |-> "birth", index |-> o.index]
      BY <1>10, <2>1, <3>2 DEF AddressOf
    <3>3. ASSUME o.born, NEW l \in Deaths, Victim(l) = o,
                 birthPlaces[o.index] = [vector |-> "death", index |-> DeathsTo(l)]
          PROVE  AddressOf(d, o)' = AddressOf(d, o)
      <4>1. Victim(l) # New(b)
        BY <1>6, <1>9, <3>3
      <4>2. deathObjects'[DeathsTo(l)] = deathObjects[DeathsTo(l)]
        BY <2>4, <4>1
      <4> QED BY <1>10, <3>3, <4>2 DEF AddressOf
    <3> QED BY <1>9, <3>1, <3>2, <3>3
  <2>6. \A l \in Deaths : ~Victim(l).born => deathObjects'[DeathsTo(l)] = deathObjects[DeathsTo(l)]
    BY <1>6, <2>4
  <2> QED BY <1>7, <2>1, <2>2, <2>3, <2>5, <2>6
<1>13. Stored
  <2> HIDE DEF Stored
  <2>1. \/ birthPlaces[New(b).index] = [vector |-> "birth", index |-> New(b).index]
        \/ \E k \in Deaths :
             /\ trace[k].class = c /\ Victim(k) = New(b)
             /\ birthPlaces[New(b).index] = [vector |-> "death", index |-> DeathsTo(k)]
    BY <1>6, <1>7, PlaceFacts
  <2> QED BY <1>6, <1>11, <1>12, <2>1
<1>14. VectorTypes' /\ VectorsBuilt' /\ Lengths'
  BY <1>1, <1>7, <1>13, SameBuilt DEF VectorTypes, Replaying, Lengths
<1>15. AllLookedUp'
  BY <1>1, <1>7, <1>8, <1>13 DEF AllLookedUp, LookedUp
<1>16. /\ \A d \in Classes : \A o \in Alive(d) : AddressOf(d, o) \in Addresses /\ AddressOf(d, o) # p
       /\ \A d, e \in Classes : \A o \in Alive(d), q \in Alive(e) :
            AddressOf(d, o) = AddressOf(e, q) => d = e /\ o = q
       /\ \A d \in Classes, a \in Addresses :
            heap[a] = d <=> \E o \in Alive(d) : AddressOf(d, o) = a
  BY <1>5, <1>7 DEF AliveAllocated
<1>17. \A d \in Classes : \A o \in Alive(d)' :
         \/ d = c /\ o = New(b) /\ AddressOf(d, o)' = p
         \/ o \in Alive(d) /\ AddressOf(d, o)' = AddressOf(d, o)
  BY <1>6, <1>13
<1>18. AliveAllocated'
  <2>1. \A d \in Classes : \A o \in Alive(d)' : AddressOf(d, o)' \in Addresses
    BY <1>16, <1>17
  <2>2. ASSUME NEW d \in Classes, NEW e \in Classes, NEW o \in Alive(d)', NEW q \in Alive(e)',
               AddressOf(d, o)' = AddressOf(e, q)'
        PROVE  d = e /\ o = q
    BY <1>16, <1>17, <2>2
  <2>3. ASSUME NEW d \in Classes, NEW a \in Addresses
        PROVE  heap'[a] = d <=> \E o \in Alive(d)' : AddressOf(d, o)' = a
    <3>1. CASE a = p
      <4>1. heap'[a] = c
        BY <1>5, <1>7, <3>1
      <4>2. New(b) \in Alive(c)' /\ AddressOf(c, New(b))' = p
        BY <1>4, <1>6, <1>13
      <4> QED BY <1>16, <1>17, <3>1, <4>1, <4>2
    <3>2. CASE a # p
      <4>1. heap'[a] = heap[a]
        BY <1>5, <1>7, <3>2
      <4>2. (\E o \in Alive(d)' : AddressOf(d, o)' = a) <=> \E o \in Alive(d) : AddressOf(d, o) = a
        BY <1>6, <1>13, <1>17, <3>2
      <4> QED BY <1>16, <4>1, <4>2
    <3> QED BY <3>1, <3>2
  <2> QED BY <2>1, <2>2, <2>3 DEF AliveAllocated
<1>19. Position' = n + 1 /\ Len(trace) \in Nat
  BY <1>1, <1>2, <1>7, Positions DEF Position, RecordInv
<1>20. birthIndex' = Count(Births', Position') /\ deathIndex' = Count(Deaths', Position')
  BY <1>1, <1>3, <1>4, <1>8, <1>19 DEF BirthsTo, DeathsTo
<1>21. allocs' = total' + birthIndex' /\ before' = objs' /\ Position' <= Len(trace')
  <2>1. allocs = total + birthIndex /\ before = objs
    BY DEF Replaying
  <2>2. allocs' = total' + birthIndex'
    BY <1>1, <1>5, <1>7, <2>1
  <2> QED BY <1>1, <1>4, <1>19, <2>1, <2>2
<1> HIDE DEF Stored
<1> QED BY <1>14, <1>15, <1>18, <1>20, <1>21 DEF Replaying

\* The object that the next death frees is alive, and death_objects_ has it.
LEMMA DeathFindsObject ==
  ASSUME RecordInv, Replaying, InTrace, ~NextOp.birth,
         NEW n, n = Position, NEW c, c = NextOp.class
  PROVE  /\ Victim(n + 1) \in Alive(c)
         /\ AddressOf(c, Victim(n + 1)) = deathObjects[deathIndex + 1]
         /\ deathObjects[deathIndex + 1] \in Addresses
         /\ heap[deathObjects[deathIndex + 1]] = c
<1>1. /\ n \in Nat /\ n + 1 \in Deaths /\ c \in Classes /\ trace[n + 1].class = c
      /\ BirthsTo(n + 1) = birthIndex /\ DeathsTo(n + 1) = deathIndex + 1
  BY NextPosition
<1>2. PICK v : v = Victim(n + 1)
  OBVIOUS
<1>3. /\ v \in Objects(c) /\ v.born \in BOOLEAN
      /\ v.born => v.index <= birthIndex
  <2>1. /\ Victim(n + 1) \in Objects(c) /\ Victim(n + 1) \in ObjectIndex
        /\ Victim(n + 1).born => Victim(n + 1).index <= BirthsTo(n + 1)
    BY <1>1, DeathFactsOf
  <2> QED BY <1>1, <1>2, <2>1 DEF ObjectIndex
<1>4. \A k \in Deaths : trace[k].class = c /\ Victim(k) = v => k = n + 1
  BY <1>1, <1>2 DEF RecordInv, Recorded, NoneTwice
<1>5. v \in Alive(c)
  <2>1. n + 1 > Position
    BY <1>1
  <2> QED BY <1>3, <1>4, <2>1, AliveIff
<1>6. AddressOf(c, v) = deathObjects[deathIndex + 1]
  <2>1. CASE ~v.born
    <3>1. LookedUp(c, n + 1) /\ before = objs
      BY <1>1 DEF Replaying, AllLookedUp
    <3> QED BY <1>1, <1>2, <2>1, <3>1 DEF LookedUp, AddressOf
  <2>2. CASE v.born
    <3>1. DeathBuilt(c, n + 1)
      BY <1>1 DEF Replaying, VectorsBuilt
    <3>2. birthPlaces[v.index] = [vector |-> "death", index |-> deathIndex + 1]
      BY <1>1, <1>2, <2>2, <3>1 DEF DeathBuilt
    <3> QED BY <2>2, <3>2 DEF AddressOf
  <2> QED BY <1>3, <2>1, <2>2
<1>7. AddressOf(c, v) \in Addresses /\ heap[AddressOf(c, v)] = c
  BY <1>1, <1>5 DEF Replaying, AliveAllocated
<1> QED BY <1>2, <1>5, <1>6, <1>7

LEMMA ReplayDeathStep ==
  ASSUME RecordInv, VectorTypes, Replaying, ReplayDeath
  PROVE  VectorTypes' /\ Replaying'
<1>1. /\ InTrace /\ ~NextOp.birth
      /\ UNCHANGED <<total, allocs, objs, before>> /\ UNCHANGED traceVars /\ UNCHANGED updateVars
      /\ UNCHANGED <<objUpdate, birthUpdate, deathUpdate, birthPlaces, birthObjects, deathObjects>>
      /\ UNCHANGED <<snapshot, indices, trace, deathIndices, births>>
      /\ birthIndex' = birthIndex /\ deathIndex' = deathIndex + 1
      /\ heap' = [heap EXCEPT ![deathObjects[deathIndex + 1]] = 0]
  BY DEF ReplayDeath, traceVars, updateVars, Dealloc
<1>2. PICK n : n = Position
  OBVIOUS
<1>3. PICK c : c = NextOp.class
  OBVIOUS
<1>4. /\ n \in Nat /\ n + 1 \in 1 .. Len(trace) /\ n + 1 \in Deaths /\ c \in Classes
      /\ trace[n + 1].class = c
      /\ BirthsTo(n + 1) = birthIndex /\ DeathsTo(n + 1) = deathIndex + 1
  BY <1>1, <1>2, <1>3, NextPosition
<1>5. PICK v, p : v = Victim(n + 1) /\ p = deathObjects[deathIndex + 1]
  OBVIOUS
<1>6. v \in Alive(c) /\ AddressOf(c, v) = p /\ p \in Addresses /\ heap[p] = c
  BY <1>1, <1>2, <1>3, <1>5, DeathFindsObject
<1>7. /\ Deaths' = Deaths /\ Births' = Births
      /\ \A k : DeathsTo(k)' = DeathsTo(k) /\ Victim(k)' = Victim(k)
      /\ \A d : Objects(d)' = Objects(d)
  BY <1>1, SameTrace
<1>8. /\ heap \in [Addresses -> Classes \cup {0}] /\ 0 \notin Classes
      /\ birthIndex \in Nat /\ deathIndex \in Nat /\ Len(trace) \in Nat /\ Deaths \in SUBSET (Nat \ {0})
  BY Positions DEF RecordInv, ScalarTypes, Classes
<1>9. Position' = n + 1
  BY <1>1, <1>2, <1>8 DEF Position
<1>10. ASSUME NEW d \in Classes, NEW o
       PROVE  o \in Alive(d)' <=> o \in Alive(d) /\ ~(d = c /\ o = v)
  <2>1. o \in Alive(d)' <=>
          /\ o \in Objects(d)' /\ (o.born => o.index <= birthIndex')
          /\ \A k \in Deaths' : trace'[k].class = d /\ Victim(k)' = o => k > Position'
    BY DEF Alive
  <2>2. o \in Alive(d)' <=>
          /\ o \in Objects(d) /\ (o.born => o.index <= birthIndex)
          /\ \A k \in Deaths : trace[k].class = d /\ Victim(k) = o => k > n + 1
    BY <1>1, <1>7, <1>9, <2>1
  <2>3. (\A k \in Deaths : trace[k].class = d /\ Victim(k) = o => k > n + 1) <=>
          /\ \A k \in Deaths : trace[k].class = d /\ Victim(k) = o => k > n
          /\ ~(d = c /\ o = v)
    <3>1. \A k \in Deaths : k > n + 1 <=> k > n /\ k # n + 1
      BY <1>4, <1>8
    <3>2. \A k \in Deaths : trace[k].class = c /\ Victim(k) = v => k = n + 1
      BY <1>4, <1>5 DEF RecordInv, Recorded, NoneTwice
    <3> QED BY <1>4, <1>5, <3>1, <3>2
  <2>4. o \in Alive(d) <=>
          /\ o \in Objects(d) /\ (o.born => o.index <= birthIndex)
          /\ \A k \in Deaths : trace[k].class = d /\ Victim(k) = o => k > n
    BY <1>2, AliveIff
  <2> QED BY <2>2, <2>3, <2>4
<1>11. \A d, o : AddressOf(d, o)' = AddressOf(d, o)
  BY <1>1 DEF AddressOf
<1>12. AliveAllocated'
  <2>1. /\ \A d \in Classes : \A o \in Alive(d) : AddressOf(d, o) \in Addresses
        /\ \A d, e \in Classes : \A o \in Alive(d), q \in Alive(e) :
             AddressOf(d, o) = AddressOf(e, q) => d = e /\ o = q
        /\ \A d \in Classes, a \in Addresses :
             heap[a] = d <=> \E o \in Alive(d) : AddressOf(d, o) = a
    BY DEF Replaying, AliveAllocated
  <2>2. ASSUME NEW d \in Classes, NEW a \in Addresses
        PROVE  heap'[a] = d <=> \E o \in Alive(d)' : AddressOf(d, o)' = a
    <3>1. CASE a = p
      <4>1. heap'[a] # d
        BY <1>1, <1>5, <1>6, <1>8, <3>1
      <4>2. \A o \in Alive(d)' : AddressOf(d, o)' # a
        BY <1>4, <1>6, <1>10, <1>11, <2>1, <3>1
      <4> QED BY <4>1, <4>2
    <3>2. CASE a # p
      <4>1. heap'[a] = heap[a]
        BY <1>1, <1>5, <1>8, <3>2
      <4>2. (\E o \in Alive(d)' : AddressOf(d, o)' = a) <=> \E o \in Alive(d) : AddressOf(d, o) = a
        BY <1>6, <1>10, <1>11, <3>2
      <4> QED BY <2>1, <4>1, <4>2
    <3> QED BY <3>1, <3>2
  <2>3. \A d \in Classes : \A o \in Alive(d)' : AddressOf(d, o)' \in Addresses
    BY <1>10, <1>11, <2>1
  <2>4. \A d, e \in Classes : \A o \in Alive(d)', q \in Alive(e)' :
          AddressOf(d, o)' = AddressOf(e, q)' => d = e /\ o = q
    BY <1>10, <1>11, <2>1
  <2> QED BY <2>2, <2>3, <2>4 DEF AliveAllocated
<1>13. VectorTypes' /\ Lengths'
  BY <1>1 DEF VectorTypes, Replaying, Lengths
<1>14. VectorsBuilt'
  BY <1>1, SameBuilt DEF Replaying
<1>15. AllLookedUp'
  BY <1>1, <1>7 DEF Replaying, AllLookedUp, LookedUp
<1>16. birthIndex' = Count(Births', Position') /\ deathIndex' = Count(Deaths', Position')
  BY <1>1, <1>4, <1>7, <1>9 DEF BirthsTo, DeathsTo
<1>17. allocs' = total' + birthIndex' /\ before' = objs' /\ Position' <= Len(trace')
  BY <1>1, <1>4, <1>8, <1>9 DEF Replaying
<1> QED BY <1>12, <1>13, <1>14, <1>15, <1>16, <1>17 DEF Replaying

\* At the end of the trace the objects alive are those the recording left in
\* slots.
LEMMA AliveAtEnd ==
  ASSUME RecordInv, Replaying, ~InTrace, NEW c \in Classes
  PROVE  /\ \A i \in 1 .. Len(indices[c]) : /\ indices[c][i] \in Alive(c)
                                            /\ AddressOf(c, indices[c][i]) = Target(c, i)
         /\ \A o \in Alive(c) : \E i \in 1 .. Len(indices[c]) : indices[c][i] = o
<1>1. /\ Position = Len(trace) /\ Len(trace) \in Nat
      /\ \A k \in Deaths : ~(k > Position)
  <2>1. Len(trace) \in Nat /\ birthIndex \in Nat /\ deathIndex \in Nat
    BY Positions DEF RecordInv, ScalarTypes
  <2>2. Position = Len(trace)
    BY <2>1 DEF Replaying, InTrace, Position
  <2>3. \A k \in Deaths : k \in 1 .. Len(trace)
    BY DEF Deaths
  <2> QED BY <2>1, <2>2, <2>3
<1>2. birthIndex = births
  BY <1>1 DEF Replaying, RecordInv, Recorded, Counted, BirthsTo
<1>3. ASSUME NEW i \in 1 .. Len(indices[c])
      PROVE  indices[c][i] \in Alive(c) /\ AddressOf(c, indices[c][i]) = Target(c, i)
  <2>1. \A k \in Deaths : trace[k].class = c => indices[c][i] # Victim(k)
    BY DEF RecordInv, Recorded, NoneTwice
  <2>2. /\ indices[c][i] \in Objects(c) /\ indices[c][i].born \in BOOLEAN
        /\ indices[c][i].born => indices[c][i].index \in 1 .. births
    BY SlotFacts DEF ObjectIndex
  <2>3. indices[c][i].born => indices[c][i].index <= birthIndex
    BY <1>2, <2>2 DEF RecordInv, IndInv, ListTypes
  <2>4. indices[c][i] \in Alive(c)
    BY <2>1, <2>2, <2>3, AliveIff
  <2>5. SlotBuilt(c, i)
    BY DEF Replaying, VectorsBuilt
  <2>6. AddressOf(c, indices[c][i]) = Target(c, i)
    BY <2>2, <2>5 DEF AddressOf, Target, SlotBuilt
  <2> QED BY <2>4, <2>6
<1>4. ASSUME NEW o \in Alive(c) PROVE \E i \in 1 .. Len(indices[c]) : indices[c][i] = o
  <2>1. o \in Objects(c) /\ \A k \in Deaths : ~(trace[k].class = c /\ Victim(k) = o)
    BY <1>1, AliveIff
  <2> QED BY <2>1 DEF RecordInv, Recorded, NoneForgotten
<1> QED BY <1>3, <1>4

LEMMA EndReplayStep ==
  ASSUME RecordInv, VectorTypes, Replaying, EndReplay
  PROVE  VectorTypes' /\ Preparing'
<1>1. /\ ~InTrace
      /\ UNCHANGED <<heap, allocs, objs, before>> /\ UNCHANGED traceVars /\ UNCHANGED updateVars
      /\ UNCHANGED <<objUpdate, birthUpdate, deathUpdate, birthPlaces, birthObjects, deathObjects>>
      /\ UNCHANGED <<snapshot, indices, trace, deathIndices, births>>
      /\ total' = total + births /\ class' = 1 /\ loop' = 1 /\ at' = 1
  BY DEF EndReplay, traceVars, updateVars, heapVars, replayVars
<1>2. VectorTypes' /\ Lengths'
  BY <1>1 DEF VectorTypes, Replaying, Lengths
<1>3. VectorsBuilt'
  BY <1>1, SameBuilt DEF Replaying
<1>4. allocs' = total'
  <2>1. birthIndex = births
    <3>1. Position = Len(trace)
      BY <1>1, Positions DEF Replaying, InTrace, Position, RecordInv, ScalarTypes
    <3> QED BY <3>1 DEF Replaying, RecordInv, Recorded, Counted, BirthsTo
  <2> QED BY <1>1, <2>1 DEF Replaying
<1>5. Targets' = Targets
  BY <1>1 DEF Targets, Target
<1>6. ASSUME NEW c \in Classes
      PROVE  /\ Len(indices[c]) \in Nat /\ Len(Targets[c]) = Len(indices[c])
             /\ \A i \in 1 .. Len(indices[c]) : /\ indices[c][i] \in Alive(c)
                                                /\ AddressOf(c, indices[c][i]) = Targets[c][i]
             /\ \A o \in Alive(c) : \E i \in 1 .. Len(indices[c]) : indices[c][i] = o
             /\ \A i, j \in 1 .. Len(indices[c]) : indices[c][i] = indices[c][j] => i = j
  <2>1. Len(indices[c]) \in Nat
    BY LenProperties DEF RecordInv, IndInv, ListTypes
  <2>2. Targets[c] = [i \in 1 .. Len(indices[c]) |-> Target(c, i)]
    BY DEF Targets
  <2>3. Len(Targets[c]) = Len(indices[c]) /\ \A i \in 1 .. Len(indices[c]) : Targets[c][i] = Target(c, i)
    <3>1. PICK m \in Nat : m = Len(indices[c])
      BY <2>1
    <3>2. PICK w : w = [i \in 1 .. m |-> Target(c, i)]
      OBVIOUS
    <3>3. w \in [1 .. m -> {Target(c, i) : i \in 1 .. m}]
      BY <3>2
    <3>4. Len(w) = m
      BY <3>3, FunctionIsSeq
    <3> QED BY <2>2, <3>1, <3>2, <3>4
  <2>4. \A i, j \in 1 .. Len(indices[c]) : indices[c][i] = indices[c][j] => i = j
    BY DEF RecordInv, Recorded, NoneTwice
  <2> QED BY <1>1, <2>1, <2>3, <2>4, AliveAtEnd
<1>7. Owned(heap, Targets)
  <2>1. /\ \A d \in Classes : \A o \in Alive(d) : AddressOf(d, o) \in Addresses
        /\ \A d, e \in Classes : \A o \in Alive(d), q \in Alive(e) :
             AddressOf(d, o) = AddressOf(e, q) => d = e /\ o = q
        /\ \A d \in Classes, a \in Addresses :
             heap[a] = d <=> \E o \in Alive(d) : AddressOf(d, o) = a
    BY DEF Replaying, AliveAllocated
  <2> HIDE DEF Targets
  <2>2. \A c \in Classes : \A i \in 1 .. Len(Targets[c]) : Targets[c][i] \in Addresses
    BY <1>6, <2>1
  <2>3. ASSUME NEW c \in Classes, NEW d \in Classes, NEW i \in 1 .. Len(Targets[c]),
               NEW j \in 1 .. Len(Targets[d]), Targets[c][i] = Targets[d][j]
        PROVE  c = d /\ i = j
    <3>1. c = d /\ indices[c][i] = indices[d][j]
      BY <1>6, <2>1, <2>3
    <3> QED BY <1>6, <3>1
  <2>4. ASSUME NEW c \in Classes, NEW p \in Addresses
        PROVE  heap[p] = c <=> \E i \in 1 .. Len(Targets[c]) : Targets[c][i] = p
    <3>1. heap[p] = c <=> \E o \in Alive(c) : AddressOf(c, o) = p
      BY <2>1
    <3>2. (\E o \in Alive(c) : AddressOf(c, o) = p) <=>
            \E i \in 1 .. Len(Targets[c]) : Targets[c][i] = p
      BY <1>6
    <3> QED BY <3>1, <3>2
  <2> QED BY <2>2, <2>3, <2>4 DEF Owned
<1>8. Owned(heap, Targets)'
  <2>1. heap' = heap
    BY <1>1
  <2> QED BY <1>5, <1>7, <2>1 DEF Owned
<1>9. before' = objs' /\ \A c \in Classes : Len(before'[c]) = Len(indices'[c])
  BY <1>1 DEF Replaying, Lengths
<1>10. \A c \in Classes : ~(c < class')
  BY <1>1, EmpiricalAssumption DEF Classes
<1>11. ClassInPreparation'
  <2>1. /\ \A n \in 1 .. Len(objUpdate'[1]) : ~(n < 1)
    <3>1. 1 \in Classes
      BY EmpiricalAssumption DEF Classes
    <3>2. Len(objUpdate'[1]) \in Nat
      BY <1>2, <3>1, LenProperties DEF VectorTypes
    <3> QED BY <3>2
  <2> QED BY <1>1, <1>9, <2>1 DEF ClassInPreparation
<1> QED BY <1>2, <1>3, <1>4, <1>8, <1>9, <1>10, <1>11 DEF Preparing

-----------------------------------------------------------------------------
(***************************************************************************)
(* PrepareNextReplay.                                                      *)
(***************************************************************************)
LEMMA OwnedSame ==
  ASSUME NEW h, NEW f, NEW g, Owned(h, f),
         \A c \in Classes : Len(g[c]) = Len(f[c]) /\ \A i \in 1 .. Len(f[c]) : g[c][i] = f[c][i]
  PROVE  Owned(h, g)
<1>1. \A c \in Classes : \A i \in 1 .. Len(g[c]) : i \in 1 .. Len(f[c]) /\ g[c][i] = f[c][i]
  OBVIOUS
<1>2. \A c \in Classes : \A i \in 1 .. Len(g[c]) : g[c][i] \in Addresses
  BY <1>1 DEF Owned
<1>3. \A c, d \in Classes : \A i \in 1 .. Len(g[c]), j \in 1 .. Len(g[d]) :
        g[c][i] = g[d][j] => c = d /\ i = j
  BY <1>1 DEF Owned
<1>4. ASSUME NEW c \in Classes, NEW p \in Addresses
      PROVE  h[p] = c <=> \E i \in 1 .. Len(g[c]) : g[c][i] = p
  <2>1. h[p] = c <=> \E i \in 1 .. Len(f[c]) : f[c][i] = p
    BY DEF Owned
  <2> QED BY <2>1
<1> QED BY <1>2, <1>3, <1>4 DEF Owned

LEMMA SameTargets ==
  ASSUME UNCHANGED traceVars, UNCHANGED <<birthObjects, before>>
  PROVE  Targets' = Targets /\ \A c, i : Target(c, i)' = Target(c, i)
BY DEF traceVars, Targets, Target

\* What obj_update reads was not written before: the slot holds an object born
\* in the recording, for every object of the snapshot that is left is below it.
LEMMA ObjMove ==
  ASSUME RecordInv, VectorTypes, Preparing, phase = "prepare",
         NEW c \in Classes, NEW n \in 1 .. Len(objUpdate[c]), NEW u, u = objUpdate[c][n]
  PROVE  /\ u.to \in 1 .. Len(indices[c]) /\ u.from \in 1 .. Len(indices[c])
         /\ u.to \in Nat /\ u.from # u.to
         /\ ~indices[c][u.to].born /\ indices[c][u.to].index = u.from
         /\ indices[c][u.from].born
         /\ Target(c, u.to) = before[c][u.from]
<1>1. u \in UpdatePair /\ Len(indices[c]) \in Nat
  BY ElementOfSeq, LenProperties DEF VectorTypes, RecordInv, IndInv, ListTypes
<1>2. u.to \in 1 .. Len(indices[c]) /\ indices[c][u.to] = Old(u.from) /\ u.from # u.to
  BY DEF Preparing, VectorsBuilt, ObjUpdatesSound
<1>3. ~indices[c][u.to].born /\ indices[c][u.to].index = u.from
  BY <1>2 DEF Old
<1>4. u.from \in 1 .. Len(indices[c])
  <2>1. indices[c][u.to].index \in 1 .. Len(snapshot[c])
    BY <1>2, <1>3, SlotFacts
  <2> QED BY <1>3, <2>1 DEF RecordInv, Repaired
<1>5. indices[c][u.from].born
  <2>1. \A j \in 1 .. Len(indices[c]) : ~indices[c][j].born => j < u.from
    BY <1>2, <1>3 DEF RecordInv, IndInv, ObjectsMoveDown
  <2> QED BY <1>1, <1>4, <2>1
<1> QED BY <1>1, <1>2, <1>3, <1>4, <1>5 DEF Target

LEMMA BirthMove ==
  ASSUME RecordInv, VectorTypes, Preparing,
         NEW c \in Classes, NEW n \in 1 .. Len(birthUpdate[c]), NEW u, u = birthUpdate[c][n]
  PROVE  /\ u.to \in 1 .. Len(indices[c]) /\ u.from \in 1 .. Len(birthObjects) /\ u.to \in Nat
         /\ indices[c][u.to].born
         /\ Target(c, u.to) = birthObjects[u.from]
<1>1. u.to \in 1 .. Len(indices[c]) /\ indices[c][u.to] = New(u.from)
  BY DEF Preparing, VectorsBuilt, BirthUpdatesSound
<1>2. indices[c][u.to].born /\ indices[c][u.to].index = u.from
  BY <1>1 DEF New
<1>3. u.from \in 1 .. births /\ Len(indices[c]) \in Nat
  BY <1>1, <1>2, SlotFacts
<1>4. Len(birthObjects) = births
  BY DEF Preparing, VectorsBuilt, Sizes
<1> QED BY <1>1, <1>2, <1>3, <1>4 DEF Target

LEMMA PrepareObjStep ==
  ASSUME RecordInv, VectorTypes, Preparing, PrepareObj
  PROVE  VectorTypes' /\ Preparing'
<1>1. /\ phase = "prepare" /\ loop = 1 /\ at <= Len(objUpdate[class])
      /\ UNCHANGED <<heap, allocs, total, before, class, loop>>
      /\ UNCHANGED traceVars /\ UNCHANGED updateVars
      /\ UNCHANGED <<objUpdate, birthUpdate, deathUpdate, birthPlaces, birthObjects, deathObjects>>
      /\ UNCHANGED <<snapshot, indices, trace, deathIndices, births>>
      /\ at' = at + 1
  <2>1. loop = 1
    <3>1. LoopOrder[loop] = "obj" /\ loop \in 1 .. 3
      BY DEF PrepareObj, RecordInv, ScalarTypes
    <3> QED BY <3>1 DEF LoopOrder
  <2> QED BY <2>1 DEF PrepareObj, heapVars, traceVars, updateVars, replayVars
<1>2. PICK c \in Classes, a \in Nat \ {0} : c = class /\ a = at
  BY DEF RecordInv, ScalarTypes
<1>3. a \in 1 .. Len(objUpdate[c]) /\ Len(objUpdate[c]) \in Nat
  BY <1>1, <1>2, LenProperties DEF VectorTypes
<1>4. PICK u : u = objUpdate[c][a]
  OBVIOUS
<1>5. /\ u.to \in 1 .. Len(indices[c]) /\ u.from \in 1 .. Len(indices[c])
      /\ u.to \in Nat /\ u.from # u.to
      /\ ~indices[c][u.to].born /\ indices[c][u.to].index = u.from
      /\ indices[c][u.from].born /\ Target(c, u.to) = before[c][u.from]
  <2>1. phase = "prepare"
    BY <1>1
  <2> QED BY <1>3, <1>4, <2>1, ObjMove
<1>6. /\ objs \in [Classes -> Seq(Pointer)] /\ \A d \in Classes : Len(objs[d]) = Len(indices[d])
      /\ \A i \in 1 .. Len(indices[c]) :
           indices[c][i].born \/ indices[c][i].index = i => objs[c][i] = before[c][i]
      /\ \A n \in 1 .. Len(objUpdate[c]) :
           n < a => objs[c][objUpdate[c][n].to] = Target(c, objUpdate[c][n].to)
  BY <1>1, <1>2 DEF VectorTypes, Preparing, Lengths, ClassInPreparation
<1>7. PICK x \in Pointer : x = objs[c][u.from] /\ x = Target(c, u.to)
  <2>1. objs[c][u.from] \in Pointer
    BY <1>5, <1>6, ElementOfSeq
  <2> QED BY <1>5, <1>6, <2>1
<1>8. objs' = [objs EXCEPT ![c][u.to] = x]
  BY <1>2, <1>4, <1>7 DEF PrepareObj
<1>9. PICK t \in Nat : t = u.to
  BY <1>5
<1>10. /\ objs' \in [Classes -> Seq(Pointer)]
       /\ \A d \in Classes : d # c => objs'[d] = objs[d]
       /\ \A d \in Classes : Len(objs'[d]) = Len(objs[d])
       /\ \A j \in 1 .. Len(objs[c]) : objs'[c][j] = IF j = t THEN x ELSE objs[c][j]
  <2>1. objs \in [Classes -> Seq(Pointer)] /\ t \in 1 .. Len(objs[c])
    BY <1>5, <1>6, <1>9
  <2>2. PICK v, w : v = objs[c] /\ w = [v EXCEPT ![t] = x]
    OBVIOUS
  <2>3. objs' = [objs EXCEPT ![c] = w]
    BY <1>8, <1>9, <2>2
  <2> QED BY <2>1, <2>2, <2>3, AssignIn
<1>11. VectorTypes' /\ Lengths'
  BY <1>1, <1>6, <1>10 DEF VectorTypes, Lengths
<1>12. VectorsBuilt'
  BY <1>1, SameBuilt DEF Preparing
<1>13. Targets' = Targets /\ \A d, i : Target(d, i)' = Target(d, i)
  BY <1>1, SameTargets
<1>14. Owned(heap, Targets)'
  BY <1>1, <1>13 DEF Preparing, Owned
<1>15. ClassInPreparation'
  <2>1. ASSUME NEW i \in 1 .. Len(indices[c]), indices[c][i].born \/ indices[c][i].index = i
        PROVE  objs'[c][i] = before[c][i]
    <3>1. i # t
      BY <1>5, <1>9, <2>1
    <3> QED BY <1>6, <1>10, <2>1, <3>1
  <2>2. ASSUME NEW n \in 1 .. Len(objUpdate[c]), n < a + 1
        PROVE  objs'[c][objUpdate[c][n].to] = Target(c, objUpdate[c][n].to)
    <3>1. objUpdate[c][n].to \in 1 .. Len(indices[c])
      BY DEF Preparing, VectorsBuilt, ObjUpdatesSound
    <3>2. CASE objUpdate[c][n].to = t
      BY <1>6, <1>7, <1>9, <1>10, <3>1, <3>2
    <3>3. CASE objUpdate[c][n].to # t
      <4>1. n < a
        BY <1>3, <1>4, <1>9, <2>2, <3>3
      <4> QED BY <1>6, <1>10, <3>1, <3>3, <4>1
    <3> QED BY <3>2, <3>3
  <2> QED BY <1>1, <1>2, <1>13, <2>1, <2>2 DEF ClassInPreparation
<1>16. ASSUME NEW d \in Classes, d < class PROVE ClassPrepared(d)'
  <2>1. objs'[d] = objs[d]
    BY <1>2, <1>10, <1>16 DEF Classes
  <2>2. ClassPrepared(d)
    BY <1>16 DEF Preparing
  <2>3. /\ Deaths' = Deaths
        /\ \A k : DeathsTo(k)' = DeathsTo(k) /\ Victim(k)' = Victim(k)
    BY <1>1, SameTrace
  <2> QED BY <1>1, <1>13, <2>1, <2>2, <2>3 DEF ClassPrepared, LookedUp
<1>17. \A d \in Classes : d > class' => objs'[d] = before'[d]
  BY <1>1, <1>2, <1>10 DEF Preparing, Classes
<1>18. \A d \in Classes : Len(before'[d]) = Len(indices'[d])
  BY <1>1 DEF Preparing
<1>19. allocs' = total' /\ class' = class
  BY <1>1 DEF Preparing
<1> QED BY <1>11, <1>12, <1>14, <1>15, <1>16, <1>17, <1>18, <1>19 DEF Preparing

LEMMA PrepareBirthStep ==
  ASSUME RecordInv, VectorTypes, Preparing, PrepareBirth
  PROVE  VectorTypes' /\ Preparing'
<1>1. /\ phase = "prepare" /\ loop = 2 /\ at <= Len(birthUpdate[class])
      /\ UNCHANGED <<heap, allocs, total, before, class, loop>>
      /\ UNCHANGED traceVars /\ UNCHANGED updateVars
      /\ UNCHANGED <<objUpdate, birthUpdate, deathUpdate, birthPlaces, birthObjects, deathObjects>>
      /\ UNCHANGED <<snapshot, indices, trace, deathIndices, births>>
      /\ at' = at + 1
  <2>1. loop = 2
    <3>1. LoopOrder[loop] = "birth" /\ loop \in 1 .. 3
      BY DEF PrepareBirth, RecordInv, ScalarTypes
    <3> QED BY <3>1 DEF LoopOrder
  <2> QED BY <2>1 DEF PrepareBirth, heapVars, traceVars, updateVars, replayVars
<1>2. PICK c \in Classes, a \in Nat \ {0} : c = class /\ a = at
  BY DEF RecordInv, ScalarTypes
<1>3. a \in 1 .. Len(birthUpdate[c]) /\ Len(birthUpdate[c]) \in Nat
  BY <1>1, <1>2, LenProperties DEF VectorTypes
<1>4. PICK u : u = birthUpdate[c][a]
  OBVIOUS
<1>5. /\ u.to \in 1 .. Len(indices[c]) /\ u.from \in 1 .. Len(birthObjects) /\ u.to \in Nat
      /\ indices[c][u.to].born
      /\ Target(c, u.to) = birthObjects[u.from]
  BY <1>1, <1>3, <1>4, BirthMove
<1>6. /\ objs \in [Classes -> Seq(Pointer)] /\ \A d \in Classes : Len(objs[d]) = Len(indices[d])
      /\ \A i \in 1 .. Len(indices[c]) : ~indices[c][i].born => objs[c][i] = Target(c, i)
      /\ \A n \in 1 .. Len(birthUpdate[c]) :
           n < a => objs[c][birthUpdate[c][n].to] = Target(c, birthUpdate[c][n].to)
  BY <1>1, <1>2 DEF VectorTypes, Preparing, Lengths, ClassInPreparation
<1>7. PICK x \in Pointer : x = birthObjects[u.from] /\ x = Target(c, u.to)
  <2>1. birthObjects[u.from] \in Pointer
    BY <1>5, ElementOfSeq DEF VectorTypes
  <2> QED BY <1>5, <2>1
<1>8. objs' = [objs EXCEPT ![c][u.to] = x]
  BY <1>2, <1>4, <1>7 DEF PrepareBirth
<1>9. PICK t \in Nat : t = u.to
  BY <1>5
<1>10. /\ objs' \in [Classes -> Seq(Pointer)]
       /\ \A d \in Classes : d # c => objs'[d] = objs[d]
       /\ \A d \in Classes : Len(objs'[d]) = Len(objs[d])
       /\ \A j \in 1 .. Len(objs[c]) : objs'[c][j] = IF j = t THEN x ELSE objs[c][j]
  <2>1. objs \in [Classes -> Seq(Pointer)] /\ t \in 1 .. Len(objs[c])
    BY <1>5, <1>6, <1>9
  <2>2. PICK v, w : v = objs[c] /\ w = [v EXCEPT ![t] = x]
    OBVIOUS
  <2>3. objs' = [objs EXCEPT ![c] = w]
    BY <1>8, <1>9, <2>2
  <2> QED BY <2>1, <2>2, <2>3, AssignIn
<1>11. VectorTypes' /\ Lengths'
  BY <1>1, <1>6, <1>10 DEF VectorTypes, Lengths
<1>12. VectorsBuilt'
  BY <1>1, SameBuilt DEF Preparing
<1>13. Targets' = Targets /\ \A d, i : Target(d, i)' = Target(d, i)
  BY <1>1, SameTargets
<1>14. Owned(heap, Targets)'
  BY <1>1, <1>13 DEF Preparing, Owned
<1>15. ClassInPreparation'
  <2>1. ASSUME NEW i \in 1 .. Len(indices[c]), ~indices[c][i].born
        PROVE  objs'[c][i] = Target(c, i)
    <3>1. i # t
      BY <1>5, <1>9, <2>1
    <3> QED BY <1>6, <1>10, <2>1, <3>1
  <2>2. ASSUME NEW n \in 1 .. Len(birthUpdate[c]), n < a + 1
        PROVE  objs'[c][birthUpdate[c][n].to] = Target(c, birthUpdate[c][n].to)
    <3>1. birthUpdate[c][n].to \in 1 .. Len(indices[c])
      BY DEF Preparing, VectorsBuilt, BirthUpdatesSound
    <3>2. CASE birthUpdate[c][n].to = t
      BY <1>6, <1>7, <1>9, <1>10, <3>1, <3>2
    <3>3. CASE birthUpdate[c][n].to # t
      <4>1. n < a
        BY <1>3, <1>4, <1>9, <2>2, <3>3
      <4> QED BY <1>6, <1>10, <3>1, <3>3, <4>1
    <3> QED BY <3>2, <3>3
  <2> QED BY <1>1, <1>2, <1>13, <2>1, <2>2 DEF ClassInPreparation
<1>16. ASSUME NEW d \in Classes, d < class PROVE ClassPrepared(d)'
  <2>1. objs'[d] = objs[d]
    BY <1>2, <1>10, <1>16 DEF Classes
  <2>2. ClassPrepared(d)
    BY <1>16 DEF Preparing
  <2>3. /\ Deaths' = Deaths
        /\ \A k : DeathsTo(k)' = DeathsTo(k) /\ Victim(k)' = Victim(k)
    BY <1>1, SameTrace
  <2> QED BY <1>1, <1>13, <2>1, <2>2, <2>3 DEF ClassPrepared, LookedUp
<1>17. \A d \in Classes : d > class' => objs'[d] = before'[d]
  BY <1>1, <1>2, <1>10 DEF Preparing, Classes
<1>18. \A d \in Classes : Len(before'[d]) = Len(indices'[d])
  BY <1>1 DEF Preparing
<1>19. allocs' = total' /\ class' = class
  BY <1>1 DEF Preparing
<1> QED BY <1>11, <1>12, <1>14, <1>15, <1>16, <1>17, <1>18, <1>19 DEF Preparing

LEMMA PrepareDeathStep ==
  ASSUME RecordInv, VectorTypes, Preparing, PrepareDeath
  PROVE  VectorTypes' /\ Preparing'
<1>1. /\ phase = "prepare" /\ loop = 3 /\ at <= Len(deathUpdate[class])
      /\ UNCHANGED <<heap, allocs, total, objs, before, class, loop>>
      /\ UNCHANGED traceVars /\ UNCHANGED updateVars
      /\ UNCHANGED <<objUpdate, birthUpdate, deathUpdate, birthPlaces, birthObjects>>
      /\ UNCHANGED <<snapshot, indices, trace, deathIndices, births>>
      /\ at' = at + 1
  <2>1. loop = 3
    <3>1. LoopOrder[loop] = "death" /\ loop \in 1 .. 3
      BY DEF PrepareDeath, RecordInv, ScalarTypes
    <3> QED BY <3>1 DEF LoopOrder
  <2> QED BY <2>1 DEF PrepareDeath, heapVars, traceVars, updateVars
<1>2. PICK c \in Classes, a \in Nat \ {0} : c = class /\ a = at
  BY DEF RecordInv, ScalarTypes
<1>3. a \in 1 .. Len(deathUpdate[c]) /\ Len(deathUpdate[c]) \in Nat
  BY <1>1, <1>2, LenProperties DEF VectorTypes
<1>4. DeathUpdatesSound /\ Len(deathObjects) = Len(deathIndices)
  BY DEF Preparing, VectorsBuilt, Sizes
<1>5. PICK k \in Deaths : trace[k].class = c /\ ~Victim(k).born /\ deathUpdate[c][a] = DeathPair(k)
  BY <1>3, <1>4 DEF DeathUpdatesSound
<1>6. PICK t \in Nat, f \in Nat :
        /\ t = DeathsTo(k) /\ t \in 1 .. Len(deathObjects) /\ f = Victim(k).index
        /\ f \in 1 .. Len(objs[c]) /\ deathUpdate[c][a] = [from |-> f, to |-> t]
  <2>1. DeathsTo(k) \in 1 .. Len(deathIndices) /\ Victim(k).index \in 1 .. Len(snapshot[c])
    BY <1>5, DeathFactsOf
  <2>2. Len(snapshot[c]) = Len(objs[c])
    BY <1>1 DEF RecordInv, Repaired, Preparing, Lengths
  <2>3. Len(deathIndices) \in Nat /\ Len(snapshot[c]) \in Nat
    BY LenProperties DEF RecordInv, TraceTypes
  <2> QED BY <1>4, <1>5, <2>1, <2>2, <2>3 DEF DeathPair
<1>7. PICK x \in Pointer : x = objs[c][f]
  BY <1>6, ElementOfSeq DEF VectorTypes
<1>8. deathObjects' = [deathObjects EXCEPT ![t] = x]
  BY <1>2, <1>6, <1>7 DEF PrepareDeath
<1>9. /\ deathObjects' \in Seq(Pointer) /\ Len(deathObjects') = Len(deathObjects)
      /\ \A j \in 1 .. Len(deathObjects) : deathObjects'[j] = IF j = t THEN x ELSE deathObjects[j]
  <2>1. deathObjects \in Seq(Pointer) /\ t \in 1 .. Len(deathObjects)
    BY <1>6 DEF VectorTypes
  <2> QED BY <1>8, <2>1, Assign
<1>10. ASSUME NEW l \in Deaths, l # k
       PROVE  deathObjects'[DeathsTo(l)] = deathObjects[DeathsTo(l)]
  <2>1. DeathsTo(l) # t
    BY <1>6, <1>10, DeathsApart
  <2>2. DeathsTo(l) \in 1 .. Len(deathObjects)
    BY <1>4, Positions DEF RecordInv, Recorded, Counted
  <2> QED BY <1>9, <2>1, <2>2
<1>11. VectorTypes' /\ Lengths'
  BY <1>1, <1>9 DEF VectorTypes, Preparing, Lengths
<1>12. VectorsBuilt'
  BY <1>1, <1>9, SameBuilt DEF Preparing
<1>13. Targets' = Targets /\ \A d, i : Target(d, i)' = Target(d, i)
  BY <1>1, SameTargets
<1>14. Owned(heap, Targets)'
  BY <1>1, <1>13 DEF Preparing, Owned
<1>15. ClassInPreparation'
  <2>1. \A i \in 1 .. Len(indices[c]) : objs[c][i] = Target(c, i)
    BY <1>1, <1>2 DEF Preparing, ClassInPreparation
  <2>2. ASSUME NEW n \in 1 .. Len(deathUpdate[c]), n < a + 1
        PROVE  deathObjects'[deathUpdate[c][n].to] = objs[c][deathUpdate[c][n].from]
    <3>1. PICK l \in Deaths : deathUpdate[c][n] = DeathPair(l)
      BY <1>4 DEF DeathUpdatesSound
    <3>2. deathUpdate[c][n].to = DeathsTo(l) /\ deathUpdate[c][n].from = Victim(l).index
      BY <3>1 DEF DeathPair
    <3>3. CASE l = k
      BY <1>6, <1>7, <1>9, <3>2, <3>3
    <3>4. CASE l # k
      <4>1. deathUpdate[c][n].to # t
        BY <1>6, <3>2, <3>4, DeathsApart
      <4>2. n # a
        BY <1>6, <4>1
      <4>3. n < a
        BY <1>3, <2>2, <4>2
      <4>4. deathObjects[deathUpdate[c][n].to] = objs[c][deathUpdate[c][n].from]
        BY <1>1, <1>2, <4>3 DEF Preparing, ClassInPreparation
      <4> QED BY <1>10, <3>2, <3>4, <4>4
    <3> QED BY <3>3, <3>4
  <2> QED BY <1>1, <1>2, <1>13, <2>1, <2>2 DEF ClassInPreparation
<1>16. ASSUME NEW d \in Classes, d < class PROVE ClassPrepared(d)'
  <2>1. ClassPrepared(d) /\ d # c
    BY <1>2, <1>16 DEF Preparing, Classes
  <2>2. /\ Deaths' = Deaths
        /\ \A l : DeathsTo(l)' = DeathsTo(l) /\ Victim(l)' = Victim(l)
    BY <1>1, SameTrace
  <2>3. \A l \in Deaths : trace[l].class = d => l # k
    BY <1>5, <2>1
  <2> QED BY <1>1, <1>10, <1>13, <2>1, <2>2, <2>3 DEF ClassPrepared, LookedUp
<1>17. \A d \in Classes : d > class' => objs'[d] = before'[d]
  BY <1>1 DEF Preparing
<1>18. \A d \in Classes : Len(before'[d]) = Len(indices'[d])
  BY <1>1 DEF Preparing
<1>19. allocs' = total' /\ class' = class
  BY <1>1 DEF Preparing
<1> QED BY <1>11, <1>12, <1>14, <1>15, <1>16, <1>17, <1>18, <1>19 DEF Preparing

\* When a loop is over, what it had to do for the class is done.
LEMMA LoopDone ==
  ASSUME RecordInv, VectorTypes, Preparing, phase = "prepare", at > Len(Updates)
  PROVE  /\ loop = 1 => \A i \in 1 .. Len(indices[class]) :
                          ~indices[class][i].born => objs[class][i] = Target(class, i)
         /\ loop = 2 => \A i \in 1 .. Len(indices[class]) : objs[class][i] = Target(class, i)
         /\ loop = 3 => ClassPrepared(class)
<1>1. PICK c \in Classes, a \in Nat : c = class /\ a = at
  BY DEF RecordInv, ScalarTypes
<1>2. ClassInPreparation /\ \A i \in 1 .. Len(indices[c]) : SlotBuilt(c, i) /\ indices[c][i].born \in BOOLEAN
  BY SlotFacts DEF Preparing, VectorsBuilt, ObjectIndex
<1>3. Len(objUpdate[c]) \in Nat /\ Len(birthUpdate[c]) \in Nat /\ Len(deathUpdate[c]) \in Nat
  BY LenProperties DEF VectorTypes
<1>4. CASE loop = 1
  <2>1. a > Len(objUpdate[c])
    BY <1>1, <1>4 DEF Updates, LoopOrder
  <2>2. ASSUME NEW i \in 1 .. Len(indices[c]), ~indices[c][i].born
        PROVE  objs[c][i] = Target(c, i)
    <3>1. CASE indices[c][i].index = i
      BY <1>1, <1>2, <1>4, <2>2, <3>1 DEF ClassInPreparation, Target
    <3>2. CASE indices[c][i].index # i
      <4>1. PICK n \in 1 .. Len(objUpdate[c]) :
              objUpdate[c][n] = [from |-> indices[c][i].index, to |-> i]
        BY <1>2, <2>2, <3>2 DEF SlotBuilt
      <4>2. n < a /\ objUpdate[c][n].to = i
        BY <1>3, <2>1, <4>1
      <4> QED BY <1>1, <1>2, <1>4, <4>2 DEF ClassInPreparation
    <3> QED BY <3>1, <3>2
  <2> QED BY <1>1, <1>4, <2>2
<1>5. CASE loop = 2
  <2>1. a > Len(birthUpdate[c])
    BY <1>1, <1>5 DEF Updates, LoopOrder
  <2>2. ASSUME NEW i \in 1 .. Len(indices[c]) PROVE objs[c][i] = Target(c, i)
    <3>1. CASE ~indices[c][i].born
      BY <1>1, <1>2, <1>5, <3>1 DEF ClassInPreparation
    <3>2. CASE indices[c][i].born
      <4>1. PICK n \in 1 .. Len(birthUpdate[c]) :
              birthUpdate[c][n] = [from |-> indices[c][i].index, to |-> i]
        BY <1>2, <3>2 DEF SlotBuilt
      <4>2. n < a /\ birthUpdate[c][n].to = i
        BY <1>3, <2>1, <4>1
      <4> QED BY <1>1, <1>2, <1>5, <4>2 DEF ClassInPreparation
    <3> QED BY <1>2, <3>1, <3>2
  <2> QED BY <1>1, <1>5, <2>2
<1>6. CASE loop = 3
  <2>1. a > Len(deathUpdate[c])
    BY <1>1, <1>6 DEF Updates, LoopOrder
  <2>2. \A i \in 1 .. Len(indices[c]) : objs[c][i] = Target(c, i)
    BY <1>1, <1>2, <1>6 DEF ClassInPreparation
  <2>3. ASSUME NEW k \in Deaths, trace[k].class = c PROVE LookedUp(c, k)
    <3> SUFFICES ASSUME ~Victim(k).born
                 PROVE  deathObjects[DeathsTo(k)] = objs[c][Victim(k).index]
      BY DEF LookedUp
    <3>1. DeathBuilt(c, k)
      BY <2>3 DEF Preparing, VectorsBuilt
    <3>2. PICK n \in 1 .. Len(deathUpdate[c]) : deathUpdate[c][n] = DeathPair(k)
      BY <3>1 DEF DeathBuilt
    <3>3. n < a /\ deathUpdate[c][n].to = DeathsTo(k) /\ deathUpdate[c][n].from = Victim(k).index
      BY <1>3, <2>1, <3>2 DEF DeathPair
    <3>4. deathObjects[deathUpdate[c][n].to] = objs[c][deathUpdate[c][n].from]
      BY <1>1, <1>2, <1>6, <3>3 DEF ClassInPreparation
    <3> QED BY <3>3, <3>4
  <2>4. ClassPrepared(c)
    BY <2>2, <2>3 DEF ClassPrepared
  <2>5. ClassPrepared(class)
    BY <1>1, <2>4
  <2> QED BY <1>6, <2>5
<1> QED BY <1>4, <1>5, <1>6 DEF RecordInv, ScalarTypes

LEMMA EndLoopStep ==
  ASSUME RecordInv, VectorTypes, Preparing, EndLoop
  PROVE  /\ VectorTypes'
         /\ phase' = "prepare" => Preparing'
         /\ phase' = "ready" => Ready'
<1>1. /\ phase = "prepare" /\ at > Len(Updates) /\ at' = 1
      /\ UNCHANGED <<heap, allocs, total, objs, before, replays>>
      /\ UNCHANGED traceVars /\ UNCHANGED updateVars
      /\ UNCHANGED <<objUpdate, birthUpdate, deathUpdate, birthPlaces, birthObjects, deathObjects>>
      /\ UNCHANGED <<snapshot, indices, trace, deathIndices, births>>
  BY DEF EndLoop, heapVars, traceVars, updateVars, replayVars
<1>2. /\ loop = 1 => \A i \in 1 .. Len(indices[class]) :
                       ~indices[class][i].born => objs[class][i] = Target(class, i)
      /\ loop = 2 => \A i \in 1 .. Len(indices[class]) : objs[class][i] = Target(class, i)
      /\ loop = 3 => ClassPrepared(class)
  BY <1>1, LoopDone
<1>3. /\ class \in Classes /\ loop \in 1 .. 3 /\ NumClasses \in Nat
      /\ \A c \in Classes : c \in 1 .. NumClasses
  BY EmpiricalAssumption DEF RecordInv, ScalarTypes, Classes
<1>4. VectorTypes' /\ Lengths'
  BY <1>1 DEF VectorTypes, Preparing, Lengths
<1>5. VectorsBuilt'
  BY <1>1, SameBuilt DEF Preparing
<1>6. Targets' = Targets /\ \A d, i : Target(d, i)' = Target(d, i)
  BY <1>1, SameTargets
<1>7. /\ Deaths' = Deaths
      /\ \A l : DeathsTo(l)' = DeathsTo(l) /\ Victim(l)' = Victim(l)
  BY <1>1, SameTrace
<1>8. ASSUME NEW d \in Classes, ClassPrepared(d) PROVE ClassPrepared(d)'
  BY <1>1, <1>6, <1>7, <1>8 DEF ClassPrepared, LookedUp
<1>9. Owned(heap, Targets)' /\ allocs' = total' /\ \A d \in Classes : Len(before'[d]) = Len(indices'[d])
  BY <1>1, <1>6 DEF Preparing, Owned
<1>10. ASSUME NEW v \in [Classes -> Seq(UpdatePair)], NEW d \in Classes
       PROVE  \A n \in 1 .. Len(v[d]) : ~(n < 1)
  <2>1. Len(v[d]) \in Nat
    BY LenProperties
  <2> QED BY <2>1
<1>11. /\ objUpdate \in [Classes -> Seq(UpdatePair)] /\ birthUpdate \in [Classes -> Seq(UpdatePair)]
       /\ deathUpdate \in [Classes -> Seq(UpdatePair)]
  BY DEF VectorTypes
<1>12. CASE loop < 3
  <2>1. loop' = loop + 1 /\ class' = class /\ phase' = "prepare"
    BY <1>1, <1>12 DEF EndLoop
  <2>2. ClassInPreparation'
    <3>1. loop' # 1 /\ (loop' = 2 => loop = 1) /\ (loop' = 3 => loop = 2)
      BY <1>3, <2>1
    <3>2. /\ \A n \in 1 .. Len(birthUpdate[class]) : ~(n < 1)
          /\ \A n \in 1 .. Len(deathUpdate[class]) : ~(n < 1)
      BY <1>3, <1>10, <1>11
    <3>3. ASSUME loop' = 2
          PROVE  /\ \A i \in 1 .. Len(indices'[class']) :
                      ~indices'[class'][i].born => objs'[class'][i] = Target(class, i)
                 /\ \A n \in 1 .. Len(birthUpdate'[class']) : ~(n < at')
      BY <1>1, <1>2, <2>1, <3>1, <3>2, <3>3
    <3>4. ASSUME loop' = 3
          PROVE  /\ \A i \in 1 .. Len(indices'[class']) : objs'[class'][i] = Target(class, i)
                 /\ \A n \in 1 .. Len(deathUpdate'[class']) : ~(n < at')
      BY <1>1, <1>2, <2>1, <3>1, <3>2, <3>4
    <3>5. \A i : Target(class, i)' = Target(class, i)
      <4>1. \A i : Target(class, i)' = IF indices'[class'][i].born THEN birthObjects'[indices'[class'][i].index]
                                       ELSE before'[class'][indices'[class'][i].index]
        BY DEF Target
      <4> QED BY <1>1, <2>1, <4>1 DEF Target
    <3> QED BY <3>1, <3>3, <3>4, <3>5 DEF ClassInPreparation
  <2>3. \A d \in Classes : d < class' => ClassPrepared(d)'
    BY <1>8, <2>1 DEF Preparing
  <2>4. \A d \in Classes : d > class' => objs'[d] = before'[d]
    BY <1>1, <2>1 DEF Preparing
  <2> QED BY <1>4, <1>5, <1>9, <2>1, <2>2, <2>3, <2>4 DEF Preparing
<1>13. CASE loop = 3 /\ class < NumClasses
  <2>1. loop' = 1 /\ class' = class + 1 /\ phase' = "prepare"
    BY <1>1, <1>3, <1>13 DEF EndLoop
  <2>2. PICK e \in Classes : e = class'
    BY <1>3, <1>13, <2>1 DEF Classes
  <2>3. objs'[e] = before'[e]
    BY <1>1, <1>3, <2>1, <2>2 DEF Preparing
  <2>4. ClassInPreparation'
    <3>1. \A n \in 1 .. Len(objUpdate'[class']) : ~(n < at')
      BY <1>1, <1>10, <1>11, <2>2
    <3> QED BY <2>1, <2>2, <2>3, <3>1 DEF ClassInPreparation
  <2>5. ASSUME NEW d \in Classes, d < class' PROVE ClassPrepared(d)'
    <3>1. d < class \/ d = class
      BY <1>3, <2>1, <2>5
    <3>2. ClassPrepared(d)
      BY <1>2, <1>13, <3>1 DEF Preparing
    <3> QED BY <1>8, <3>2
  <2>6. \A d \in Classes : d > class' => objs'[d] = before'[d]
    BY <1>1, <1>3, <2>1 DEF Preparing
  <2> QED BY <1>4, <1>5, <1>9, <2>1, <2>4, <2>5, <2>6 DEF Preparing
<1>14. CASE loop = 3 /\ class = NumClasses
  <2>1. phase' = "ready"
    BY <1>3, <1>14 DEF EndLoop
  <2>2. \A d \in Classes : ClassPrepared(d)
    <3> SUFFICES ASSUME NEW d \in Classes PROVE ClassPrepared(d)
      OBVIOUS
    <3>1. d < class \/ d = class
      BY <1>3, <1>14
    <3> QED BY <1>2, <1>14, <3>1 DEF Preparing
  <2>3. \A d \in Classes : \A i \in 1 .. Len(indices[d]) : objs[d][i] = Target(d, i)
    BY <2>2 DEF ClassPrepared
  <2>4. Owned(heap, objs)
    <3>1. ASSUME NEW d \in Classes
          PROVE  /\ Len(objs[d]) = Len(Targets[d])
                 /\ \A i \in 1 .. Len(Targets[d]) : objs[d][i] = Targets[d][i]
      <4>1. PICK m \in Nat : m = Len(indices[d])
        BY LenProperties DEF RecordInv, IndInv, ListTypes
      <4>2. PICK w : w = [i \in 1 .. m |-> Target(d, i)]
        OBVIOUS
      <4>3. w \in [1 .. m -> {Target(d, i) : i \in 1 .. m}]
        BY <4>2
      <4>4. Len(w) = m
        BY <4>3, FunctionIsSeq
      <4>5. Targets[d] = w
        BY <4>1, <4>2 DEF Targets
      <4> QED BY <2>3, <4>1, <4>2, <4>4, <4>5 DEF Preparing, Lengths
    <3>2. Owned(heap, Targets)
      BY DEF Preparing
    <3> HIDE DEF Targets
    <3> QED BY <3>1, <3>2, OwnedSame
  <2>5. Owned(heap, objs)'
    <3>1. UNCHANGED <<heap, objs>>
      BY <1>1
    <3> QED BY <2>4, <3>1 DEF Owned
  <2>6. AllLookedUp'
    BY <1>1, <1>7, <2>2 DEF ClassPrepared, AllLookedUp, LookedUp
  <2>7. \A d \in Classes : \A i \in 1 .. Len(indices'[d]) : objs'[d][i] = Target(d, i)'
    BY <1>1, <1>6, <2>3
  <2> QED BY <1>4, <1>5, <1>9, <2>1, <2>5, <2>6, <2>7 DEF Ready
<1> QED BY <1>3, <1>12, <1>13, <1>14

LEMMA DestroyStep ==
  ASSUME RecordInv, VectorTypes, PhaseInv, Destroy
  PROVE  VectorTypes' /\ \A p \in Addresses : heap'[p] = 0
<1>1. VectorTypes'
  BY DEF Destroy, VectorTypes, updateVars, replayVars
<1>2. Owned(heap, objs)
  <2>1. CASE phase = "ready"
    BY <2>1 DEF PhaseInv, Ready
  <2>2. CASE phase = "record" /\ trace = <<>>
    <3>1. Owned(heap, snapshot) /\ objs = snapshot
      BY <2>2 DEF PhaseInv, RecordingHeap
    <3> QED BY <3>1
  <2> QED BY <2>1, <2>2 DEF Destroy
<1>3. ASSUME NEW p \in Addresses PROVE heap'[p] = 0
  <2>1. heap'[p] = IF \E c \in Classes : Contains(objs[c], p) THEN 0 ELSE heap[p]
    BY DEF Destroy
  <2>2. heap[p] \in Classes => \E c \in Classes : Contains(objs[c], p)
    BY <1>2 DEF Owned, Contains
  <2>3. heap[p] \in Classes \cup {0}
    BY DEF RecordInv, ScalarTypes
  <2> QED BY <2>1, <2>2, <2>3
<1> QED BY <1>1, <1>3

LEMMA Stutter ==
  ASSUME VectorTypes, PhaseInv, UNCHANGED vars
  PROVE  VectorTypes' /\ PhaseInv'
<1>1. /\ UNCHANGED <<phase, heap, allocs, objs, total, before, birthObjects, deathObjects,
                     birthIndex, deathIndex, replays>>
      /\ UNCHANGED <<class, loop, at, deathAt>> /\ UNCHANGED traceVars /\ UNCHANGED updateVars
      /\ UNCHANGED <<snapshot, indices, trace, deathIndices, births>>
      /\ UNCHANGED <<objUpdate, birthUpdate, deathUpdate, birthPlaces>>
  BY DEF vars, heapVars, traceVars, updateVars, replayVars, loopVars
<1>2. VectorTypes'
  BY <1>1 DEF VectorTypes
<1>3. /\ Births' = Births /\ Deaths' = Deaths
      /\ \A k : BirthsTo(k)' = BirthsTo(k) /\ DeathsTo(k)' = DeathsTo(k)
      /\ \A k : Victim(k)' = Victim(k)
      /\ \A c : Objects(c)' = Objects(c)
  BY <1>1, SameTrace
<1>4. /\ DeathUpdatesSound' = DeathUpdatesSound
      /\ ObjUpdatesSound' = ObjUpdatesSound /\ BirthUpdatesSound' = BirthUpdatesSound
      /\ \A c, k : DeathBuilt(c, k)' = DeathBuilt(c, k)
      /\ \A c, i : SlotBuilt(c, i)' = SlotBuilt(c, i)
  BY <1>1, SameVectors
<1>5. Targets' = Targets /\ \A c, i : Target(c, i)' = Target(c, i)
  BY <1>1, SameTargets
<1>6. /\ \A c, k : LookedUp(c, k)' = LookedUp(c, k)
      /\ AllLookedUp' = AllLookedUp /\ Lengths' = Lengths /\ Sizes' = Sizes
      /\ NoUpdates' = NoUpdates /\ Position' = Position
  BY <1>1, <1>3 DEF LookedUp, AllLookedUp, Lengths, Sizes, NoUpdates, Position
<1>7. /\ Owned(heap, objs)' = Owned(heap, objs) /\ Owned(heap, snapshot)' = Owned(heap, snapshot)
      /\ Owned(heap, Targets)' = Owned(heap, Targets)
  BY <1>1, <1>5 DEF Owned
<1>8. VectorsBuilt => VectorsBuilt'
  BY <1>1, SameBuilt
<1>9. /\ \A c : Alive(c)' = Alive(c)
      /\ \A c, o : AddressOf(c, o)' = AddressOf(c, o)
  BY <1>1, <1>3, <1>6 DEF Alive, AddressOf
<1>10. AliveAllocated => AliveAllocated'
  BY <1>1, <1>9 DEF AliveAllocated
<1>11. /\ Filling => Filling'
       /\ RecordingHeap => RecordingHeap'
       /\ Restored => Restored'
  BY <1>1, <1>6, <1>7 DEF Filling, RecordingHeap, Restored
<1>12. BuildingDeaths => BuildingDeaths'
  BY <1>1, <1>3, <1>4, <1>6, <1>7 DEF BuildingDeaths
<1>13. BuildingSlots => BuildingSlots'
  BY <1>1, <1>3, <1>4, <1>6, <1>7 DEF BuildingSlots
<1>14. Ready => Ready'
  BY <1>1, <1>5, <1>6, <1>7, <1>8 DEF Ready
<1>15. Replaying => Replaying'
  BY <1>1, <1>3, <1>6, <1>8, <1>10 DEF Replaying
<1>16. Preparing => Preparing'
  <2>1. \A c : ClassPrepared(c)' = ClassPrepared(c)
    BY <1>1, <1>3, <1>5, <1>6 DEF ClassPrepared
  <2>2. ClassInPreparation' = ClassInPreparation
    BY <1>1 DEF ClassInPreparation, Target
  <2> QED BY <1>1, <1>6, <1>7, <1>8, <2>1, <2>2 DEF Preparing
<1>17. PhaseInv'
  BY <1>1, <1>11, <1>12, <1>13, <1>14, <1>15, <1>16 DEF PhaseInv
<1> QED BY <1>2, <1>17

-----------------------------------------------------------------------------
LEMMA ReplayInvInit == Init => ReplayInv
<1> SUFFICES ASSUME Init PROVE VectorTypes /\ PhaseInv /\ RecordInv
  BY DEF ReplayInv
<1>1. VectorTypes
  <2>1. \A S : <<>> \in Seq(S)
    BY EmptySeq
  <2>2. \A S : Nothing \in [Classes -> Seq(S)]
    BY <2>1 DEF Nothing
  <2>3. /\ objs = Nothing /\ before = Nothing
        /\ objUpdate = Nothing /\ birthUpdate = Nothing /\ deathUpdate = Nothing
        /\ birthPlaces = <<>> /\ birthObjects = <<>> /\ deathObjects = <<>>
    BY DEF Init
  <2> QED BY <2>1, <2>2, <2>3 DEF VectorTypes
<1>2. Filling
  <2>1. \A c \in Classes : Len(objs[c]) = 0
    BY EmptySeq DEF Init, Nothing
  <2>2. \A p \in Addresses, c \in Classes : heap[p] # c
    BY EmpiricalAssumption DEF Init, Classes
  <2>3. Owned(heap, objs)
    BY <2>1, <2>2 DEF Owned
  <2> QED BY <2>3 DEF Filling, Init, NoUpdates
<1>3. PhaseInv
  BY <1>2 DEF Init, PhaseInv
<1>4. RecordInv
  BY InitRecorded
<1> QED BY <1>1, <1>3, <1>4

LEMMA ReplayInvNext ==
  ASSUME ReplayInv, [Next]_vars
  PROVE  ReplayInv'
<1>1. RecordInv /\ VectorTypes /\ PhaseInv /\ RecordInv'
  BY RecordInvNext DEF ReplayInv
<1> SUFFICES VectorTypes' /\ PhaseInv'
  BY <1>1 DEF ReplayInv
<1>2. ASSUME NEW c \in Classes, DoBirth(c) PROVE VectorTypes' /\ PhaseInv'
  <2>1. phase = "fill" /\ phase' = "fill"
    BY <1>2 DEF DoBirth
  <2>2. VectorTypes' /\ Filling'
    BY <1>1, <1>2, <2>1, FillStep DEF PhaseInv
  <2> QED BY <2>1, <2>2 DEF PhaseInv
<1>3. CASE SnapshotLiveObjects
  <2>1. phase = "fill" /\ phase' = "record"
    BY <1>3 DEF SnapshotLiveObjects
  <2>2. VectorTypes' /\ RecordingHeap'
    BY <1>1, <1>3, <2>1, SnapshotTaken DEF PhaseInv
  <2> QED BY <2>1, <2>2 DEF PhaseInv
<1>4. CASE RecordNext \/ RecordRepair
  <2>1. phase \in {"record", "repair"} /\ phase' \in {"record", "repair"}
    BY <1>4 DEF RecordNext, RecordRepair
  <2>2. VectorTypes' /\ RecordingHeap'
    BY <1>1, <1>4, <2>1, RecordStep DEF PhaseInv
  <2> QED BY <2>1, <2>2 DEF PhaseInv
<1>5. CASE RestoreSnapshot
  <2>1. phase = "repair" /\ phase' = "restored"
    BY <1>5 DEF RestoreSnapshot
  <2>2. VectorTypes' /\ Restored'
    BY <1>1, <1>5, <2>1, RestoreStep DEF PhaseInv
  <2> QED BY <2>1, <2>2 DEF PhaseInv
<1>6. CASE BuildUpdateVectors
  <2>1. phase = "restored" /\ phase' = "deaths"
    BY <1>6 DEF BuildUpdateVectors
  <2>2. VectorTypes' /\ BuildingDeaths'
    BY <1>1, <1>6, <2>1, BuildStart DEF PhaseInv
  <2> QED BY <2>1, <2>2 DEF PhaseInv
<1>7. CASE BuildDeath \/ SkipBirth
  <2>1. phase = "deaths" /\ phase' = "deaths"
    BY <1>7 DEF BuildDeath, SkipBirth
  <2>2. VectorTypes' /\ BuildingDeaths'
    BY <1>1, <1>7, <2>1, BuildDeathStep, SkipBirthStep DEF PhaseInv
  <2> QED BY <2>1, <2>2 DEF PhaseInv
<1>8. CASE EndDeaths
  <2>1. phase = "deaths" /\ phase' = "slots"
    BY <1>8 DEF EndDeaths
  <2>2. VectorTypes' /\ BuildingSlots'
    BY <1>1, <1>8, <2>1, EndDeathsStep DEF PhaseInv
  <2> QED BY <2>1, <2>2 DEF PhaseInv
<1>9. CASE BuildSlot
  <2>1. phase = "slots" /\ phase' = "slots"
    BY <1>9 DEF BuildSlot
  <2>2. VectorTypes' /\ BuildingSlots'
    BY <1>1, <1>9, <2>1, BuildSlotStep DEF PhaseInv
  <2> QED BY <2>1, <2>2 DEF PhaseInv
<1>10. CASE EndSlots
  <2>1. phase = "slots" /\ phase' \in {"slots", "ready"}
    BY <1>10 DEF EndSlots
  <2>2. VectorTypes' /\ (phase' = "slots" => BuildingSlots') /\ (phase' = "ready" => Ready')
    BY <1>1, <1>10, <2>1, EndSlotsStep DEF PhaseInv
  <2> QED BY <2>1, <2>2 DEF PhaseInv
<1>11. CASE StartReplay
  <2>1. phase = "ready" /\ phase' = "replay"
    BY <1>11 DEF StartReplay
  <2>2. VectorTypes' /\ Replaying'
    BY <1>1, <1>11, <2>1, StartStep DEF PhaseInv
  <2> QED BY <2>1, <2>2 DEF PhaseInv
<1>12. CASE ReplayBirth \/ ReplayDeath
  <2>1. phase = "replay" /\ phase' = "replay"
    BY <1>12 DEF ReplayBirth, ReplayDeath
  <2>2. VectorTypes' /\ Replaying'
    BY <1>1, <1>12, <2>1, ReplayBirthStep, ReplayDeathStep DEF PhaseInv
  <2> QED BY <2>1, <2>2 DEF PhaseInv
<1>13. CASE EndReplay
  <2>1. phase = "replay" /\ phase' = "prepare"
    BY <1>13 DEF EndReplay
  <2>2. VectorTypes' /\ Preparing'
    BY <1>1, <1>13, <2>1, EndReplayStep DEF PhaseInv
  <2> QED BY <2>1, <2>2 DEF PhaseInv
<1>14. CASE PrepareObj \/ PrepareBirth \/ PrepareDeath
  <2>1. phase = "prepare" /\ phase' = "prepare"
    BY <1>14 DEF PrepareObj, PrepareBirth, PrepareDeath
  <2>2. VectorTypes' /\ Preparing'
    BY <1>1, <1>14, <2>1, PrepareObjStep, PrepareBirthStep, PrepareDeathStep DEF PhaseInv
  <2> QED BY <2>1, <2>2 DEF PhaseInv
<1>15. CASE EndLoop
  <2>1. phase = "prepare" /\ phase' \in {"prepare", "ready"}
    BY <1>15 DEF EndLoop
  <2>2. VectorTypes' /\ (phase' = "prepare" => Preparing') /\ (phase' = "ready" => Ready')
    BY <1>1, <1>15, <2>1, EndLoopStep DEF PhaseInv
  <2> QED BY <2>1, <2>2 DEF PhaseInv
<1>16. CASE Destroy
  <2>1. phase' = "destroyed" /\ VectorTypes' /\ \A p \in Addresses : heap'[p] = 0
    BY <1>1, <1>16, DestroyStep DEF Destroy
  <2> QED BY <2>1 DEF PhaseInv
<1>17. CASE UNCHANGED vars
  BY <1>1, <1>17, Stutter
<1> QED BY <1>2, <1>3, <1>4, <1>5, <1>6, <1>7, <1>8, <1>9, <1>10, <1>11, <1>12, <1>13, <1>14,
           <1>15, <1>16, <1>17
        DEF Next, Record, Build, Replay, PrepareNextReplay, Destroyed

-----------------------------------------------------------------------------
(***************************************************************************)
(* What the invariant says.                                                *)
(***************************************************************************)
LEMMA InvTypes == ReplayInv => TypeOK
BY DEF ReplayInv, RecordInv, IndInv, ListTypes, TraceTypes, ScalarTypes, VectorTypes, TypeOK

LEMMA InvFrees == ReplayInv => FreesLiveObject
<1> SUFFICES ASSUME ReplayInv, phase = "replay", InTrace, ~NextOp.birth
             PROVE  /\ deathObjects[deathIndex + 1] # Null
                    /\ heap[deathObjects[deathIndex + 1]] = NextOp.class
  BY DEF FreesLiveObject
<1>1. RecordInv /\ Replaying
  BY DEF ReplayInv, PhaseInv
<1>2. PICK n, c : n = Position /\ c = NextOp.class
  OBVIOUS
<1>3. deathObjects[deathIndex + 1] \in Addresses /\ heap[deathObjects[deathIndex + 1]] = c
  BY <1>1, <1>2, DeathFindsObject
<1> QED BY <1>2, <1>3, EmpiricalAssumption

LEMMA SlotsIff ==
  ASSUME NEW s
  PROVE  s \in AllSlots <=> \E c \in Classes : \E i \in 1 .. Len(objs[c]) : s = <<c, i>>
BY DEF AllSlots, Slots

LEMMA InvSteady == ReplayInv => SteadyState
<1> SUFFICES ASSUME ReplayInv PROVE SteadyState
  OBVIOUS
<1>1. ASSUME phase = "ready"
      PROVE  /\ total = allocs
             /\ \A c \in Classes : Len(objs[c]) = Len(snapshot[c])
             /\ \A s \in AllSlots : objs[s[1]][s[2]] \in Addresses
             /\ \A s, t \in AllSlots : s # t => objs[s[1]][s[2]] # objs[t[1]][t[2]]
             /\ \A p \in Addresses, c \in Classes :
                  heap[p] = c <=> \E i \in 1 .. Len(objs[c]) : objs[c][i] = p
  <2>1. /\ Owned(heap, objs) /\ allocs = total
        /\ \A c \in Classes : Len(objs[c]) = Len(indices[c]) /\ Len(indices[c]) = Len(snapshot[c])
    BY <1>1 DEF ReplayInv, PhaseInv, Ready, Lengths, RecordInv, Repaired
  <2>2. \A s \in AllSlots : objs[s[1]][s[2]] \in Addresses
    BY <2>1, SlotsIff DEF Owned
  <2>3. ASSUME NEW s \in AllSlots, NEW t \in AllSlots, s # t
        PROVE  objs[s[1]][s[2]] # objs[t[1]][t[2]]
    <3>1. PICK c \in Classes : \E i \in 1 .. Len(objs[c]) : s = <<c, i>>
      BY SlotsIff
    <3>2. PICK i \in 1 .. Len(objs[c]) : s = <<c, i>>
      BY <3>1
    <3>3. PICK d \in Classes : \E j \in 1 .. Len(objs[d]) : t = <<d, j>>
      BY SlotsIff
    <3>4. PICK j \in 1 .. Len(objs[d]) : t = <<d, j>>
      BY <3>3
    <3>5. objs[c][i] = objs[d][j] => c = d /\ i = j
      BY <2>1 DEF Owned
    <3> QED BY <2>3, <3>2, <3>4, <3>5
  <2> QED BY <2>1, <2>2, <2>3 DEF Owned
<1>2. phase = "destroyed" => \A p \in Addresses : heap[p] = 0
  BY DEF ReplayInv, PhaseInv
<1> QED BY <1>1, <1>2 DEF SteadyState

LEMMA InvPrepared == ReplayInv => PrepareFollowsRecording
<1> SUFFICES ASSUME ReplayInv, phase = "ready", replays > 0, NEW s \in AllSlots
             PROVE  objs[s[1]][s[2]] =
                      IF indices[s[1]][s[2]].born THEN birthObjects[indices[s[1]][s[2]].index]
                      ELSE before[s[1]][indices[s[1]][s[2]].index]
  BY DEF PrepareFollowsRecording
<1>1. PICK c \in Classes : \E i \in 1 .. Len(objs[c]) : s = <<c, i>>
  BY SlotsIff
<1>2. PICK i \in 1 .. Len(objs[c]) : s = <<c, i>>
  BY <1>1
<1>3. objs[c][i] = Target(c, i)
  BY DEF ReplayInv, PhaseInv, Ready, Lengths
<1> QED BY <1>2, <1>3 DEF Target

(***************************************************************************)
(* The inductive invariant of the whole life of an EmpiricalData object.   *)
(***************************************************************************)
THEOREM ReplayInvCorrect == Spec => []ReplayInv
<1>1. ReplayInv /\ [Next]_vars => ReplayInv'
  BY ReplayInvNext
<1> QED BY ReplayInvInit, <1>1, PTL DEF Spec

(***************************************************************************)
(* The types.  BuildUpdateVectors and PrepareNextReplay copy entries from  *)
(* one vector into another, so this says too that they read no vector      *)
(* outside its bounds.                                                     *)
(***************************************************************************)
THEOREM TypesCorrect == Spec => []TypeOK
BY ReplayInvCorrect, InvTypes, PTL

(***************************************************************************)
(* ReplayTrace frees only objects that are allocated, and with the size    *)
(* they were allocated with, in every replay of every trace.               *)
(***************************************************************************)
THEOREM FreesCorrect == Spec => []FreesLiveObject
BY ReplayInvCorrect, InvFrees, PTL

(***************************************************************************)
(* Between replays the lists hold exactly the allocated objects, once and  *)
(* under their sizes, and are as long as the warm-up left them; the        *)
(* destructor frees them all.                                              *)
(***************************************************************************)
THEOREM SteadyCorrect == Spec => []SteadyState
BY ReplayInvCorrect, InvSteady, PTL

(***************************************************************************)
(* PrepareNextReplay, which moves the objects in place and in the order of *)
(* its update vectors, leaves in each slot the object the recording left   *)
(* there.                                                                  *)
(***************************************************************************)
THEOREM PrepareCorrect == Spec => []PrepareFollowsRecording
BY ReplayInvCorrect, InvPrepared, PTL
=============================================================================

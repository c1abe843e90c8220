--------------------------- MODULE EmpiricalData ---------------------------
(***************************************************************************)
(* The simulated malloc load of one thread of the tcmalloc benchmark       *)
(* (fleetbench/tcmalloc/empirical.h, empirical.cc), driven as a SimThread  *)
(* of empirical_driver.cc drives it.                                       *)
(*                                                                         *)
(* The load is first recorded without allocating anything: a trace of      *)
(* births and deaths and, for each death, which object it frees.  The      *)
(* trace is then replayed again and again.  To keep the replay cheap the   *)
(* lists of live objects are not maintained while it runs but repaired     *)
(* after it, in place, from update vectors that are built only once.       *)
(*                                                                         *)
(* Vectors are indexed from 1.                                             *)
(***************************************************************************)
EXTENDS Integers, Sequences, FiniteSets, SequencesExt

CONSTANTS
  NumClasses,    \* weights.size(), the number of size classes
  Size,          \* the size of each class
  TotalMem,      \* total_mem, the memory of the initial heap
  RecordTarget,  \* kRecordAndReplayBufferSizeTarget
  Addresses,     \* bound: the addresses alloc_ may return
  Null,          \* nullptr
  MaxReplays     \* bound: the replays of a benchmark

Classes == 1 .. NumClasses

ASSUME EmpiricalAssumption ==
  /\ NumClasses \in Nat \ {0}
  /\ Size \in [Classes -> Nat \ {0}]
  /\ TotalMem \in Nat \ {0}
  /\ RecordTarget \in Nat \ {0}
  /\ MaxReplays \in Nat
  /\ Null \notin Addresses

(***************************************************************************)
(* ObjectIndex: the index-th object born in the recording, or the object   *)
(* that was in slot index of its list before it.                           *)
(***************************************************************************)
ObjectIndex == [born : BOOLEAN, index : Nat \ {0}]
UpdatePair == [from : Nat \ {0}, to : Nat \ {0}]
Pointer == Addresses \cup {Null}

(***************************************************************************)
(* What birth_pointers_ may point to: an entry of death_objects_ or of     *)
(* birth_objects_.                                                         *)
(***************************************************************************)
Place == [vector : {"death", "birth"}, index : Nat \ {0}]

VARIABLES
  phase,        \* where the life of the EmpiricalData object is
  heap,         \* the allocator: the class each address is allocated for, or 0
  allocs,       \* how often alloc_ was called
  objs,         \* state_[c].objs
  snapshot,     \* snapshot_state_[c].objs
  indices,      \* state_[c].objs_indices_after_recording
  trace,        \* birth_or_death_ and birth_or_death_sizes_
  deathIndices, \* death_obj_indices_
  births,       \* birth_object_index_ of the recording, num_allocated_recorded_
  objUpdate,    \* state_[c].obj_update
  birthUpdate,  \* state_[c].birth_update
  deathUpdate,  \* state_[c].death_update
  birthPlaces,  \* birth_pointers_
  birthObjects, \* birth_objects_
  deathObjects, \* death_objects_
  birthIndex,   \* birth_object_index_ of the replay
  deathIndex,   \* death_object_index_
  replays,      \* the replays begun
  total,        \* total_num_allocated_
  class,        \* the loops of BuildUpdateVectors and PrepareNextReplay: the
  loop,         \*   class of s, which of the loops over its update vectors,
  at,           \*   the iteration of the inner loop,
  deathAt,      \*   death_index
  before        \* history: objs when the replay began

heapVars == <<heap, allocs>>
traceVars == <<snapshot, indices, trace, deathIndices, births>>
updateVars == <<objUpdate, birthUpdate, deathUpdate, birthPlaces>>
replayVars == <<birthObjects, deathObjects, birthIndex, deathIndex, replays, before>>
loopVars == <<class, loop, at, deathAt>>
vars == <<phase, heapVars, objs, traceVars, updateVars, replayVars, total, loopVars>>

Phases == {"fill", "record", "repair", "restored", "deaths", "slots", "ready",
           "replay", "prepare", "destroyed"}

TypeOK ==
  /\ phase \in Phases
  /\ heap \in [Addresses -> Classes \cup {0}]
  /\ allocs \in Nat /\ total \in Nat
  /\ objs \in [Classes -> Seq(Pointer)]
  /\ snapshot \in [Classes -> Seq(Pointer)]
  /\ indices \in [Classes -> Seq(ObjectIndex)]
  /\ trace \in Seq([birth : BOOLEAN, class : Classes])
  /\ deathIndices \in Seq(ObjectIndex)
  /\ births \in Nat
  /\ objUpdate \in [Classes -> Seq(UpdatePair)]
  /\ birthUpdate \in [Classes -> Seq(UpdatePair)]
  /\ deathUpdate \in [Classes -> Seq(UpdatePair)]
  /\ birthPlaces \in Seq(Place \cup {Null})
  /\ birthObjects \in Seq(Pointer)
  /\ deathObjects \in Seq(Pointer)
  /\ birthIndex \in Nat /\ deathIndex \in Nat /\ replays \in Nat
  /\ class \in Classes /\ loop \in 1 .. 3
  /\ at \in Nat \ {0} /\ deathAt \in Nat \ {0}
  /\ before \in [Classes -> Seq(Pointer)]

-----------------------------------------------------------------------------
(***************************************************************************)
(* The allocator, operator new and operator delete: new returns any        *)
(* address that is free, so an address is used again and again.            *)
(***************************************************************************)
Alloc(p, c) ==
  /\ heap[p] = 0
  /\ heap' = [heap EXCEPT ![p] = c]
  /\ allocs' = allocs + 1

Dealloc(p) == heap' = [heap EXCEPT ![p] = 0]

(***************************************************************************)
(* v[k] = v.back(); v.pop_back()                                           *)
(***************************************************************************)
SwapRemove(v, k) == Front([v EXCEPT ![k] = Last(v)])

Nothing == [c \in Classes |-> <<>>]

Init ==
  /\ phase = "fill"
  /\ heap = [p \in Addresses |-> 0] /\ allocs = 0 /\ total = 0
  /\ objs = Nothing /\ snapshot = Nothing /\ indices = Nothing
  /\ trace = <<>> /\ deathIndices = <<>> /\ births = 0
  /\ objUpdate = Nothing /\ birthUpdate = Nothing /\ deathUpdate = Nothing
  /\ birthPlaces = <<>> /\ birthObjects = <<>> /\ deathObjects = <<>>
  /\ birthIndex = 0 /\ deathIndex = 0 /\ replays = 0 /\ before = Nothing
  /\ class = 1 /\ loop = 1 /\ at = 1 /\ deathAt = 1

-----------------------------------------------------------------------------
(***************************************************************************)
(* The constructor: DoBirth of random classes until total_mem is in use,   *)
(* then SnapshotLiveObjects and the initial indices.                       *)
(***************************************************************************)
Usage == LET Add(sum, c) == sum + Len(objs[c]) * Size[c]
         IN  FoldLeft(Add, 0, [c \in Classes |-> c])

DoBirth(c) ==
  /\ phase = "fill" /\ Usage < TotalMem
  /\ \E p \in Addresses :
       /\ Alloc(p, c)
       /\ objs' = [objs EXCEPT ![c] = Append(@, p)]
  /\ total' = total + 1
  /\ UNCHANGED <<phase, traceVars, updateVars, replayVars, loopVars>>

\* Mutant: the first slot is slot 0.
SnapshotFromZero ==
  /\ phase = "fill" /\ Usage >= TotalMem
  /\ snapshot' = objs
  /\ indices' = [c \in Classes |->
       [i \in 1 .. Len(objs[c]) |-> [born |-> FALSE, index |-> i - 1]]]
  /\ phase' = "record"
  /\ UNCHANGED <<heapVars, objs, trace, deathIndices, births, updateVars,
                 replayVars, total, loopVars>>

SnapshotLiveObjects ==
  /\ phase = "fill" /\ Usage >= TotalMem
  /\ snapshot' = objs
  /\ indices' = [c \in Classes |->
       [i \in 1 .. Len(objs[c]) |-> [born |-> FALSE, index |-> i]]]
  /\ phase' = "record"
  /\ UNCHANGED <<heapVars, objs, trace, deathIndices, births, updateVars,
                 replayVars, total, loopVars>>

-----------------------------------------------------------------------------
(***************************************************************************)
(* The recording.  The lists of objects only have to keep their lengths,   *)
(* so a birth pushes nullptr.                                              *)
(***************************************************************************)
RecordBirth(c) ==
  /\ trace' = Append(trace, [birth |-> TRUE, class |-> c])
  /\ objs' = [objs EXCEPT ![c] = Append(@, Null)]
  /\ indices' = [indices EXCEPT
       ![c] = Append(@, [born |-> TRUE, index |-> births + 1])]
  /\ births' = births + 1
  /\ UNCHANGED deathIndices

\* Mutant: the index of the dead object is erased, the later ones shift.
RecordDeathShifts(c) ==
  /\ objs[c] # <<>>
  /\ \E k \in 1 .. Len(objs[c]) :
       /\ trace' = Append(trace, [birth |-> FALSE, class |-> c])
       /\ objs' = [objs EXCEPT ![c] = SwapRemove(@, k)]
       /\ deathIndices' = Append(deathIndices, indices[c][k])
       /\ indices' = [indices EXCEPT ![c] = RemoveAt(@, k)]
  /\ UNCHANGED births

RecordDeath(c) ==
  /\ objs[c] # <<>>
  /\ \E k \in 1 .. Len(objs[c]) :
       /\ trace' = Append(trace, [birth |-> FALSE, class |-> c])
       /\ objs' = [objs EXCEPT ![c] = SwapRemove(@, k)]
       /\ deathIndices' = Append(deathIndices, indices[c][k])
       /\ indices' = [indices EXCEPT ![c] = SwapRemove(@, k)]
  /\ UNCHANGED births

(***************************************************************************)
(* RecordNext, RecordTarget times: a birth of any class, or a death in a   *)
(* class with a positive death rate, which is one with objects.            *)
(***************************************************************************)
RecordNext ==
  /\ phase = "record" /\ Len(trace) < RecordTarget
  /\ \E c \in Classes : RecordBirth(c) \/ RecordDeath(c)
  /\ phase' = IF Len(trace) + 1 = RecordTarget THEN "repair" ELSE "record"
  /\ UNCHANGED <<heapVars, snapshot, updateVars, replayVars, total, loopVars>>

(***************************************************************************)
(* RecordRepairToSnapshotState: class by class, births or deaths until it  *)
(* has as many objects as in the snapshot.                                 *)
(***************************************************************************)
Unrepaired == {c \in Classes : Len(objs[c]) # Len(snapshot[c])}

RecordRepair ==
  /\ phase = "repair"
  /\ \E c \in Unrepaired :
       /\ \A d \in Unrepaired : c <= d
       /\ IF Len(objs[c]) < Len(snapshot[c]) THEN RecordBirth(c) ELSE RecordDeath(c)
  /\ UNCHANGED <<phase, heapVars, snapshot, updateVars, replayVars, total, loopVars>>

\* Mutant: the repair is left out.
RestoreUnrepaired ==
  /\ phase = "repair"
  /\ objs' = snapshot
  /\ phase' = "restored"
  /\ UNCHANGED <<heapVars, traceVars, updateVars, replayVars, total, loopVars>>

RestoreSnapshot ==
  /\ phase = "repair" /\ Unrepaired = {}
  /\ objs' = snapshot
  /\ phase' = "restored"
  /\ UNCHANGED <<heapVars, traceVars, updateVars, replayVars, total, loopVars>>

-----------------------------------------------------------------------------
(***************************************************************************)
(* BuildUpdateVectors: the vectors get their sizes; a loop over the trace  *)
(* finds for each death where its object will be; a loop over the slots of *)
(* each class finds what the recording has moved there.                    *)
(***************************************************************************)
BuildUpdateVectors ==
  /\ phase = "restored"
  /\ birthPlaces' = [b \in 1 .. births |-> Null]
  /\ birthObjects' = [b \in 1 .. births |-> Null]
  /\ deathObjects' = [d \in 1 .. Len(deathIndices) |-> Null]
  /\ at' = 1 /\ deathAt' = 1
  /\ phase' = "deaths"
  /\ UNCHANGED <<heapVars, objs, traceVars, objUpdate, birthUpdate, deathUpdate,
                 birthIndex, deathIndex, replays, before, total, class, loop>>

\* The death will free an object that was there before the recording, or one
\* born in it, which its birth is to store where the death reads it.
BuildDeath ==
  LET object == deathIndices[deathAt]
      c == trace[at].class
      pair == [from |-> object.index, to |-> deathAt]
      place == [vector |-> "death", index |-> deathAt]
  IN  /\ phase = "deaths" /\ at <= Len(trace) /\ ~trace[at].birth
      /\ \/ /\ ~object.born
            /\ deathUpdate' = [deathUpdate EXCEPT ![c] = Append(@, pair)]
            /\ deathObjects' = [deathObjects EXCEPT ![deathAt] = objs[c][object.index]]
            /\ UNCHANGED birthPlaces
         \/ /\ object.born
            /\ birthPlaces' = [birthPlaces EXCEPT ![object.index] = place]
            /\ UNCHANGED <<deathUpdate, deathObjects>>
      /\ at' = at + 1 /\ deathAt' = deathAt + 1
      /\ UNCHANGED <<phase, heapVars, objs, traceVars, objUpdate, birthUpdate, birthObjects,
                     birthIndex, deathIndex, replays, before, total, class, loop>>

SkipBirth ==
  /\ phase = "deaths" /\ at <= Len(trace) /\ trace[at].birth
  /\ at' = at + 1
  /\ UNCHANGED <<phase, heapVars, objs, traceVars, updateVars, replayVars, total,
                 class, loop, deathAt>>

EndDeaths ==
  /\ phase = "deaths" /\ at > Len(trace)
  /\ phase' = "slots" /\ class' = 1 /\ at' = 1
  /\ UNCHANGED <<heapVars, objs, traceVars, updateVars, replayVars, total, loop, deathAt>>

BuildSlot ==
  LET object == indices[class][at]
      pair == [from |-> object.index, to |-> at]
      place == [vector |-> "birth", index |-> object.index]
  IN  /\ phase = "slots" /\ at <= Len(indices[class])
      /\ \/ /\ ~object.born
            /\ objUpdate' = IF object.index = at THEN objUpdate
                            ELSE [objUpdate EXCEPT ![class] = Append(@, pair)]
            /\ UNCHANGED <<birthUpdate, birthPlaces>>
         \/ /\ object.born
            /\ birthUpdate' = [birthUpdate EXCEPT ![class] = Append(@, pair)]
            /\ birthPlaces' = [birthPlaces EXCEPT ![object.index] = place]
            /\ UNCHANGED objUpdate
      /\ at' = at + 1
      /\ UNCHANGED <<phase, heapVars, objs, traceVars, deathUpdate, replayVars, total,
                     class, loop, deathAt>>

\* The loop goes on to the next class, or is over.
EndSlots ==
  /\ phase = "slots" /\ at > Len(indices[class])
  /\ at' = 1
  /\ \/ class < NumClasses /\ class' = class + 1 /\ UNCHANGED phase
     \/ class = NumClasses /\ class' = 1 /\ phase' = "ready"
  /\ UNCHANGED <<heapVars, objs, traceVars, updateVars, replayVars, total, loop, deathAt>>

-----------------------------------------------------------------------------
(***************************************************************************)
(* ReplayTrace.  A birth stores the address where its death, or the next   *)
(* PrepareNextReplay, will look for it.                                    *)
(***************************************************************************)
NextOp == trace[birthIndex + deathIndex + 1]
InTrace == birthIndex + deathIndex < Len(trace)

StartReplay ==
  /\ phase = "ready" /\ replays < MaxReplays
  /\ birthIndex' = 0 /\ deathIndex' = 0
  /\ replays' = replays + 1 /\ before' = objs
  /\ phase' = "replay"
  /\ UNCHANGED <<heapVars, objs, traceVars, updateVars, birthObjects,
                 deathObjects, total, loopVars>>

ReplayBirth ==
  /\ phase = "replay" /\ InTrace /\ NextOp.birth
  /\ \E p \in Addresses :
       /\ Alloc(p, NextOp.class)
       /\ LET place == birthPlaces[birthIndex + 1]
          IN \/ /\ place.vector = "death"
                /\ deathObjects' = [deathObjects EXCEPT ![place.index] = p]
                /\ UNCHANGED birthObjects
             \/ /\ place.vector = "birth"
                /\ birthObjects' = [birthObjects EXCEPT ![place.index] = p]
                /\ UNCHANGED deathObjects
  /\ birthIndex' = birthIndex + 1
  /\ UNCHANGED <<phase, objs, traceVars, updateVars, deathIndex, replays, before,
                 total, loopVars>>

ReplayDeath ==
  /\ phase = "replay" /\ InTrace /\ ~NextOp.birth
  /\ Dealloc(deathObjects[deathIndex + 1])
  /\ deathIndex' = deathIndex + 1
  /\ UNCHANGED <<phase, allocs, objs, traceVars, updateVars, birthObjects,
                 deathObjects, birthIndex, replays, before, total, loopVars>>

EndReplay ==
  /\ phase = "replay" /\ ~InTrace
  /\ total' = total + births
  /\ phase' = "prepare" /\ class' = 1 /\ loop' = 1 /\ at' = 1
  /\ UNCHANGED <<heapVars, objs, traceVars, updateVars, replayVars, deathAt>>

(***************************************************************************)
(* PrepareNextReplay, class by class: objs is updated in place, pair by    *)
(* pair; then the objects born in the replay are put in their slots; then  *)
(* the objects the next replay will free are looked up.                    *)
(***************************************************************************)
\* Mutants: the new objects are put in place, or the objects to free are
\* looked up, before objs is updated.
LoopOrderBirthsFirst == <<"birth", "obj", "death">>
LoopOrderDeathsFirst == <<"death", "obj", "birth">>

LoopOrder == <<"obj", "birth", "death">>

PrepareObj ==
  /\ phase = "prepare" /\ LoopOrder[loop] = "obj" /\ at <= Len(objUpdate[class])
  /\ LET update == objUpdate[class][at]
     IN  objs' = [objs EXCEPT ![class][update.to] = objs[class][update.from]]
  /\ at' = at + 1
  /\ UNCHANGED <<phase, heapVars, traceVars, updateVars, replayVars, total,
                 class, loop, deathAt>>

PrepareBirth ==
  /\ phase = "prepare" /\ LoopOrder[loop] = "birth" /\ at <= Len(birthUpdate[class])
  /\ LET update == birthUpdate[class][at]
     IN  objs' = [objs EXCEPT ![class][update.to] = birthObjects[update.from]]
  /\ at' = at + 1
  /\ UNCHANGED <<phase, heapVars, traceVars, updateVars, replayVars, total,
                 class, loop, deathAt>>

PrepareDeath ==
  /\ phase = "prepare" /\ LoopOrder[loop] = "death" /\ at <= Len(deathUpdate[class])
  /\ LET update == deathUpdate[class][at]
     IN  deathObjects' = [deathObjects EXCEPT ![update.to] = objs[class][update.from]]
  /\ at' = at + 1
  /\ UNCHANGED <<phase, heapVars, objs, traceVars, updateVars, birthObjects, birthIndex,
                 deathIndex, replays, before, total, class, loop, deathAt>>

Updates ==
  CASE LoopOrder[loop] = "obj" -> objUpdate[class]
    [] LoopOrder[loop] = "birth" -> birthUpdate[class]
    [] LoopOrder[loop] = "death" -> deathUpdate[class]

EndLoop ==
  /\ phase = "prepare" /\ at > Len(Updates)
  /\ at' = 1
  /\ \/ loop < 3 /\ loop' = loop + 1 /\ UNCHANGED <<class, phase>>
     \/ loop = 3 /\ loop' = 1 /\ class < NumClasses /\ class' = class + 1 /\ UNCHANGED phase
     \/ loop = 3 /\ loop' = 1 /\ class = NumClasses /\ class' = 1 /\ phase' = "ready"
  /\ UNCHANGED <<heapVars, objs, traceVars, updateVars, replayVars, total, deathAt>>

(***************************************************************************)
(* The destructor, of the load after its last replay, or of the transient  *)
(* load, which is never recorded.                                          *)
(***************************************************************************)
Destroy ==
  /\ phase = "ready" \/ (phase = "record" /\ trace = <<>>)
  /\ heap' = [p \in Addresses |->
       IF \E c \in Classes : Contains(objs[c], p) THEN 0 ELSE heap[p]]
  /\ phase' = "destroyed"
  /\ UNCHANGED <<allocs, objs, traceVars, updateVars, replayVars, total, loopVars>>

Destroyed == phase = "destroyed" /\ UNCHANGED vars

-----------------------------------------------------------------------------
Record == RecordNext \/ RecordRepair \/ RestoreSnapshot
Build ==
  BuildUpdateVectors \/ BuildDeath \/ SkipBirth \/ EndDeaths \/ BuildSlot \/ EndSlots
PrepareNextReplay == PrepareObj \/ PrepareBirth \/ PrepareDeath \/ EndLoop
Replay == StartReplay \/ ReplayBirth \/ ReplayDeath \/ EndReplay

Next ==
  \/ \E c \in Classes : DoBirth(c)
  \/ SnapshotLiveObjects
  \/ Record \/ Build \/ Replay \/ PrepareNextReplay
  \/ Destroy \/ Destroyed

Spec == Init /\ [][Next]_vars

-----------------------------------------------------------------------------
(***************************************************************************)
(* A replay frees only objects that are allocated, and with the size they  *)
(* were allocated with, although it reads their addresses from a vector    *)
(* that earlier replays and births of this one have filled.                *)
(***************************************************************************)
FreesLiveObject ==
  phase = "replay" /\ InTrace /\ ~NextOp.birth =>
    /\ deathObjects[deathIndex + 1] # Null
    /\ heap[deathObjects[deathIndex + 1]] = NextOp.class

(***************************************************************************)
(* Between two replays the lists hold exactly the allocated objects, each  *)
(* once and under its size, and are as long as after the warm-up: the      *)
(* replays neither leak nor drift away from the steady state, and the      *)
(* destructor frees every object once and leaves none allocated.  Nor does *)
(* total_num_allocated_, of which the allocation rate is made, drift away  *)
(* from the number of calls of alloc_.                                     *)
(***************************************************************************)
Slots(c) == {<<c, i>> : i \in 1 .. Len(objs[c])}
AllSlots == UNION {Slots(c) : c \in Classes}

SteadyState ==
  /\ phase = "ready" =>
       /\ total = allocs
       /\ \A c \in Classes : Len(objs[c]) = Len(snapshot[c])
       /\ \A s \in AllSlots : objs[s[1]][s[2]] \in Addresses
       /\ \A s, t \in AllSlots : s # t => objs[s[1]][s[2]] # objs[t[1]][t[2]]
       /\ \A p \in Addresses, c \in Classes :
            heap[p] = c <=> \E i \in 1 .. Len(objs[c]) : objs[c][i] = p
  /\ phase = "destroyed" => \A p \in Addresses : heap[p] = 0

(***************************************************************************)
(* The recording moves an object only down, from the end of its list, and  *)
(* once one has left its slot no object of the snapshot is found in that   *)
(* slot or a later one.  So every slot that obj_update writes lies below   *)
(* every slot it reads, whatever the order of its pairs.                   *)
(***************************************************************************)
ObjectsMoveDown ==
  \A c \in Classes : \A i \in 1 .. Len(indices[c]) :
    ~indices[c][i].born =>
      /\ i <= indices[c][i].index
      /\ i # indices[c][i].index =>
           \A j \in 1 .. Len(indices[c]) :
             ~indices[c][j].born => j < indices[c][i].index

(***************************************************************************)
(* PrepareNextReplay leaves in each slot the object that the recording     *)
(* left there (empirical.h:263): the one that was in another slot before   *)
(* the replay, or the one born in it.                                      *)
(***************************************************************************)
PrepareFollowsRecording ==
  phase = "ready" /\ replays > 0 =>
    \A s \in AllSlots :
      LET recorded == indices[s[1]][s[2]]
      IN  objs[s[1]][s[2]] = IF recorded.born THEN birthObjects[recorded.index]
                             ELSE before[s[1]][recorded.index]
=============================================================================

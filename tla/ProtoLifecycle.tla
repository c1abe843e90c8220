--------------------------- MODULE ProtoLifecycle ---------------------------
(***************************************************************************)
(* The proto benchmark (proto/benchmark.cc, proto/lifecycle.cc,            *)
(* proto/receiver.h): every iteration makes two messages of each type for  *)
(* each index of the working set, on an arena or on the heap, and runs the *)
(* operations of ProtoPrograms on them, index by index.  A message is the  *)
(* number of its repeated elements, or Dead.                               *)
(***************************************************************************)
EXTENDS Integers, Sequences, FiniteSetsExt

CONSTANTS
  Run,        \* the operations, of ProtoPrograms
  MessageSet, \* what the Set functions do, of ProtoPrograms
  WorkingSet, \* kIterations
  Iterations  \* bound: iterations of the benchmark

Types == 0..9
Slots == {"message", "other"}
Index == 1..WorkingSet
Dead == -1

VARIABLES
  arena,     \* TRUE: BM_Protogen_Arena, FALSE: BM_Protogen_NoArena
  object,    \* [Index -> [Types -> [Slots -> elements]]]
  string,    \* [Index -> [Types -> elements]]: the serialized messages
  heap,      \* the messages on the heap
  phase,     \* "init", "run" or "done"
  i, pc,
  work,      \* the elements the operations of an iteration handled
  reference, \* what the first iteration did
  iteration

vars == <<arena, object, string, heap, phase, i, pc, work, reference, iteration>>

kMaxValueStringSize == 2^20

\* What s->substr(0, n) of the longest string asked for is.
SetString(set) == IF set.longest < kMaxValueStringSize THEN set.longest ELSE kMaxValueStringSize

Init ==
  /\ arena \in BOOLEAN
  /\ object = [x \in Index |-> [m \in Types |-> [s \in Slots |-> Dead]]]
  /\ string = [x \in Index |-> [m \in Types |-> 0]]
  /\ heap = 0
  /\ phase = "init" /\ i = 1 /\ pc = 1
  /\ work = 0 /\ reference = 0 /\ iteration = 0

-----------------------------------------------------------------------------
\* Mutant: the serialized messages of the last iteration stay.
InitLifecycleKeepsStrings ==
  /\ phase = "init"
  /\ object' = [x \in Index |-> [m \in Types |->
                  [s \in Slots |-> IF s = "other" THEN MessageSet[m][1].added ELSE 0]]]
  /\ heap' = IF arena THEN heap ELSE heap + 20 * WorkingSet
  /\ phase' = "run" /\ i' = 1 /\ pc' = 1 /\ work' = 0
  /\ UNCHANGED <<arena, string, reference, iteration>>

\* InitMessages for every type, then Set_1 for the other messages.
InitLifecycle ==
  /\ phase = "init"
  /\ object' = [x \in Index |-> [m \in Types |->
                  [s \in Slots |-> IF s = "other" THEN MessageSet[m][1].added ELSE 0]]]
  /\ string' = [x \in Index |-> [m \in Types |-> 0]]
  /\ heap' = IF arena THEN heap ELSE heap + 20 * WorkingSet
  /\ phase' = "run" /\ i' = 1 /\ pc' = 1 /\ work' = 0
  /\ UNCHANGED <<arena, reference, iteration>>

At(op) == phase = "run" /\ pc <= Len(Run) /\ Run[pc][1] = op
m_ == Run[pc][2]
slot == Run[pc][3]
self == object[i][m_][slot]
other == object[i][m_]["other"]

\* Writes the message the operation is on.
Write(elements, handled) ==
  /\ object' = [object EXCEPT ![i][m_][slot] = elements]
  /\ work' = work + handled
  /\ pc' = pc + 1
  /\ UNCHANGED <<arena, phase, i, reference, iteration>>

Empty == At("Empty") /\ Write(0, 0) /\ UNCHANGED <<string, heap>>

Set ==
  /\ At("Set")
  /\ LET set == MessageSet[m_][Run[pc][4]]
     IN  Write(self + set.added, set.added + SetString(set))
  /\ UNCHANGED <<string, heap>>

Copy == At("Copy") /\ Write(other, other) /\ UNCHANGED <<string, heap>>

Merge == At("Merge") /\ Write(self + other, other) /\ UNCHANGED <<string, heap>>

Swap ==
  /\ At("Swap")
  /\ object' = [object EXCEPT ![i][m_] = [s \in Slots |-> IF s = "other" THEN self ELSE other]]
  /\ work' = work + self + other
  /\ pc' = pc + 1
  /\ UNCHANGED <<arena, phase, i, reference, iteration, string, heap>>

Serialize ==
  /\ At("Serialize")
  /\ string' = [string EXCEPT ![i][m_] = self]
  /\ Write(self, self) /\ UNCHANGED heap

Deserialize ==
  /\ At("Deserialize")
  /\ Write(string[i][m_], string[i][m_]) /\ UNCHANGED <<string, heap>>

Use == At("Use") /\ Write(self, self) /\ UNCHANGED <<string, heap>>

\* A message of an arena is left to the arena.
Destroy ==
  /\ At("Destroy")
  /\ IF arena THEN Write(self, 0) /\ UNCHANGED heap
     ELSE Write(Dead, 0) /\ heap' = heap - 1
  /\ UNCHANGED string

\* Mutant: a new message is only made on an arena.
NewOnArena ==
  /\ At("New")
  /\ Write(IF arena THEN 0 ELSE self, 0)
  /\ UNCHANGED <<string, heap>>

\* Arena::Create: on the heap without an arena.
New ==
  /\ At("New")
  /\ Write(0, 0)
  /\ heap' = IF arena THEN heap ELSE heap + 1
  /\ UNCHANGED string

NextIndex ==
  /\ phase = "run" /\ pc > Len(Run) /\ i < WorkingSet
  /\ i' = i + 1 /\ pc' = 1
  /\ UNCHANGED <<arena, object, string, heap, phase, work, reference, iteration>>

\* The arena of the iteration goes out of scope, with its messages.
EndOfIteration ==
  /\ phase = "run" /\ pc > Len(Run) /\ i = WorkingSet
  /\ object' = IF arena THEN [x \in Index |-> [m \in Types |-> [s \in Slots |-> Dead]]]
               ELSE object
  /\ iteration' = iteration + 1
  /\ reference' = IF iteration = 0 THEN work ELSE reference
  /\ phase' = IF iteration' < Iterations THEN "init" ELSE "done"
  /\ UNCHANGED <<arena, string, heap, i, pc, work>>

Next ==
  \/ InitLifecycle \/ Empty \/ Set \/ Copy \/ Merge \/ Swap \/ Serialize \/ Deserialize \/ Use
  \/ Destroy \/ New \/ NextIndex \/ EndOfIteration

Spec == Init /\ [][Next]_vars

-----------------------------------------------------------------------------
\* The variables are of their types.
TypeOK ==
  /\ arena \in BOOLEAN
  /\ object \in [Index -> [Types -> [Slots -> Nat \union {Dead}]]]
  /\ string \in [Index -> [Types -> Nat]]
  /\ heap \in Nat
  /\ phase \in {"init", "run", "done"}
  /\ i \in Index /\ pc \in 1..(Len(Run) + 1)
  /\ iteration \in 0..Iterations

\* lifecycle.cc:103, receiver.h:105: no operation is on a message that was
\* destroyed and not made again, with and without an arena.
NoUseAfterDestroy ==
  phase = "run" /\ pc <= Len(Run) /\ Run[pc][1] # "New" =>
    /\ self # Dead
    /\ Run[pc][1] \in {"Copy", "Merge", "Swap"} => other # Dead

\* lifecycle.cc:103, benchmark.cc:47: without an arena nobody frees what a
\* pointer that is overwritten pointed to, and the destructor frees nothing:
\* every message on the heap is one a pointer still has, and an iteration
\* leaves none.
NothingLeaks ==
  /\ heap = IF arena THEN 0
            ELSE Cardinality({<<x, m, s>> \in Index \X Types \X Slots : object[x][m][s] # Dead})
  /\ phase \in {"init", "done"} => heap = 0

\* lifecycle.cc:103: Set and Merge add to repeated fields and nothing takes
\* away; still no message ever has more elements than three of the largest
\* Set of its type add.
GrowthBounded ==
  \A x \in Index, m \in Types, s \in Slots :
    object[x][m][s] <= 3 * Max({MessageSet[m][j].added : j \in DOMAIN MessageSet[m]})

\* benchmark.cc:38: the lifecycle is one object for all iterations; what an
\* iteration leaves in it (the serialized strings) changes nothing in the
\* next, which does the work the first one did.
IterationsAlike == phase = "done" => work = reference
=============================================================================

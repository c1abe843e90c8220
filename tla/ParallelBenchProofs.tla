------------------------ MODULE ParallelBenchProofs -------------------------
(***************************************************************************)
(* Proofs about the parallel runner, for any CPUs, benchmarks, thread      *)
(* counts, bounds and outcomes of a run: the locks and who waits for whom, *)
(* the runs of a trial, and the refinement of RunLifecycle.                *)
(***************************************************************************)
EXTENDS ParallelBenchRefinement, SequenceTheorems, FiniteSetTheorems, TLAPS

(***************************************************************************)
(* How the program counters constrain the other variables.                 *)
(***************************************************************************)
Shape ==
  /\ \A w \in Cpus : wpc[w] \in {"get", "exited"} <=> task[w] = Empty
  /\ \A w \in Cpus : wpc[w] = "release" => TaskExtra(w) # {}
  /\ cpc = "undoRelease" => extra # {}
  /\ extra # {} => cpc \in {"place", "undo", "undoRelease"}
  /\ cpc \in {"place", "undo", "undoRelease"} => todo # <<>>
  /\ cpc = "stopGet" => toVisit # <<>>

(***************************************************************************)
(* With affinity, a thread's CPUs are its own and, from the start of a run *)
(* to the reset of the affinity, those the run has reserved.               *)
(***************************************************************************)
MaskShape ==
  Affinity =>
    \A w \in Cpus :
      mask[w] = IF wpc[w] \in {"exec", "unwind", "dead"}
                THEN {w} \cup TaskExtra(w) ELSE {w}

(***************************************************************************)
(* The runs in the system have ids that were handed out.                   *)
(***************************************************************************)
IdsIssued ==
  \A w \in Cpus :
    /\ cmd[w] \in Task => cmd[w].run < nextRunId
    /\ task[w] \in Task => task[w].run < nextRunId

IndInv ==
  /\ TypeOK /\ Shape /\ LockOwned /\ FlagMeansReserved
  /\ MaskShape /\ IdsIssued /\ WaitsForLater

-----------------------------------------------------------------------------
(***************************************************************************)
(* The next extra worker to unblock is one of them.                        *)
(***************************************************************************)
LEMMA NextExtraIn ==
  ASSUME NEW S, S # {}
  PROVE  NextExtra(S) \in S
BY DEF NextExtra

(***************************************************************************)
(* The bounded functions the model draws its sequences from are sequences. *)
(***************************************************************************)
LEMMA FunctionIsSeq ==
  ASSUME NEW S, NEW n \in Nat, NEW f \in [1 .. n -> S]
  PROVE  f \in Seq(S)
BY SeqDef

(***************************************************************************)
(* What _SelectNextBenchmarks returns is a list of benchmarks.             *)
(***************************************************************************)
LEMMA SelectionIsSeq ==
  ASSUME NEW count \in Nat, NEW s \in SelectNextBenchmarks(count)
  PROVE  s \in Seq(Benchmarks)
<1>1. BenchmarkList \in Seq(Benchmarks) /\ Len(BenchmarkList) \in Nat
  BY ControllerAssumption, LenProperties
<1>2. CASE firstRun /\ count > Len(BenchmarkList)
  <2>1. PICK t \in [1 .. (count - Len(BenchmarkList)) -> Benchmarks] :
          s = BenchmarkList \o t
    BY <1>2 DEF SelectNextBenchmarks
  <2>2. count - Len(BenchmarkList) \in Nat
    BY <1>1, <1>2
  <2>3. t \in Seq(Benchmarks)
    BY <2>2, FunctionIsSeq
  <2> QED BY <1>1, <2>1, <2>3, ConcatProperties
<1>3. CASE ~(firstRun /\ count > Len(BenchmarkList))
  BY <1>3, FunctionIsSeq DEF SelectNextBenchmarks
<1> QED BY <1>2, <1>3

(***************************************************************************)
(* A step of the thread of worker w preserves the types.                   *)
(***************************************************************************)
LEMMA WorkerTypes ==
  ASSUME TypeOK, Shape, NEW w \in Cpus, WorkerNext(w)
  PROVE  TypeOK'
<1>0. UNCHANGED controlVars /\ WorkerTypeOK
  BY DEF WorkerNext, TypeOK
<1>1. SUFFICES WorkerTypeOK'
  BY <1>0 DEF TypeOK, controlVars, placeVars, recordVars
<1>2. wpc[w] \notin {"get", "exited"} => task[w] \in Task
  BY <1>0 DEF Shape, WorkerTypeOK
<1> USE DEF WorkerTypeOK, WorkerPCs
<1>3. CASE Get(w)
  BY <1>0, <1>3 DEF Get
<1>4. CASE GetStop(w)
  BY <1>0, <1>4 DEF GetStop
<1>5. CASE Acquire(w)
  <2>1. task[w] \in Task
    BY <1>2, <1>5 DEF Acquire
  <2>2. {w} \cup task[w].extra \in SUBSET Cpus
    BY <2>1 DEF Task
  <2> QED BY <1>0, <1>5, <2>2 DEF Acquire
<1>6. CASE Execute(w)
  <2>1. task[w] \in Task
    BY <1>2, <1>6 DEF Execute
  <2>2. PICK rc \in Outcomes \ {"raised"} :
          resQ' = [resQ EXCEPT ![w] = Append(@,
             [run |-> task[w].run, benchmark |-> task[w].benchmark, rc |-> rc])]
    BY <1>6 DEF Execute
  <2>3. [run |-> task[w].run, benchmark |-> task[w].benchmark, rc |-> rc] \in Result
    BY <2>1, ConstantsAssumption DEF Task, Result
  <2> QED BY <1>0, <1>6, <2>2, <2>3 DEF Execute
<1>7. CASE ExecuteRaises(w)
  BY <1>0, <1>7 DEF ExecuteRaises
<1>8. CASE ResetAffinity(w)
  BY <1>0, <1>8 DEF ResetAffinity
<1>9. CASE UnblockExtra(w)
  BY <1>0, <1>9 DEF UnblockExtra, Unblock
<1>10. CASE ReleaseExtra(w)
  <2>1. task[w] \in Task
    BY <1>2, <1>10 DEF ReleaseExtra
  <2>2. [task[w] EXCEPT !.extra = @ \ {NextExtra(@)}] \in Task
    BY <2>1 DEF Task
  <2> QED BY <1>0, <1>10, <2>2 DEF ReleaseExtra, Unblock
<1>11. CASE ReleaseOwn(w)
  BY <1>0, <1>11 DEF ReleaseOwn
<1> QED
  BY <1>3, <1>4, <1>5, <1>6, <1>7, <1>8, <1>9, <1>10, <1>11
  DEF WorkerNext, WorkerStep

(***************************************************************************)
(* A step of the controller preserves the types.                           *)
(***************************************************************************)
LEMMA ControllerTypes ==
  ASSUME TypeOK, Shape, Controller
  PROVE  TypeOK'
<1> USE DEF TypeOK, WorkerTypeOK, ControllerPCs, workerVars, placeVars, recordVars
<1>0. CpuList \in Seq(Cpus)
  BY ControllerAssumption
<1>1. CASE PreRun
  BY <1>1 DEF PreRun, StartWorkers, All, StartMask, WorkerPCs
<1>2. CASE TimeUp
  BY <1>0, <1>2 DEF TimeUp
<1>3. CASE Sample
  <2>1. PICK u \in [Cpus -> Levels], count \in 0 .. N :
          /\ cursor' \in LeastBusyOrders(u)
          /\ todo' \in SelectNextBenchmarks(count)
          /\ firstRun' = (firstRun /\ count = 0)
    BY <1>3 DEF Sample
  <2>2. N \in Nat /\ count \in Nat
    BY <1>0, LenProperties DEF N
  <2>3. cursor' \in Seq(Cpus)
    BY <2>1, <2>2, FunctionIsSeq DEF LeastBusyOrders
  <2>4. todo' \in Seq(Benchmarks)
    BY <2>1, <2>2, SelectionIsSeq
  <2>5. firstRun' \in BOOLEAN
    BY <2>1
  <2>6. /\ skipped' = <<>> /\ cpc' = "pick"
        /\ UNCHANGED <<workerVars, rep, nextRunId, toVisit, required, extra, recordVars>>
    BY <1>3 DEF Sample
  <2>7. skipped' \in Seq(Cpus) /\ cpc' \in ControllerPCs
    BY <2>6
  <2> QED BY <2>3, <2>4, <2>5, <2>6, <2>7
<1>4. CASE PickBenchmark
  <2>1. Head(todo) \in Benchmarks
    BY <1>4 DEF PickBenchmark
  <2>2. ThreadsOf(Head(todo)) \in Int
    BY <2>1, ControllerAssumption DEF ThreadsOf
  <2> QED BY <1>4, <2>2, ConcatProperties DEF PickBenchmark
<1>5. CASE PickDone
  BY <1>0, <1>5 DEF PickDone
<1>6. CASE Reserve
  BY <1>6, HeadTailProperties DEF Reserve, Block
<1>7. CASE Dispatch
  <2>1. todo # <<>> /\ Head(todo) \in Benchmarks
    BY <1>7, HeadTailProperties DEF Dispatch, Shape
  <2>2. [run |-> nextRunId, benchmark |-> Head(todo), extra |-> extra] \in Task
    BY <2>1 DEF Task
  <2> QED BY <1>7, <2>1, <2>2, HeadTailProperties DEF Dispatch, AddRun
<1>8. CASE SkipCpu
  BY <1>8, HeadTailProperties DEF SkipCpu
<1>9. CASE GiveUp
  BY <1>9 DEF GiveUp
<1>10. CASE UndoReserve
  BY <1>10 DEF UndoReserve, Unblock
<1>11. CASE UndoRelease
  BY <1>11 DEF UndoRelease, Unblock
<1>12. CASE UndoDone
  <2>1. todo # <<>>
    BY <1>12 DEF UndoDone, Shape
  <2> QED BY <1>12, <2>1, HeadTailProperties DEF UndoDone
<1>13. CASE CollectResult
  <2> DEFINE w == Head(toVisit)
             r == Head(resQ[w])
  <2>1. /\ toVisit # <<>> /\ resQ[w] # <<>> /\ r # None
        /\ resQ' = [resQ EXCEPT ![w] = Tail(@)]
        /\ \/ failed' = failed \cup {r} /\ UNCHANGED runtimes
           \/ Record(r) /\ UNCHANGED failed
    BY <1>13 DEF CollectResult
  <2>2. w \in Cpus
    BY <2>1, HeadTailProperties
  <2>3. resQ[w] \in Seq(Result \cup {None})
    BY <2>2
  <2>4. r \in Result /\ Tail(resQ[w]) \in Seq(Result \cup {None})
    BY <2>1, <2>3, HeadTailProperties
  <2>5. resQ' \in [Cpus -> Seq(Result \cup {None})]
    BY <2>1, <2>4
  <2>6. failed' \in SUBSET Result /\ runtimes' \in [Benchmarks -> SUBSET Result]
    BY <2>1, <2>4 DEF Record
  <2> QED BY <1>13, <2>5, <2>6 DEF CollectResult
<1>14. CASE CollectNext
  <2>1. toVisit' \in Seq(Cpus)
    BY <1>14, HeadTailProperties DEF CollectNext
  <2>2. UNCHANGED <<workerVars, cpc, rep, firstRun, nextRunId, todo, placeVars, recordVars>>
    BY <1>14, Zenon DEF CollectNext
  <2> QED BY <2>1, <2>2
<1>19. CASE CollectDone
  BY <1>19 DEF CollectDone
<1>15. CASE StopPut
  BY <1>15 DEF StopPut, AddRun
<1>16. CASE StopGetResult \/ StopGetNone
  <2> DEFINE w == Head(toVisit)
  <2>1. /\ toVisit # <<>> /\ resQ[w] # <<>>
        /\ resQ' = [resQ EXCEPT ![w] = Tail(@)]
    BY <1>16 DEF StopGetResult, StopGetNone, Shape
  <2>2. w \in Cpus /\ Tail(toVisit) \in Seq(Cpus)
    BY <2>1, HeadTailProperties
  <2>3. resQ[w] \in Seq(Result \cup {None})
    BY <2>2
  <2>4. /\ Head(resQ[w]) \in Result \cup {None}
        /\ Tail(resQ[w]) \in Seq(Result \cup {None})
    BY <2>1, <2>3, HeadTailProperties
  <2>5. resQ' \in [Cpus -> Seq(Result \cup {None})]
    BY <2>1, <2>4
  <2>6. CASE StopGetResult
    <3>1. runtimes' \in [Benchmarks -> SUBSET Result]
      BY <2>4, <2>6 DEF StopGetResult, Record
    <3> QED BY <2>5, <2>6, <3>1 DEF StopGetResult
  <2>7. CASE StopGetNone
    BY <2>2, <2>5, <2>7 DEF StopGetNone
  <2> QED BY <1>16, <2>6, <2>7
<1>17. CASE StopDone
  BY <1>17 DEF StopDone
<1>18. CASE Join
  BY <1>18 DEF Join
<1> QED
  BY <1>1, <1>2, <1>3, <1>4, <1>5, <1>6, <1>7, <1>8, <1>9, <1>10, <1>11, <1>12,
     <1>13, <1>14, <1>15, <1>16, <1>17, <1>18, <1>19
  DEF Controller, Place, Undo, Collect, Stop

-----------------------------------------------------------------------------
(***************************************************************************)
(* What a step does to the claims on locks: the variables they depend on.  *)
(***************************************************************************)
claimVars == <<cmd, lock, inUse, wpc, task, mask, extra, nextRunId>>

(***************************************************************************)
(* The controller's steps that touch no worker and no reservation.         *)
(***************************************************************************)
Quiet ==
  \/ TimeUp \/ Sample \/ PickBenchmark \/ PickDone \/ SkipCpu \/ GiveUp \/ UndoDone
  \/ CollectResult \/ CollectNext \/ CollectDone
  \/ StopGetResult \/ StopGetNone \/ StopDone \/ Join

(***************************************************************************)
(* They leave alone everything the locking invariants speak of.            *)
(***************************************************************************)
LEMMA QuietUnchanged ==
  ASSUME Shape, Quiet
  PROVE  UNCHANGED claimVars /\ cpc # "undoRelease" /\ cpc' # "undoRelease"
<1> USE DEF claimVars, workerVars, placeVars, recordVars
<1>1. cpc = "pick" => extra = {}
  BY DEF Shape
<1>2. CASE TimeUp \/ Sample \/ PickBenchmark \/ PickDone
  BY <1>1, <1>2 DEF TimeUp, Sample, PickBenchmark, PickDone
<1>3. CASE SkipCpu \/ GiveUp \/ UndoDone
  BY <1>3 DEF SkipCpu, GiveUp, UndoDone
<1>4. CASE CollectResult
  BY <1>4 DEF CollectResult
<1>5. CASE CollectNext \/ CollectDone
  BY <1>5 DEF CollectNext, CollectDone
<1>6. CASE StopGetResult \/ StopGetNone \/ StopDone \/ Join
  BY <1>6 DEF StopGetResult, StopGetNone, StopDone, Join
<1> QED BY <1>2, <1>3, <1>4, <1>5, <1>6 DEF Quiet

(***************************************************************************)
(* Every step preserves Shape.                                             *)
(***************************************************************************)
LEMMA ShapeStep ==
  ASSUME TypeOK, Shape, [Next]_vars
  PROVE  Shape'
<1> USE DEF workerVars, controlVars, placeVars, recordVars
<1>0. /\ \A w \in Cpus : task[w] \in Task \cup {Empty}
      /\ Empty \notin Task /\ None \notin Task
  BY ConstantsAssumption DEF TypeOK, WorkerTypeOK
<1>1. ASSUME NEW w \in Cpus, WorkerNext(w)
      PROVE  Shape'
  <2>0. UNCHANGED controlVars /\ WorkerStep(w)
    BY <1>1 DEF WorkerNext
  <2>1. \A v \in Cpus \ {w} : wpc'[v] = wpc[v] /\ task'[v] = task[v]
    BY <2>0 DEF TypeOK, WorkerTypeOK, WorkerStep, Get, GetStop, Acquire, Execute,
       ExecuteRaises, ResetAffinity, UnblockExtra, ReleaseExtra, ReleaseOwn
  <2>2. /\ wpc'[w] \in {"get", "exited"} <=> task'[w] = Empty
        /\ wpc'[w] = "release" => TaskExtra(w)' # {}
    <3> USE <1>0, <2>0 DEF TypeOK, WorkerTypeOK, Shape, TaskExtra
    <3>1. CASE Get(w)
      BY <3>1 DEF Get
    <3>2. CASE GetStop(w)
      BY <3>2 DEF GetStop
    <3>3. CASE Acquire(w)
      BY <3>3 DEF Acquire
    <3>4. CASE Execute(w)
      BY <3>4 DEF Execute
    <3>5. CASE ExecuteRaises(w)
      BY <3>5 DEF ExecuteRaises
    <3>6. CASE ResetAffinity(w)
      BY <3>6 DEF ResetAffinity
    <3>7. CASE UnblockExtra(w)
      BY <3>7 DEF UnblockExtra
    <3>8. CASE ReleaseExtra(w)
      <4>1. task[w] \in Task
        BY <3>8 DEF ReleaseExtra
      <4>2. task'[w] \in Task
        <5> DEFINE left == task[w].extra \ {NextExtra(task[w].extra)}
        <5>1. task'[w] = [task[w] EXCEPT !.extra = left]
          BY <3>8 DEF ReleaseExtra
        <5>2. left \in SUBSET Cpus
          BY <4>1 DEF Task
        <5> HIDE DEF left, TypeOK, WorkerTypeOK, Shape
        <5> QED BY ONLY <4>1, <5>1, <5>2 DEF Task
      <4> QED BY <3>8, <4>2 DEF ReleaseExtra
    <3>9. CASE ReleaseOwn(w)
      BY <3>9 DEF ReleaseOwn
    <3> QED
      BY <3>1, <3>2, <3>3, <3>4, <3>5, <3>6, <3>7, <3>8, <3>9 DEF WorkerStep
  <2>3. (\A v \in Cpus : wpc[v] \in {"get", "exited"} <=> task[v] = Empty)'
    BY <2>1, <2>2 DEF Shape
  <2>4. (\A v \in Cpus : wpc[v] = "release" => TaskExtra(v) # {})'
    BY <2>1, <2>2 DEF Shape, TaskExtra
  <2>5. UNCHANGED <<cpc, extra, todo, toVisit>>
    BY <2>0
  <2>6. /\ cpc' = "undoRelease" => extra' # {}
        /\ extra' # {} => cpc' \in {"place", "undo", "undoRelease"}
        /\ cpc' \in {"place", "undo", "undoRelease"} => todo' # <<>>
        /\ cpc' = "stopGet" => toVisit' # <<>>
    BY <2>5 DEF Shape
  <2> QED BY <2>3, <2>4, <2>6 DEF Shape
<1>2. CASE Controller
  <2>1. CASE Quiet
    <3>1. UNCHANGED claimVars /\ cpc' # "undoRelease"
      BY <2>1, QuietUnchanged
    <3>2. /\ extra' # {} => cpc' \in {"place", "undo", "undoRelease"}
          /\ cpc' \in {"place", "undo", "undoRelease"} => todo' # <<>>
          /\ cpc' = "stopGet" => toVisit' # <<>>
      <4>1. CASE TimeUp \/ Sample \/ PickBenchmark \/ PickDone
        BY <4>1 DEF Shape, TimeUp, Sample, PickBenchmark, PickDone
      <4>2. CASE SkipCpu \/ GiveUp \/ UndoDone
        BY <4>2 DEF Shape, SkipCpu, GiveUp, UndoDone
      <4>3. CASE CollectResult
        BY <4>3 DEF Shape, CollectResult
      <4>4. CASE CollectNext \/ CollectDone
        BY <4>4 DEF Shape, CollectNext, CollectDone
      <4>5. CASE StopGetResult \/ StopGetNone \/ StopDone \/ Join
        BY <4>5 DEF Shape, StopGetResult, StopGetNone, StopDone, Join
      <4> QED BY <2>1, <4>1, <4>2, <4>3, <4>4, <4>5 DEF Quiet
    <3> QED BY <3>1, <3>2 DEF Shape, claimVars, TaskExtra
  <2>2. CASE PreRun
    BY <2>2 DEF PreRun, StartWorkers, All, TaskExtra, Shape
  <2>3. CASE Reserve \/ Dispatch
    BY <2>3 DEF Reserve, Dispatch, TaskExtra, Shape
  <2>4. CASE UndoReserve \/ UndoRelease
    BY <2>4 DEF UndoReserve, UndoRelease, TaskExtra, Shape
  <2>5. CASE StopPut
    BY <2>5 DEF StopPut, TaskExtra, Shape
  <2> QED
    BY <1>2, <2>1, <2>2, <2>3, <2>4, <2>5
    DEF Controller, Place, Undo, Collect, Stop, Quiet
<1>3. CASE UNCHANGED vars
  BY <1>3 DEF vars, Shape, TaskExtra
<1> QED BY <1>1, <1>2, <1>3 DEF Next, Terminated

-----------------------------------------------------------------------------
(***************************************************************************)
(* LockOwned and WaitsForLater, written out CPU by CPU.                    *)
(***************************************************************************)
LockOwnedAt(x) ==
  /\ \A v, w \in Cpus :
       /\ x \in TaskExtra(v) /\ x \in TaskExtra(w) => v = w
       /\ x \in QueueExtra(v) /\ x \in QueueExtra(w) => v = w
       /\ ~(x \in TaskExtra(v) /\ x \in QueueExtra(w))
  /\ x \in extra => \A w \in Cpus : x \notin TaskExtra(w) /\ x \notin QueueExtra(w)
  /\ InLock(x) => lock[x] /\ ~Reserved(x)
  /\ Reserved(x) => lock[x]

WaitsForLaterAt(x) ==
  \A w \in Cpus :
    /\ cmd[x] \in Task /\ x \in QueueExtra(w) => cmd[x].run < cmd[w].run
    /\ wpc[x] = "lock" /\ x \in QueueExtra(w) => task[x].run < cmd[w].run
    /\ wpc[w] \in {"lock", "exec", "dead"} /\ x \in TaskExtra(w) =>
         /\ cmd[x] \in Task => cmd[x].run < task[w].run
         /\ wpc[x] = "lock" => task[x].run < task[w].run

(***************************************************************************)
(* The extra workers of a run are workers.                                 *)
(***************************************************************************)
LEMMA ExtrasAreCpus ==
  ASSUME TypeOK
  PROVE  /\ extra \subseteq Cpus
         /\ \A w \in Cpus : QueueExtra(w) \subseteq Cpus /\ TaskExtra(w) \subseteq Cpus
BY DEF TypeOK, QueueExtra, TaskExtra, Task

(***************************************************************************)
(* The two forms of LockOwned agree.                                       *)
(***************************************************************************)
LEMMA LockOwnedIff ==
  ASSUME TypeOK
  PROVE  LockOwned <=> \A x \in Cpus : LockOwnedAt(x)
<1>1. /\ \A w \in Cpus : /\ Claims(<<"self", w>>) = IF InLock(w) THEN {w} ELSE {}
                         /\ Claims(<<"queue", w>>) = QueueExtra(w)
                         /\ Claims(<<"task", w>>) = TaskExtra(w)
      /\ Claims(<<"controller">>) = extra
  BY DEF Claims
<1>2. \A o \in Owners : \/ o = <<"controller">>
                       \/ \E w \in Cpus : \/ o = <<"self", w>> \/ o = <<"queue", w>>
                                          \/ o = <<"task", w>>
  BY DEF Owners
<1>3. ASSUME LockOwned, NEW x \in Cpus
      PROVE  LockOwnedAt(x)
  <2>1. \A o1, o2 \in Owners : o1 # o2 => ~(x \in Claims(o1) /\ x \in Claims(o2))
    BY <1>3 DEF LockOwned
  <2>2. \A o \in Owners : x \in Claims(o) => lock[x]
    BY <1>3 DEF LockOwned
  <2>3. \A w \in Cpus : /\ <<"self", w>> \in Owners /\ <<"queue", w>> \in Owners
                       /\ <<"task", w>> \in Owners /\ <<"controller">> \in Owners
    BY DEF Owners
  <2>4. \A v, w \in Cpus :
          /\ x \in TaskExtra(v) /\ x \in TaskExtra(w) => v = w
          /\ x \in QueueExtra(v) /\ x \in QueueExtra(w) => v = w
          /\ ~(x \in TaskExtra(v) /\ x \in QueueExtra(w))
    BY <1>1, <2>1, <2>3
  <2>5. x \in extra => \A w \in Cpus : x \notin TaskExtra(w) /\ x \notin QueueExtra(w)
    BY <1>1, <2>1, <2>3
  <2>6. InLock(x) => lock[x] /\ ~Reserved(x)
    BY <1>1, <2>1, <2>2, <2>3 DEF Reserved
  <2>7. Reserved(x) => lock[x]
    BY <1>1, <2>2, <2>3 DEF Reserved
  <2> QED BY <2>4, <2>5, <2>6, <2>7 DEF LockOwnedAt
<1>4. ASSUME \A x \in Cpus : LockOwnedAt(x)
      PROVE  LockOwned
  <2>1. ASSUME NEW o1 \in Owners, NEW o2 \in Owners, o1 # o2,
               NEW x, x \in Claims(o1), x \in Claims(o2)
        PROVE  FALSE
    <3>1. x \in Cpus
      BY <1>1, <1>2, <2>1, ExtrasAreCpus
    <3>2. LockOwnedAt(x)
      BY <1>4, <3>1
    <3>3. CASE o1 = <<"controller">>
      BY <1>1, <1>2, <2>1, <3>2, <3>3 DEF LockOwnedAt, Reserved
    <3>4. ASSUME NEW v \in Cpus, o1 = <<"self", v>>
          PROVE  FALSE
      <4>1. InLock(x) /\ x = v
        BY <1>1, <2>1, <3>4
      <4>2. ~Reserved(x)
        BY <3>2, <4>1 DEF LockOwnedAt
      <4>3. CASE o2 = <<"controller">>
        BY <1>1, <2>1, <4>2, <4>3 DEF Reserved
      <4>4. ASSUME NEW w \in Cpus, o2 = <<"self", w>>
            PROVE  FALSE
        BY <1>1, <2>1, <3>4, <4>1, <4>4
      <4>5. ASSUME NEW w \in Cpus, o2 = <<"queue", w>> \/ o2 = <<"task", w>>
            PROVE  FALSE
        BY <1>1, <2>1, <4>2, <4>5 DEF Reserved
      <4> QED BY <1>2, <4>3, <4>4, <4>5
    <3>5. ASSUME NEW v \in Cpus, o1 = <<"queue", v>> \/ o1 = <<"task", v>>
          PROVE  FALSE
      <4>1. x \in QueueExtra(v) \cup TaskExtra(v)
        BY <1>1, <2>1, <3>5
      <4>2. ~InLock(x) /\ x \notin extra
        BY <3>2, <3>5, <4>1 DEF LockOwnedAt, Reserved
      <4>3. PICK w \in Cpus : o2 = <<"queue", w>> \/ o2 = <<"task", w>>
        BY <1>1, <1>2, <2>1, <4>2
      <4> QED BY <1>1, <2>1, <3>2, <3>5, <4>3 DEF LockOwnedAt
    <3> QED BY <1>2, <2>1, <3>3, <3>4, <3>5
  <2>2. ASSUME NEW o \in Owners, NEW x \in Claims(o)
        PROVE  lock[x]
    <3>1. x \in Cpus
      BY <1>1, <1>2, <2>2, ExtrasAreCpus
    <3>2. InLock(x) \/ Reserved(x)
      BY <1>1, <1>2, <2>2, <3>1 DEF Reserved
    <3> QED BY <1>4, <3>1, <3>2 DEF LockOwnedAt
  <2> QED BY <2>1, <2>2 DEF LockOwned
<1> QED BY <1>3, <1>4

(***************************************************************************)
(* The two forms of WaitsForLater agree.                                   *)
(***************************************************************************)
LEMMA WaitsForLaterIff ==
  WaitsForLater <=> \A x \in Cpus : WaitsForLaterAt(x)
<1>1. ASSUME NEW x \in Cpus
      PROVE  (\A r1 \in Waiting(x), r2 \in ReservedBy(x) : r1 < r2) <=> WaitsForLaterAt(x)
  <2>1. ASSUME NEW r
        PROVE  r \in Waiting(x) <=>
                 \/ cmd[x] \in Task /\ r = cmd[x].run
                 \/ wpc[x] = "lock" /\ r = task[x].run
    <3>1. r \in QueuedRun(x) <=> cmd[x] \in Task /\ r = cmd[x].run
      BY DEF QueuedRun
    <3>2. r \in LockingRun(x) <=> wpc[x] = "lock" /\ r = task[x].run
      BY DEF LockingRun
    <3> QED BY <3>1, <3>2 DEF Waiting
  <2>2. \A r : r \in ReservedBy(x) <=>
          \E w \in Cpus : \/ x \in QueueExtra(w) /\ r = cmd[w].run
                         \/ /\ wpc[w] \in {"lock", "exec", "dead"} /\ x \in TaskExtra(w)
                            /\ r = task[w].run
    BY DEF ReservedBy
  <2> QED BY <2>1, <2>2 DEF WaitsForLaterAt
<1> QED BY <1>1 DEF WaitsForLater

-----------------------------------------------------------------------------
(***************************************************************************)
(* The locking invariants, CPU by CPU.                                     *)
(***************************************************************************)
FlagAt(x) ==
  /\ Reserved(x) => (inUse[x] <=> ~Releasing(x))
  /\ inUse[x] => lock[x] /\ ~InLock(x)

Locking == \A x \in Cpus : LockOwnedAt(x) /\ FlagAt(x)

(***************************************************************************)
(* A step of the thread of worker w preserves the locking invariants.      *)
(***************************************************************************)
LEMMA WorkerLocking ==
  ASSUME TypeOK, Shape, Locking, NEW w \in Cpus, WorkerNext(w)
  PROVE  Locking'
<1>0. /\ UNCHANGED <<extra, cpc>>
      /\ WorkerTypeOK
      /\ Empty \notin Task /\ None \notin Task
  BY ConstantsAssumption DEF WorkerNext, TypeOK, controlVars, placeVars
<1>1. \A v \in Cpus : wpc[v] \notin {"get", "exited"} => task[v] \in Task
  BY <1>0 DEF Shape, WorkerTypeOK
<1>2. wpc[w] \in {"get", "exited"} => TaskExtra(w) = {}
  BY <1>0 DEF Shape, TaskExtra
<1> SUFFICES ASSUME NEW x \in Cpus
             PROVE  LockOwnedAt(x)' /\ FlagAt(x)'
  BY DEF Locking
<1>3. LockOwnedAt(x) /\ FlagAt(x)
  BY DEF Locking
<1>4. ASSUME \A v \in Cpus : wpc'[v] = "release" <=> wpc[v] = "release",
             \A v \in Cpus : wpc[v] = "release" => TaskExtra(v)' = TaskExtra(v)
      PROVE  Releasing(x)' <=> Releasing(x)
  BY <1>0, <1>4 DEF Releasing
<1>5. ASSUME \A v \in Cpus : QueueExtra(v)' = QueueExtra(v) /\ TaskExtra(v)' = TaskExtra(v)
      PROVE  Reserved(x)' <=> Reserved(x)
  BY <1>0, <1>5 DEF Reserved
<1>6. CASE Get(w)
  <2>1. /\ \A v \in Cpus : /\ QueueExtra(v)' = IF v = w THEN {} ELSE QueueExtra(v)
                           /\ TaskExtra(v)' = IF v = w THEN QueueExtra(w) ELSE TaskExtra(v)
        /\ UNCHANGED <<lock, inUse>>
    BY <1>0, <1>6 DEF Get, QueueExtra, TaskExtra, WorkerTypeOK
  <2>2. wpc[w] = "get" /\ wpc' = [wpc EXCEPT ![w] = "lock"]
    BY <1>6 DEF Get
  <2>3. InLock(x)' <=> InLock(x)
    BY <1>0, <2>2 DEF InLock, WorkerTypeOK
  <2>4. Reserved(x)' <=> Reserved(x)
    BY <1>0, <1>2, <2>1, <2>2 DEF Reserved
  <2>5. Releasing(x)' <=> Releasing(x)
    BY <1>0, <1>4, <2>1, <2>2 DEF WorkerTypeOK
  <2> QED BY <1>0, <1>2, <1>3, <2>1, <2>2, <2>3, <2>4, <2>5 DEF LockOwnedAt, FlagAt
<1>7. CASE GetStop(w) \/ Execute(w) \/ ResetAffinity(w)
  <2>1. /\ \A v \in Cpus : QueueExtra(v)' = QueueExtra(v) /\ TaskExtra(v)' = TaskExtra(v)
        /\ UNCHANGED <<lock, inUse>>
    <3>1. CASE GetStop(w)
      BY <1>0, <3>1 DEF GetStop, QueueExtra, TaskExtra, WorkerTypeOK
    <3>2. CASE Execute(w) \/ ResetAffinity(w)
      BY <3>2 DEF Execute, ResetAffinity, QueueExtra, TaskExtra
    <3> QED BY <1>7, <3>1, <3>2
  <2>2. \/ wpc[w] = "get" /\ wpc' = [wpc EXCEPT ![w] = "exited"]
        \/ wpc[w] = "exec" /\ wpc' = [wpc EXCEPT ![w] = "unwind"]
        \/ wpc[w] = "unwind" /\ wpc' = [wpc EXCEPT ![w] = "unblock"]
    BY <1>7 DEF GetStop, Execute, ResetAffinity
  <2>3. InLock(x)' <=> InLock(x)
    BY <1>0, <2>2 DEF InLock, WorkerTypeOK
  <2>4. Reserved(x)' <=> Reserved(x)
    BY <1>5, <2>1
  <2>5. Releasing(x)' <=> Releasing(x)
    BY <1>0, <1>4, <2>1, <2>2 DEF WorkerTypeOK
  <2> QED BY <1>0, <1>3, <2>1, <2>3, <2>4, <2>5 DEF LockOwnedAt, FlagAt
<1>8. CASE Acquire(w)
  <2>1. /\ \A v \in Cpus : QueueExtra(v)' = QueueExtra(v) /\ TaskExtra(v)' = TaskExtra(v)
        /\ UNCHANGED inUse
        /\ ~lock[w] /\ lock' = [lock EXCEPT ![w] = TRUE]
        /\ wpc[w] = "lock" /\ wpc' = [wpc EXCEPT ![w] = "exec"]
    BY <1>8 DEF Acquire, QueueExtra, TaskExtra
  <2>2. InLock(x)' <=> InLock(x) \/ x = w
    BY <1>0, <2>1 DEF InLock, WorkerTypeOK
  <2>3. Reserved(x)' <=> Reserved(x)
    BY <1>5, <2>1
  <2>4. Releasing(x)' <=> Releasing(x)
    BY <1>0, <1>4, <2>1 DEF WorkerTypeOK
  <2>5. lock'[x] <=> lock[x] \/ x = w
    BY <1>0, <2>1 DEF WorkerTypeOK
  <2> QED BY <1>0, <1>3, <2>1, <2>2, <2>3, <2>4, <2>5 DEF LockOwnedAt, FlagAt
<1>9. CASE ExecuteRaises(w)
  <2>1. /\ \A v \in Cpus : QueueExtra(v)' = QueueExtra(v) /\ TaskExtra(v)' = TaskExtra(v)
        /\ UNCHANGED inUse
        /\ lock' = [lock EXCEPT ![w] = FALSE]
        /\ wpc[w] = "exec" /\ wpc' = [wpc EXCEPT ![w] = "dead"]
    BY <1>9 DEF ExecuteRaises, QueueExtra, TaskExtra
  <2>2. InLock(w) /\ (InLock(x)' <=> InLock(x) /\ x # w)
    BY <1>0, <2>1 DEF InLock, WorkerTypeOK
  <2>3. Reserved(x)' <=> Reserved(x)
    BY <1>5, <2>1
  <2>4. Releasing(x)' <=> Releasing(x)
    BY <1>0, <1>4, <2>1 DEF WorkerTypeOK
  <2>5. lock'[x] <=> lock[x] /\ x # w
    BY <1>0, <2>1 DEF WorkerTypeOK
  <2> QED BY <1>0, <1>3, <2>1, <2>2, <2>3, <2>4, <2>5 DEF LockOwnedAt, FlagAt
<1>10. CASE ReleaseOwn(w)
  <2>1. /\ wpc[w] \in {"unwind", "unblock"} /\ wpc' = [wpc EXCEPT ![w] = "get"]
        /\ UNCHANGED inUse
        /\ lock' = [lock EXCEPT ![w] = FALSE]
    BY <1>10 DEF ReleaseOwn
  <2>2. \A v \in Cpus : /\ QueueExtra(v)' = QueueExtra(v)
                       /\ TaskExtra(v)' = IF v = w THEN {} ELSE TaskExtra(v)
    BY <1>0, <1>10 DEF ReleaseOwn, QueueExtra, TaskExtra, WorkerTypeOK
  <2>3. InLock(w) /\ (InLock(x)' <=> InLock(x) /\ x # w)
    BY <1>0, <2>1 DEF InLock, WorkerTypeOK
  <2>4. Reserved(x)' => Reserved(x)
    BY <1>0, <2>2 DEF Reserved
  <2>5. Releasing(x)' <=> Releasing(x)
    BY <1>0, <1>4, <2>1, <2>2 DEF WorkerTypeOK
  <2>6. lock'[x] <=> lock[x] /\ x # w
    BY <1>0, <2>1 DEF WorkerTypeOK
  <2> QED BY <1>0, <1>3, <2>1, <2>2, <2>3, <2>4, <2>5, <2>6 DEF LockOwnedAt, FlagAt
<1>11. CASE UnblockExtra(w)
  <2> DEFINE n == NextExtra(TaskExtra(w))
  <2>1. /\ \A v \in Cpus : QueueExtra(v)' = QueueExtra(v) /\ TaskExtra(v)' = TaskExtra(v)
        /\ UNCHANGED lock
        /\ wpc[w] = "unblock" /\ wpc' = [wpc EXCEPT ![w] = "release"]
    BY <1>11 DEF UnblockExtra, Unblock, QueueExtra, TaskExtra
  <2>2. TaskExtra(w) # {} /\ inUse' = [inUse EXCEPT ![n] = FALSE]
    BY <1>1, <1>11, <2>1 DEF UnblockExtra, Unblock, TaskExtra
  <2>3. InLock(x)' <=> InLock(x)
    BY <1>0, <2>1 DEF InLock, WorkerTypeOK
  <2>4. Reserved(x)' <=> Reserved(x)
    BY <1>5, <2>1
  <2>5. Releasing(x)' <=> Releasing(x) \/ x = n
    BY <1>0, <2>1, <2>2 DEF Releasing, WorkerTypeOK
  <2>6. inUse'[x] <=> inUse[x] /\ x # n
    BY <1>0, <2>2 DEF WorkerTypeOK
  <2> QED BY <1>0, <1>3, <2>1, <2>3, <2>4, <2>5, <2>6 DEF LockOwnedAt, FlagAt
<1>12. CASE ReleaseExtra(w)
  <2> DEFINE n == NextExtra(TaskExtra(w))
  <2>1. /\ UNCHANGED inUse /\ UNCHANGED cmd
        /\ wpc[w] = "release" /\ wpc' = [wpc EXCEPT ![w] = "unblock"]
    BY <1>12 DEF ReleaseExtra, Unblock
  <2>2. task[w] \in Task /\ TaskExtra(w) = task[w].extra
    BY <1>1, <2>1 DEF TaskExtra
  <2>3. lock' = [lock EXCEPT ![n] = FALSE]
    BY <1>12, <2>2 DEF ReleaseExtra, Unblock
  <2>4. task'[w] \in Task /\ task'[w].extra = TaskExtra(w) \ {n}
    BY <1>0, <1>12, <2>2 DEF ReleaseExtra, Task, WorkerTypeOK
  <2>5. \A v \in Cpus : v # w => task'[v] = task[v]
    BY <1>0, <1>12 DEF ReleaseExtra, WorkerTypeOK
  <2>6. \A v \in Cpus : /\ QueueExtra(v)' = QueueExtra(v)
                       /\ TaskExtra(v)' = IF v = w THEN TaskExtra(w) \ {n} ELSE TaskExtra(v)
    BY <2>1, <2>4, <2>5 DEF QueueExtra, TaskExtra
  <2>7. n \in TaskExtra(w)
    BY <2>1, NextExtraIn DEF Shape
  <2>8. InLock(x)' <=> InLock(x)
    BY <1>0, <2>1 DEF InLock, WorkerTypeOK
  <2>9. Reserved(x)' => Reserved(x)
    BY <1>0, <2>6 DEF Reserved
  <2>10. lock'[x] <=> lock[x] /\ x # n
    BY <1>0, <2>3 DEF WorkerTypeOK
  <2>11. CASE x = n
    <3>1. Reserved(x) /\ Releasing(x)
      BY <2>1, <2>7, <2>11 DEF Reserved, Releasing
    <3>2. ~Reserved(x)'
      BY <1>0, <1>3, <2>6, <2>7, <2>11 DEF Reserved, LockOwnedAt
    <3> QED BY <1>3, <2>1, <2>6, <2>8, <2>10, <3>1, <3>2 DEF LockOwnedAt, FlagAt, Reserved
  <2>12. CASE x # n
    <3>1. Releasing(x)' <=> Releasing(x)
      BY <1>0, <2>1, <2>6, <2>12 DEF Releasing, WorkerTypeOK
    <3> QED BY <1>0, <1>3, <2>1, <2>6, <2>8, <2>9, <2>10, <2>12, <3>1 DEF LockOwnedAt, FlagAt
  <2> QED BY <2>11, <2>12
<1> QED
  BY <1>6, <1>7, <1>8, <1>9, <1>10, <1>11, <1>12 DEF WorkerNext, WorkerStep

(***************************************************************************)
(* A step of the controller preserves the locking invariants.              *)
(***************************************************************************)
LEMMA ControllerLocking ==
  ASSUME TypeOK, Shape, Locking, Controller
  PROVE  Locking'
<1>0. /\ WorkerTypeOK /\ Empty \notin Task /\ None \notin Task
      /\ cursor \in Seq(Cpus) /\ toVisit \in Seq(Cpus)
  BY ConstantsAssumption DEF TypeOK
<1> SUFFICES ASSUME NEW x \in Cpus
             PROVE  LockOwnedAt(x)' /\ FlagAt(x)'
  BY DEF Locking
<1>1. LockOwnedAt(x) /\ FlagAt(x)
  BY DEF Locking
<1>2. ASSUME UNCHANGED <<wpc, task>>
      PROVE  /\ \A v \in Cpus : TaskExtra(v)' = TaskExtra(v)
             /\ InLock(x)' <=> InLock(x)
  BY <1>2 DEF TaskExtra, InLock
<1>3. ASSUME UNCHANGED <<wpc, task>>, cpc # "undoRelease", cpc' # "undoRelease"
      PROVE  Releasing(x)' <=> Releasing(x)
  BY <1>2, <1>3 DEF Releasing
<1>4. CASE Quiet
  <2>1. UNCHANGED <<cmd, lock, inUse, wpc, task, extra>>
    BY <1>4, QuietUnchanged DEF claimVars
  <2>2. cpc # "undoRelease" /\ cpc' # "undoRelease"
    BY <1>4, QuietUnchanged
  <2>3. \A v \in Cpus : QueueExtra(v)' = QueueExtra(v)
    BY <2>1 DEF QueueExtra
  <2>4. Reserved(x)' <=> Reserved(x)
    BY <1>2, <2>1, <2>3 DEF Reserved
  <2> QED BY <1>1, <1>2, <1>3, <2>1, <2>2, <2>3, <2>4 DEF LockOwnedAt, FlagAt
<1>5. CASE PreRun
  <2>1. /\ cmd' = [v \in Cpus |-> Empty] /\ task' = [v \in Cpus |-> Empty]
        /\ inUse' = [v \in Cpus |-> FALSE] /\ wpc' = [v \in Cpus |-> "get"]
        /\ extra' = {} /\ cpc' = "top"
    BY <1>5 DEF PreRun, StartWorkers, All, placeVars, Shape
  <2>2. \A v \in Cpus : QueueExtra(v)' = {} /\ TaskExtra(v)' = {}
    BY <1>0, <2>1 DEF QueueExtra, TaskExtra
  <2>3. ~InLock(x)' /\ ~Reserved(x)'
    BY <2>1, <2>2 DEF InLock, Reserved
  <2> QED BY <2>1, <2>2, <2>3 DEF LockOwnedAt, FlagAt
<1>6. CASE Reserve
  <2> DEFINE h == Head(cursor)
  <2>1. /\ ~lock[h] /\ lock' = [lock EXCEPT ![h] = TRUE]
        /\ inUse' = [inUse EXCEPT ![h] = TRUE]
        /\ extra' = extra \cup {h}
        /\ UNCHANGED <<cmd, wpc, task, cpc>> /\ cpc = "place"
    BY <1>6 DEF Reserve, Block, CanBlock
  <2>2. h \in Cpus
    BY <1>0, <1>6, HeadTailProperties DEF Reserve
  <2>3. \A v \in Cpus : QueueExtra(v)' = QueueExtra(v)
    BY <2>1 DEF QueueExtra
  <2>4. Reserved(x)' <=> Reserved(x) \/ x = h
    BY <1>2, <2>1, <2>3 DEF Reserved
  <2>5. /\ lock'[x] <=> lock[x] \/ x = h
        /\ inUse'[x] <=> inUse[x] \/ x = h
    BY <1>0, <2>1 DEF WorkerTypeOK
  <2>6. ~lock[h] /\ Locking
    BY <2>1
  <2>7. ~Reserved(h) /\ ~InLock(h)
    BY <2>2, <2>6 DEF Locking, LockOwnedAt
  <2>8. ~Releasing(h)
    BY <2>1, <2>7, NextExtraIn DEF Releasing, Reserved
  <2>9. Releasing(x)' <=> Releasing(x)
    BY <1>3, <2>1
  <2> QED BY <1>1, <1>2, <2>1, <2>3, <2>4, <2>5, <2>7, <2>8, <2>9
          DEF LockOwnedAt, FlagAt, Reserved
<1>7. CASE Dispatch
  <2> DEFINE h == Head(cursor)
             t == [run |-> nextRunId, benchmark |-> Head(todo), extra |-> extra]
  <2>1. /\ ~inUse[h] /\ cmd[h] = Empty
        /\ cmd' = [cmd EXCEPT ![h] = t]
        /\ extra' = {} /\ cpc = "place" /\ cpc' = "pick"
        /\ UNCHANGED <<lock, inUse, wpc, task>>
    BY <1>7 DEF Dispatch, AddRun, CanAddRun
  <2>2. h \in Cpus
    BY <1>0, <1>7, HeadTailProperties DEF Dispatch
  <2>3. t \in Task
    <3>1. Head(todo) \in Benchmarks
      BY <2>1, HeadTailProperties DEF TypeOK, Shape
    <3> QED BY <3>1 DEF Task, TypeOK
  <2>4. \A v \in Cpus : QueueExtra(v)' = IF v = h THEN extra ELSE QueueExtra(v)
    BY <1>0, <2>1, <2>2, <2>3 DEF QueueExtra, WorkerTypeOK
  <2>5. QueueExtra(h) = {}
    BY <1>0, <2>1 DEF QueueExtra
  <2>6. Reserved(x)' <=> Reserved(x)
    BY <1>2, <2>1, <2>2, <2>4, <2>5 DEF Reserved
  <2> QED BY <1>1, <1>2, <1>3, <2>1, <2>2, <2>4, <2>5, <2>6 DEF LockOwnedAt, FlagAt
<1>8. CASE UndoReserve
  <2> DEFINE n == NextExtra(extra)
  <2>1. /\ extra # {} /\ inUse' = [inUse EXCEPT ![n] = FALSE]
        /\ cpc = "undo" /\ cpc' = "undoRelease"
        /\ UNCHANGED <<cmd, lock, wpc, task, extra>>
    BY <1>8 DEF UndoReserve, Unblock, placeVars
  <2>2. \A v \in Cpus : QueueExtra(v)' = QueueExtra(v)
    BY <2>1 DEF QueueExtra
  <2>3. Reserved(x)' <=> Reserved(x)
    BY <1>2, <2>1, <2>2 DEF Reserved
  <2>4. Releasing(x)' <=> Releasing(x) \/ x = n
    BY <1>2, <2>1 DEF Releasing
  <2>5. inUse'[x] <=> inUse[x] /\ x # n
    BY <1>0, <2>1 DEF WorkerTypeOK
  <2> QED BY <1>1, <1>2, <2>1, <2>2, <2>3, <2>4, <2>5 DEF LockOwnedAt, FlagAt
<1>9. CASE UndoRelease
  <2> DEFINE n == NextExtra(extra)
  <2>1. /\ extra' = extra \ {n} /\ lock' = [lock EXCEPT ![n] = FALSE]
        /\ cpc = "undoRelease" /\ cpc' = "undo"
        /\ UNCHANGED <<cmd, inUse, wpc, task>>
    BY <1>9 DEF UndoRelease, Unblock
  <2>2. extra # {} /\ n \in extra
    BY <2>1, NextExtraIn DEF Shape
  <2>3. \A v \in Cpus : QueueExtra(v)' = QueueExtra(v)
    BY <2>1 DEF QueueExtra
  <2>4. lock'[x] <=> lock[x] /\ x # n
    BY <1>0, <2>1 DEF WorkerTypeOK
  <2>5. CASE x = n
    <3>1. Reserved(x) /\ Releasing(x)
      BY <2>1, <2>2, <2>5 DEF Reserved, Releasing
    <3>2. ~Reserved(x)'
      BY <1>1, <1>2, <2>1, <2>2, <2>3, <2>5 DEF Reserved, LockOwnedAt
    <3> QED BY <1>1, <1>2, <2>1, <2>3, <2>4, <3>1, <3>2 DEF LockOwnedAt, FlagAt, Reserved
  <2>6. CASE x # n
    <3>1. Releasing(x)' <=> Releasing(x)
      BY <1>2, <2>1, <2>6 DEF Releasing
    <3>2. Reserved(x)' <=> Reserved(x)
      BY <1>2, <2>1, <2>3, <2>6 DEF Reserved
    <3> QED BY <1>1, <1>2, <2>1, <2>3, <2>4, <2>6, <3>1, <3>2 DEF LockOwnedAt, FlagAt
  <2> QED BY <2>5, <2>6
<1>10. CASE StopPut
  <2>1. /\ cmd[Head(toVisit)] = Empty /\ cmd' = [cmd EXCEPT ![Head(toVisit)] = None]
        /\ cpc = "stopPut" /\ cpc' = "stopGet"
        /\ UNCHANGED <<lock, inUse, wpc, task, extra>>
    BY <1>10 DEF StopPut, AddRun, placeVars
  <2>2. \A v \in Cpus : QueueExtra(v)' = QueueExtra(v)
    BY <1>0, <2>1 DEF QueueExtra, WorkerTypeOK
  <2>3. Reserved(x)' <=> Reserved(x)
    BY <1>2, <2>1, <2>2 DEF Reserved
  <2> QED BY <1>1, <1>2, <1>3, <2>1, <2>2, <2>3 DEF LockOwnedAt, FlagAt
<1> QED
  BY <1>4, <1>5, <1>6, <1>7, <1>8, <1>9, <1>10
  DEF Controller, Place, Undo, Collect, Stop, Quiet

-----------------------------------------------------------------------------
(***************************************************************************)
(* The thread's affinity is what its task says.                            *)
(***************************************************************************)
LEMMA MaskStep ==
  ASSUME TypeOK, Shape, MaskShape, [Next]_vars
  PROVE  MaskShape'
<1> SUFFICES ASSUME Affinity, NEW x \in Cpus
             PROVE  (mask[x] = IF wpc[x] \in {"exec", "unwind", "dead"}
                               THEN {x} \cup TaskExtra(x) ELSE {x})'
  BY DEF MaskShape
<1>0. /\ WorkerTypeOK /\ Empty \notin Task
      /\ mask[x] = IF wpc[x] \in {"exec", "unwind", "dead"}
                   THEN {x} \cup TaskExtra(x) ELSE {x}
      /\ wpc[x] \notin {"get", "exited"} => task[x] \in Task
  BY ConstantsAssumption DEF TypeOK, MaskShape, Shape, WorkerTypeOK
<1>1. ASSUME UNCHANGED <<wpc, task, mask>>
      PROVE  (mask[x] = IF wpc[x] \in {"exec", "unwind", "dead"}
                        THEN {x} \cup TaskExtra(x) ELSE {x})'
  BY <1>0, <1>1 DEF TaskExtra
<1>2. ASSUME NEW w \in Cpus, WorkerNext(w)
      PROVE  (mask[x] = IF wpc[x] \in {"exec", "unwind", "dead"}
                        THEN {x} \cup TaskExtra(x) ELSE {x})'
  <2>0. WorkerStep(w)
    BY <1>2 DEF WorkerNext
  <2>1. CASE x # w
    <3>1. wpc'[x] = wpc[x] /\ task'[x] = task[x] /\ mask'[x] = mask[x]
      BY <1>0, <2>0, <2>1 DEF WorkerTypeOK, WorkerStep, Get, GetStop, Acquire, Execute,
         ExecuteRaises, ResetAffinity, UnblockExtra, ReleaseExtra, ReleaseOwn
    <3> QED BY <1>0, <3>1 DEF TaskExtra
  <2>2. CASE x = w /\ (Get(w) \/ GetStop(w) \/ UnblockExtra(w))
    BY <1>0, <2>2 DEF WorkerTypeOK, Get, GetStop, UnblockExtra
  <2>3. CASE x = w /\ Acquire(w)
    <3>1. /\ task'[x] = task[x] /\ task[x] \in Task /\ wpc'[x] = "exec"
          /\ mask[x] = {x}
          /\ mask'[x] = IF task[x].extra # {} THEN {x} \cup task[x].extra ELSE mask[x]
      BY <1>0, <2>3 DEF WorkerTypeOK, Acquire
    <3> QED BY <3>1 DEF TaskExtra
  <2>4. CASE x = w /\ (Execute(w) \/ ExecuteRaises(w))
    <3>1. /\ task'[x] = task[x] /\ mask'[x] = mask[x] /\ wpc[x] = "exec"
          /\ wpc'[x] \in {"unwind", "dead"}
      BY <1>0, <2>4 DEF WorkerTypeOK, Execute, ExecuteRaises
    <3> QED BY <1>0, <3>1 DEF TaskExtra
  <2>5. CASE x = w /\ ResetAffinity(w)
    BY <1>0, <2>5 DEF WorkerTypeOK, ResetAffinity
  <2>6. CASE x = w /\ ReleaseExtra(w)
    BY <1>0, <2>6 DEF WorkerTypeOK, ReleaseExtra
  <2>7. CASE x = w /\ ReleaseOwn(w)
    <3>1. mask'[x] = mask[x] /\ wpc'[x] = "get"
      BY <1>0, <2>7 DEF WorkerTypeOK, ReleaseOwn
    <3>2. mask[x] = {x}
      BY <1>0, <2>7 DEF ReleaseOwn, TaskExtra
    <3> QED BY <3>1, <3>2
  <2> QED BY <2>0, <2>1, <2>2, <2>3, <2>4, <2>5, <2>6, <2>7 DEF WorkerStep
<1>3. CASE Controller
  <2>1. CASE PreRun
    BY <2>1 DEF PreRun, StartWorkers, All, StartMask
  <2>2. CASE Quiet
    BY <1>1, <2>2, QuietUnchanged DEF claimVars
  <2>3. CASE Reserve \/ Dispatch \/ UndoReserve \/ UndoRelease \/ StopPut
    BY <1>1, <2>3 DEF Reserve, Dispatch, UndoReserve, UndoRelease, StopPut
  <2> QED BY <1>3, <2>1, <2>2, <2>3 DEF Controller, Place, Undo, Collect, Stop, Quiet
<1>4. CASE UNCHANGED vars
  BY <1>1, <1>4 DEF vars, workerVars
<1> QED BY <1>2, <1>3, <1>4 DEF Next, Terminated

-----------------------------------------------------------------------------
(***************************************************************************)
(* A run waits only for later ones: the new run of Dispatch goes to a      *)
(* worker that is reserved for nobody, and reserves workers whose runs all *)
(* have smaller ids.                                                       *)
(***************************************************************************)
Ordered == IdsIssued /\ \A x \in Cpus : WaitsForLaterAt(x)

Unfinished == {"lock", "exec", "dead"}

(***************************************************************************)
(* A step that adds no run to a queue and starts none keeps the order.     *)
(***************************************************************************)
LEMMA OrderedShrinks ==
  ASSUME Ordered, nextRunId' = nextRunId,
         \A v \in Cpus : cmd'[v] \in Task => cmd'[v] = cmd[v],
         \A v \in Cpus : task'[v] \in Task =>
                          task[v] \in Task /\ task'[v].run = task[v].run,
         \A v \in Cpus : wpc'[v] = "lock" => wpc[v] = "lock" /\ task'[v] = task[v],
         \A v \in Cpus : wpc'[v] \in Unfinished =>
                          wpc[v] \in Unfinished /\ task'[v] = task[v]
  PROVE  Ordered'
<1>1. IdsIssued'
  BY DEF Ordered, IdsIssued
<1>2. ASSUME NEW x \in Cpus
      PROVE  WaitsForLaterAt(x)'
  <2>1. WaitsForLaterAt(x)
    BY DEF Ordered
  <2> QED BY <2>1 DEF WaitsForLaterAt, QueueExtra, TaskExtra, Unfinished
<1> QED BY <1>1, <1>2 DEF Ordered

(***************************************************************************)
(* Every step keeps the order of waiting runs.                             *)
(***************************************************************************)
LEMMA OrderedStep ==
  ASSUME TypeOK, Shape, Locking, Ordered, [Next]_vars
  PROVE  Ordered'
<1>0. /\ WorkerTypeOK /\ Empty \notin Task /\ None \notin Task
      /\ nextRunId \in Nat
      /\ \A v \in Cpus : wpc[v] \notin {"get", "exited"} => task[v] \in Task
      /\ \A v \in Cpus : wpc[v] \in {"get", "exited"} => task[v] = Empty
  BY ConstantsAssumption DEF TypeOK, Shape, WorkerTypeOK
<1>1. \A t \in Task : t.run \in Nat
  BY DEF Task
<1>2. ASSUME UNCHANGED <<cmd, wpc, task, nextRunId>>
      PROVE  Ordered'
  BY <1>2 DEF Ordered, IdsIssued, WaitsForLaterAt, QueueExtra, TaskExtra
<1>3. ASSUME NEW w \in Cpus, WorkerNext(w)
      PROVE  Ordered'
  <2>0. WorkerStep(w) /\ nextRunId' = nextRunId
    BY <1>3 DEF WorkerNext, controlVars
  <2>1. CASE Get(w)
    <3>1. /\ cmd[w] \in Task /\ task[w] = Empty /\ wpc[w] = "get"
          /\ \A v \in Cpus : /\ cmd'[v] = IF v = w THEN Empty ELSE cmd[v]
                             /\ task'[v] = IF v = w THEN cmd[w] ELSE task[v]
                             /\ wpc'[v] = IF v = w THEN "lock" ELSE wpc[v]
      BY <1>0, <2>1 DEF Get, WorkerTypeOK
    <3>2. IdsIssued'
      BY <1>0, <2>0, <3>1 DEF Ordered, IdsIssued
    <3>3. ASSUME NEW x \in Cpus
          PROVE  WaitsForLaterAt(x)'
      <4>1. WaitsForLaterAt(x)
        BY DEF Ordered
      <4>2. \A v \in Cpus :
              /\ QueueExtra(v)' = IF v = w THEN {} ELSE QueueExtra(v)
              /\ TaskExtra(v)' = IF v = w THEN QueueExtra(w) ELSE TaskExtra(v)
        BY <1>0, <3>1 DEF QueueExtra, TaskExtra
      <4>3. x = w => x \notin QueueExtra(w)
        BY <1>1, <3>1, <4>1 DEF WaitsForLaterAt
      <4> QED BY <1>0, <3>1, <4>1, <4>2, <4>3 DEF WaitsForLaterAt
    <3> QED BY <3>2, <3>3 DEF Ordered
  <2>2. CASE GetStop(w)
    BY <1>0, <2>0, <2>2, OrderedShrinks DEF GetStop, WorkerTypeOK, Unfinished
  <2>3. CASE Acquire(w)
    BY <1>0, <2>0, <2>3, OrderedShrinks DEF Acquire, WorkerTypeOK, Unfinished
  <2>4. CASE Execute(w) \/ ExecuteRaises(w)
    <3>1. /\ UNCHANGED <<cmd, task>> /\ wpc[w] = "exec"
          /\ \A v \in Cpus : IF v = w THEN wpc'[v] \in {"unwind", "dead"}
                                       ELSE wpc'[v] = wpc[v]
      BY <1>0, <2>4 DEF Execute, ExecuteRaises, WorkerTypeOK
    <3> QED BY <1>0, <2>0, <3>1, OrderedShrinks DEF Unfinished
  <2>5. CASE ResetAffinity(w)
    BY <1>0, <2>0, <2>5, OrderedShrinks DEF ResetAffinity, WorkerTypeOK, Unfinished
  <2>6. CASE UnblockExtra(w)
    BY <1>0, <2>0, <2>6, OrderedShrinks DEF UnblockExtra, WorkerTypeOK, Unfinished
  <2>7. CASE ReleaseExtra(w)
    <3>1. UNCHANGED cmd /\ wpc[w] = "release" /\ task[w] \in Task
      BY <1>0, <2>7 DEF ReleaseExtra
    <3>2. \A v \in Cpus : v # w => wpc'[v] = wpc[v] /\ task'[v] = task[v]
      BY <1>0, <2>7 DEF ReleaseExtra, WorkerTypeOK
    <3>3. wpc'[w] = "unblock" /\ task'[w].run = task[w].run
      BY <1>0, <2>7, <3>1 DEF ReleaseExtra, WorkerTypeOK, Task
    <3> QED BY <2>0, <3>1, <3>2, <3>3, OrderedShrinks DEF Unfinished
  <2>8. CASE ReleaseOwn(w)
    BY <1>0, <2>0, <2>8, OrderedShrinks DEF ReleaseOwn, WorkerTypeOK, Unfinished
  <2> QED BY <2>0, <2>1, <2>2, <2>3, <2>4, <2>5, <2>6, <2>7, <2>8 DEF WorkerStep
<1>4. CASE Controller
  <2>1. CASE Quiet
    BY <1>2, <2>1, QuietUnchanged DEF claimVars
  <2>2. CASE PreRun
    <3>1. \A v \in Cpus : cmd'[v] = Empty /\ task'[v] = Empty /\ wpc'[v] = "get"
      BY <2>2 DEF PreRun, StartWorkers, All
    <3> QED BY <1>0, <3>1 DEF Ordered, IdsIssued, WaitsForLaterAt, QueueExtra, TaskExtra
  <2>3. CASE Reserve \/ UndoReserve \/ UndoRelease
    BY <1>2, <2>3 DEF Reserve, UndoReserve, UndoRelease
  <2>4. CASE StopPut
    <3>1. /\ cmd' = [cmd EXCEPT ![Head(toVisit)] = None]
          /\ UNCHANGED <<wpc, task, nextRunId>>
      BY <2>4 DEF StopPut, AddRun
    <3> QED BY <1>0, <3>1, OrderedShrinks DEF WorkerTypeOK
  <2>5. CASE Dispatch
    <3> DEFINE h == Head(cursor)
               t == [run |-> nextRunId, benchmark |-> Head(todo), extra |-> extra]
    <3>1. /\ ~inUse[h] /\ cmd[h] = Empty /\ cpc = "place"
          /\ cmd' = [cmd EXCEPT ![h] = t]
          /\ nextRunId' = nextRunId + 1
          /\ UNCHANGED <<wpc, task>>
      BY <2>5 DEF Dispatch, AddRun, CanAddRun
    <3>2. h \in Cpus
      BY <2>5, HeadTailProperties DEF Dispatch, TypeOK
    <3>3. t \in Task /\ t.run = nextRunId /\ t.extra = extra
      <4>1. Head(todo) \in Benchmarks
        BY <3>1, HeadTailProperties DEF TypeOK, Shape
      <4> QED BY <4>1 DEF Task, TypeOK
    <3>4. \A v \in Cpus : cmd'[v] = IF v = h THEN t ELSE cmd[v]
      BY <1>0, <3>1 DEF WorkerTypeOK
    <3>5. IdsIssued'
      BY <1>0, <1>1, <3>1, <3>3, <3>4 DEF Ordered, IdsIssued, WorkerTypeOK
    <3>6. \A v \in Cpus : /\ QueueExtra(v)' = IF v = h THEN extra ELSE QueueExtra(v)
                         /\ TaskExtra(v)' = TaskExtra(v)
      BY <3>1, <3>3, <3>4 DEF QueueExtra, TaskExtra
    <3>7. /\ h \notin extra
          /\ \A v \in Cpus :
               /\ h \notin QueueExtra(v)
               /\ wpc[v] \in Unfinished => h \notin TaskExtra(v)
      <4>1. CASE ~Reserved(h)
        BY <4>1 DEF Reserved
      <4>2. CASE Reserved(h)
        <5>1. LockOwnedAt(h) /\ Releasing(h)
          BY <3>1, <3>2, <4>2 DEF Locking, FlagAt
        <5>2. PICK v \in Cpus : wpc[v] = "release" /\ h \in TaskExtra(v)
          BY <3>1, <5>1, NextExtraIn DEF Releasing
        <5> QED BY <5>1, <5>2 DEF LockOwnedAt, Unfinished
      <4> QED BY <4>1, <4>2
    <3>8. ASSUME NEW x \in Cpus
          PROVE  WaitsForLaterAt(x)'
      <4>1. WaitsForLaterAt(x)
        BY DEF Ordered
      <4>2. /\ cmd[x] \in Task => cmd[x].run < nextRunId
            /\ wpc[x] = "lock" => task[x].run < nextRunId
        BY <1>0 DEF Ordered, IdsIssued
      <4> QED BY <3>1, <3>3, <3>4, <3>6, <3>7, <4>1, <4>2 DEF WaitsForLaterAt, Unfinished
    <3> QED BY <3>5, <3>8 DEF Ordered
  <2> QED
    BY <1>4, <2>1, <2>2, <2>3, <2>4, <2>5
    DEF Controller, Place, Undo, Collect, Stop, Quiet
<1>5. CASE UNCHANGED vars
  BY <1>2, <1>5 DEF vars, workerVars, controlVars
<1> QED BY <1>3, <1>4, <1>5 DEF Next, Terminated

-----------------------------------------------------------------------------
(***************************************************************************)
(* The inductive invariant, as the lemmas above use it.                    *)
(***************************************************************************)
LEMMA IndInvIff ==
  IndInv <=> TypeOK /\ Shape /\ Locking /\ MaskShape /\ Ordered
<1>1. FlagMeansReserved <=> \A x \in Cpus : FlagAt(x)
  BY DEF FlagMeansReserved, FlagAt
<1> QED
  BY <1>1, LockOwnedIff, WaitsForLaterIff DEF IndInv, Locking, Ordered

(***************************************************************************)
(* IndInv is inductive: it holds of a new controller, and every step of    *)
(* every thread keeps it.                                                  *)
(***************************************************************************)
THEOREM IndInvCorrect == Spec => []IndInv
<1>1. Init => IndInv
  <2> SUFFICES ASSUME Init
               PROVE  TypeOK /\ Shape /\ Locking /\ MaskShape /\ Ordered
    BY IndInvIff
  <2>1. /\ \A w \in Cpus : /\ cmd[w] = Empty /\ task[w] = Empty /\ wpc[w] = "get"
                           /\ ~lock[w] /\ ~inUse[w] /\ (Affinity => mask[w] = {w})
        /\ extra = {} /\ cpc = "prerun"
    BY DEF Init, WorkerInit, All, StartMask
  <2>2. Empty \notin Task
    BY ConstantsAssumption
  <2>3. TypeOK
    BY DEF Init, WorkerInit, All, StartMask, TypeOK, WorkerTypeOK, WorkerPCs,
       ControllerPCs
  <2>4. Shape
    BY <2>1 DEF Shape
  <2>5. \A w \in Cpus : QueueExtra(w) = {} /\ TaskExtra(w) = {}
    BY <2>1, <2>2 DEF QueueExtra, TaskExtra
  <2>6. Locking
    BY <2>1, <2>5 DEF Locking, LockOwnedAt, FlagAt, Reserved, InLock
  <2>7. MaskShape
    BY <2>1 DEF MaskShape
  <2>8. Ordered
    BY <2>1, <2>2, <2>5 DEF Ordered, IdsIssued, WaitsForLaterAt
  <2> QED BY <2>3, <2>4, <2>6, <2>7, <2>8
<1>2. IndInv /\ [Next]_vars => IndInv'
  <2> SUFFICES ASSUME IndInv, [Next]_vars
               PROVE  IndInv'
    OBVIOUS
  <2>1. TypeOK /\ Shape /\ Locking /\ MaskShape /\ Ordered
    BY IndInvIff
  <2>2. Shape' /\ MaskShape' /\ Ordered'
    BY <2>1, ShapeStep, MaskStep, OrderedStep
  <2>3. TypeOK' /\ Locking'
    <3>1. ASSUME NEW w \in Cpus, WorkerNext(w)
          PROVE  TypeOK' /\ Locking'
      BY <2>1, <3>1, WorkerTypes, WorkerLocking
    <3>2. CASE Controller
      BY <2>1, <3>2, ControllerTypes, ControllerLocking
    <3>3. CASE UNCHANGED vars
      <4>1. UNCHANGED <<cmd, resQ, lock, inUse, wpc, task, mask>>
        BY <3>3 DEF vars, workerVars
      <4>2. UNCHANGED <<cpc, rep, firstRun, nextRunId, todo, toVisit, skipped, cursor,
                        required, extra, runtimes, failed>>
        BY <3>3 DEF vars, controlVars, placeVars, recordVars
      <4>3. WorkerTypeOK'
        BY <2>1, <4>1 DEF TypeOK, WorkerTypeOK
      <4>4. TypeOK'
        BY <2>1, <4>2, <4>3 DEF TypeOK
      <4>5. Locking'
        BY <2>1, <4>1, <4>2 DEF Locking, LockOwnedAt, FlagAt, Reserved, Releasing,
           InLock, QueueExtra, TaskExtra
      <4> QED BY <4>4, <4>5
    <3> QED BY <3>1, <3>2, <3>3 DEF Next, Terminated
  <2>4. (TypeOK /\ Shape /\ Locking /\ MaskShape /\ Ordered)'
    BY <2>2, <2>3
  <2> QED BY <2>4, IndInvIff, PTL
<1> QED BY <1>1, <1>2, PTL DEF Spec

(***************************************************************************)
(* Types: no thread executes without a task, no loop reads past its list,  *)
(* and the queues only ever hold tasks, results and the stop markers.      *)
(***************************************************************************)
THEOREM TypeCorrect == Spec => []TypeOK
<1>1. IndInv => TypeOK
  BY DEF IndInv
<1> QED BY <1>1, IndInvCorrect, PTL

(***************************************************************************)
(* No Unblock and no end of a "with" block releases a lock that somebody   *)
(* else holds: the worker itself, the run in a queue, the run in a thread  *)
(* and the controller that places a run never share one.                   *)
(***************************************************************************)
THEOREM LocksOwned == Spec => []LockOwned
<1>1. IndInv => LockOwned
  BY DEF IndInv
<1> QED BY <1>1, IndInvCorrect, PTL

(***************************************************************************)
(* The locks and flags of the workers are never out of step: no lock is    *)
(* released that somebody else holds, none is taken twice, and TryAddRun's *)
(* unlocked read of the flag is right except during Unblock.  For any      *)
(* outcomes, with or without affinity.                                     *)
(***************************************************************************)
THEOREM LocksCorrect == Spec => [](LockOwned /\ FlagMeansReserved)
<1>1. IndInv => LockOwned /\ FlagMeansReserved
  BY DEF IndInv
<1> QED BY <1>1, IndInvCorrect, PTL

(***************************************************************************)
(* Runs never wait for each other in a cycle: a run waits only for later   *)
(* ones, however the threads of Worker.run and the placement loop          *)
(* interleave.                                                             *)
(***************************************************************************)
THEOREM NoCircularWait == Spec => []WaitsForLater
<1>1. IndInv => WaitsForLater
  BY DEF IndInv
<1> QED BY <1>1, IndInvCorrect, PTL

(***************************************************************************)
(* With affinity, two benchmark processes never share a CPU.               *)
(***************************************************************************)
THEOREM CpusExclusive == Spec => []CpuExclusive
<1>1. IndInv => CpuExclusive
  <2> SUFFICES ASSUME IndInv, Affinity, NEW v \in Cpus, NEW w \in Cpus,
                      v # w, wpc[v] = "exec", wpc[w] = "exec"
               PROVE  mask[v] \cap mask[w] = {}
    BY DEF CpuExclusive
  <2>1. mask[v] = {v} \cup TaskExtra(v) /\ mask[w] = {w} \cup TaskExtra(w)
    BY DEF IndInv, MaskShape
  <2>2. TypeOK /\ \A x \in Cpus : LockOwnedAt(x)
    BY LockOwnedIff DEF IndInv
  <2>3. InLock(v) /\ InLock(w)
    BY DEF InLock
  <2>4. v \notin TaskExtra(w) /\ w \notin TaskExtra(v)
    BY <2>2, <2>3 DEF LockOwnedAt, Reserved
  <2>5. TaskExtra(v) \cap TaskExtra(w) = {}
    BY <2>2, ExtrasAreCpus DEF LockOwnedAt
  <2> QED BY <2>1, <2>4, <2>5
<1> QED BY <1>1, IndInvCorrect, PTL

-----------------------------------------------------------------------------
(***************************************************************************)
(* The runs of a trial: none is lost, executed twice or settled twice,     *)
(* shutdown leaves nothing behind, and nobody stays blocked for a run that *)
(* is over.                                                                *)
(***************************************************************************)

(***************************************************************************)
(* The places of a run, kind by kind.                                      *)
(***************************************************************************)
InQueue(i) ==
  {<<"queue", w>> : w \in {v \in Cpus : cmd[v] \in Task /\ cmd[v].run = i}}
InThread(i) ==
  {<<"task", w>> : w \in {v \in Cpus : wpc[v] \in Unfinished /\ task[v].run = i}}
InResults(i) ==
  UNION {{<<"results", w, k>> : k \in {j \in 1 .. Len(resQ[w]) :
            resQ[w][j] # None /\ resQ[w][j].run = i}} : w \in Cpus}
InRuntimes(i) ==
  UNION {{<<"runtimes", b, r>> : r \in {s \in runtimes[b] : s.run = i}} :
            b \in Benchmarks}
InFailed(i) == {<<"failed", r>> : r \in {s \in failed : s.run = i}}

Places(i) ==
  InQueue(i) \cup InThread(i) \cup InResults(i) \cup InRuntimes(i) \cup InFailed(i)

(***************************************************************************)
(* Every id handed out in this trial has one place, every other id none.   *)
(***************************************************************************)
Placed(i) == IF i < nextRunId THEN \E p : Places(i) = {p} ELSE Places(i) = {}

RunsOnce == \A i \in Nat : Placed(i)

(***************************************************************************)
(* StopAndGetResults, worker by worker: "live" before its turn, "stopping" *)
(* in its turn, "stopped" after it.                                        *)
(***************************************************************************)
Live(w) ==
  /\ cmd[w] # None /\ wpc[w] # "exited"
  /\ \A k \in 1 .. Len(resQ[w]) : resQ[w][k] # None

Stopping(w) ==
  IF wpc[w] = "exited"
  THEN /\ cmd[w] = Empty /\ resQ[w] # <<>>
       /\ \A k \in 1 .. Len(resQ[w]) : resQ[w][k] = None <=> k = Len(resQ[w])
  ELSE /\ cmd[w] = None
       /\ \A k \in 1 .. Len(resQ[w]) : resQ[w][k] # None

Stopped(w) == wpc[w] = "exited" /\ cmd[w] = Empty /\ resQ[w] = <<>>

(***************************************************************************)
(* The workers have their turns in the order of the list, each once.       *)
(***************************************************************************)
StopOrder ==
  /\ cpc \in {"stopPut", "stopGet"} =>
       /\ \A j, k \in 1 .. Len(toVisit) : toVisit[j] = toVisit[k] => j = k
       /\ \A w \in Cpus :
            IF \E k \in 1 .. Len(toVisit) : toVisit[k] = w
            THEN IF cpc = "stopGet" /\ w = toVisit[1] THEN Stopping(w) ELSE Live(w)
            ELSE Stopped(w)
  /\ cpc \in {"join", "done"} => \A w \in Cpus : Stopped(w)
  /\ cpc = "prerun" =>
       \A w \in Cpus :
         wpc[w] \in {"get", "exited"} /\ cmd[w] = Empty /\ resQ[w] = <<>>
  /\ cpc \notin {"prerun", "stopPut", "stopGet", "join", "done"} =>
       \A w \in Cpus : Live(w)

(***************************************************************************)
(* A lock that is held is held for somebody.                               *)
(***************************************************************************)
HeldForSomebody ==
  (Affinity /\ "raised" \notin Outcomes) =>
    \A x \in Cpus : lock[x] => InLock(x) \/ Reserved(x)

RunsInv == RunsOnce /\ StopOrder /\ HeldForSomebody

-----------------------------------------------------------------------------
(***************************************************************************)
(* When no Execute raises and affinity is on, a step of a thread leaves no *)
(* worker blocked for nobody: a run that ends has given back what it had.  *)
(***************************************************************************)
LEMMA HeldWorker ==
  ASSUME TypeOK, Shape, HeldForSomebody, NEW w \in Cpus, WorkerNext(w)
  PROVE  HeldForSomebody'
<1> SUFFICES ASSUME Affinity, "raised" \notin Outcomes, NEW x \in Cpus, lock'[x]
             PROVE  InLock(x)' \/ Reserved(x)'
  BY DEF HeldForSomebody
<1>0. /\ WorkerTypeOK /\ WorkerStep(w) /\ extra' = extra
      /\ Empty \notin Task /\ None \notin Task
      /\ lock[x] => InLock(x) \/ Reserved(x)
  BY ConstantsAssumption DEF TypeOK, WorkerNext, controlVars, placeVars, HeldForSomebody
<1>1. wpc[w] \notin {"get", "exited"} => task[w] \in Task
  BY <1>0 DEF Shape, WorkerTypeOK
<1>2. ASSUME \A v \in Cpus : QueueExtra(v) \cup TaskExtra(v)
                             \subseteq QueueExtra(v)' \cup TaskExtra(v)'
      PROVE  Reserved(x) => Reserved(x)'
  BY <1>0, <1>2 DEF Reserved
<1>3. CASE Get(w)
  <2>1. \A v \in Cpus : QueueExtra(v) \cup TaskExtra(v)
                          \subseteq QueueExtra(v)' \cup TaskExtra(v)'
    BY <1>0, <1>3 DEF Get, QueueExtra, TaskExtra, WorkerTypeOK, Shape
  <2>2. lock[x] /\ (InLock(x) => InLock(x)')
    BY <1>0, <1>3 DEF Get, InLock, WorkerTypeOK
  <2> QED BY <1>0, <1>2, <2>1, <2>2
<1>4. CASE GetStop(w) \/ Execute(w) \/ ResetAffinity(w)
  <2>1. /\ UNCHANGED <<lock, task>>
        /\ \/ wpc[w] = "get" /\ wpc' = [wpc EXCEPT ![w] = "exited"]
           \/ wpc[w] = "exec" /\ wpc' = [wpc EXCEPT ![w] = "unwind"]
           \/ wpc[w] = "unwind" /\ wpc' = [wpc EXCEPT ![w] = "unblock"]
    BY <1>4 DEF GetStop, Execute, ResetAffinity
  <2>2. \A v \in Cpus : QueueExtra(v)' = QueueExtra(v) /\ TaskExtra(v)' = TaskExtra(v)
    <3>1. CASE GetStop(w)
      BY <1>0, <3>1 DEF GetStop, QueueExtra, TaskExtra, WorkerTypeOK
    <3>2. CASE Execute(w) \/ ResetAffinity(w)
      BY <3>2 DEF Execute, ResetAffinity, QueueExtra, TaskExtra
    <3> QED BY <1>4, <3>1, <3>2
  <2>3. InLock(x) => InLock(x)'
    BY <1>0, <2>1 DEF InLock, WorkerTypeOK
  <2> QED BY <1>0, <1>2, <2>1, <2>2, <2>3
<1>5. CASE Acquire(w)
  <2>1. /\ UNCHANGED <<cmd, task>> /\ wpc' = [wpc EXCEPT ![w] = "exec"]
        /\ wpc[w] = "lock" /\ lock' = [lock EXCEPT ![w] = TRUE]
    BY <1>5 DEF Acquire
  <2>2. Reserved(x) => Reserved(x)'
    BY <1>2, <2>1 DEF QueueExtra, TaskExtra
  <2>3. /\ InLock(x) => InLock(x)'
        /\ x = w => InLock(x)'
        /\ x # w => lock[x]
    BY <1>0, <2>1 DEF InLock, WorkerTypeOK
  <2> QED BY <1>0, <2>2, <2>3
<1>6. CASE ExecuteRaises(w)
  BY <1>6 DEF ExecuteRaises
<1>7. CASE UnblockExtra(w)
  <2>1. /\ UNCHANGED <<cmd, task, lock>> /\ wpc' = [wpc EXCEPT ![w] = "release"]
    BY <1>7 DEF UnblockExtra, Unblock
  <2>2. Reserved(x) => Reserved(x)'
    BY <1>2, <2>1 DEF QueueExtra, TaskExtra
  <2>3. InLock(x) => InLock(x)'
    BY <1>0, <2>1 DEF InLock, WorkerTypeOK
  <2> QED BY <1>0, <2>1, <2>2, <2>3
<1>8. CASE ReleaseExtra(w)
  <2> DEFINE n == NextExtra(task[w].extra)
  <2>1. /\ UNCHANGED cmd /\ wpc' = [wpc EXCEPT ![w] = "unblock"]
        /\ lock' = [lock EXCEPT ![n] = FALSE] /\ wpc[w] = "release"
        /\ task' = [task EXCEPT ![w].extra = @ \ {NextExtra(@)}]
    BY <1>8 DEF ReleaseExtra, Unblock
  <2>2. lock[x] /\ x # n
    BY <1>0, <2>1 DEF WorkerTypeOK
  <2>3. InLock(x) => InLock(x)'
    BY <1>0, <2>1 DEF InLock, WorkerTypeOK
  <2>4. task[w] \in Task
    BY <1>1, <2>1
  <2>5. task'[w] \in Task /\ task'[w].extra = task[w].extra \ {n}
    BY <1>0, <2>1, <2>4 DEF Task, WorkerTypeOK
  <2>6. \A v \in Cpus : v # w => task'[v] = task[v]
    BY <1>0, <2>1 DEF WorkerTypeOK
  <2>7. \A v \in Cpus : x \in QueueExtra(v) \cup TaskExtra(v)
                          => x \in QueueExtra(v)' \cup TaskExtra(v)'
    BY <2>1, <2>2, <2>4, <2>5, <2>6 DEF QueueExtra, TaskExtra
  <2>8. Reserved(x) => Reserved(x)'
    BY <1>0, <2>7 DEF Reserved
  <2> QED BY <1>0, <2>2, <2>3, <2>8
<1>9. CASE ReleaseOwn(w)
  <2>1. /\ UNCHANGED cmd /\ wpc' = [wpc EXCEPT ![w] = "get"]
        /\ lock' = [lock EXCEPT ![w] = FALSE]
        /\ task' = [task EXCEPT ![w] = Empty]
        /\ task[w].extra = {}
    BY <1>9 DEF ReleaseOwn
  <2>2. lock[x] /\ x # w
    BY <1>0, <2>1 DEF WorkerTypeOK
  <2>3. InLock(x) => InLock(x)'
    BY <1>0, <2>1, <2>2 DEF InLock, WorkerTypeOK
  <2>4. Reserved(x) => Reserved(x)'
    BY <1>0, <1>2, <2>1 DEF QueueExtra, TaskExtra, WorkerTypeOK
  <2> QED BY <1>0, <2>2, <2>3, <2>4
<1> QED
  BY <1>0, <1>3, <1>4, <1>5, <1>6, <1>7, <1>8, <1>9 DEF WorkerStep

(***************************************************************************)
(* Nor does a step of the controller: what it reserved goes into the queue *)
(* with the run, or is unblocked.                                          *)
(***************************************************************************)
LEMMA HeldController ==
  ASSUME TypeOK, Shape, HeldForSomebody, Controller
  PROVE  HeldForSomebody'
<1> SUFFICES ASSUME Affinity, "raised" \notin Outcomes, NEW x \in Cpus, lock'[x]
             PROVE  InLock(x)' \/ Reserved(x)'
  BY DEF HeldForSomebody
<1>0. /\ WorkerTypeOK /\ Empty \notin Task
      /\ cursor \in Seq(Cpus) /\ toVisit \in Seq(Cpus)
      /\ lock[x] => InLock(x) \/ Reserved(x)
  BY ConstantsAssumption DEF TypeOK, HeldForSomebody
<1>1. CASE Quiet
  <2>1. UNCHANGED <<cmd, lock, wpc, task, extra>>
    BY <1>1, QuietUnchanged DEF claimVars
  <2> QED BY <1>0, <2>1 DEF InLock, Reserved, QueueExtra, TaskExtra
<1>2. CASE PreRun
  BY <1>2 DEF PreRun, StartWorkers, All
<1>3. CASE Reserve
  <2>1. /\ lock' = [lock EXCEPT ![Head(cursor)] = TRUE]
        /\ extra' = extra \cup {Head(cursor)} /\ UNCHANGED <<cmd, wpc, task>>
    BY <1>3 DEF Reserve, Block
  <2>2. lock[x] \/ x = Head(cursor)
    BY <1>0, <2>1 DEF WorkerTypeOK
  <2> QED BY <1>0, <2>1, <2>2 DEF InLock, Reserved, QueueExtra, TaskExtra
<1>4. CASE Dispatch
  <2> DEFINE h == Head(cursor)
             t == [run |-> nextRunId, benchmark |-> Head(todo), extra |-> extra]
  <2>1. /\ cmd[h] = Empty /\ cmd' = [cmd EXCEPT ![h] = t] /\ cpc = "place"
        /\ UNCHANGED <<lock, wpc, task>>
    BY <1>4 DEF Dispatch, AddRun, CanAddRun
  <2>2. h \in Cpus
    BY <1>0, <1>4, HeadTailProperties DEF Dispatch
  <2>3. t \in Task /\ t.extra = extra
    <3>1. Head(todo) \in Benchmarks
      BY <2>1, HeadTailProperties DEF TypeOK, Shape
    <3> QED BY <3>1 DEF Task, TypeOK
  <2>4. \A v \in Cpus : cmd'[v] = IF v = h THEN t ELSE cmd[v]
    BY <1>0, <2>1 DEF WorkerTypeOK
  <2>5. \A v \in Cpus : /\ QueueExtra(v)' = IF v = h THEN extra ELSE QueueExtra(v)
                       /\ TaskExtra(v)' = TaskExtra(v)
    BY <2>1, <2>3, <2>4 DEF QueueExtra, TaskExtra
  <2>7. QueueExtra(h) = {}
    BY <1>0, <2>1 DEF QueueExtra
  <2>6. Reserved(x) => Reserved(x)'
    BY <2>2, <2>5, <2>7 DEF Reserved
  <2> QED BY <1>0, <2>1, <2>6 DEF InLock
<1>5. CASE UndoReserve
  <2>1. UNCHANGED <<cmd, lock, wpc, task, extra>>
    BY <1>5 DEF UndoReserve, Unblock, placeVars
  <2> QED BY <1>0, <2>1 DEF InLock, Reserved, QueueExtra, TaskExtra
<1>6. CASE UndoRelease
  <2>1. /\ extra' = extra \ {NextExtra(extra)}
        /\ lock' = [lock EXCEPT ![NextExtra(extra)] = FALSE]
        /\ UNCHANGED <<cmd, wpc, task>>
    BY <1>6 DEF UndoRelease, Unblock
  <2>2. lock[x] /\ x # NextExtra(extra)
    BY <1>0, <2>1 DEF WorkerTypeOK
  <2> QED BY <1>0, <2>1, <2>2 DEF InLock, Reserved, QueueExtra, TaskExtra
<1>7. CASE StopPut
  <2>1. /\ cmd[Head(toVisit)] = Empty /\ cmd' = [cmd EXCEPT ![Head(toVisit)] = None]
        /\ UNCHANGED <<lock, wpc, task, extra>>
    BY <1>7 DEF StopPut, AddRun, placeVars
  <2>2. \A v \in Cpus : QueueExtra(v) \subseteq QueueExtra(v)' /\ TaskExtra(v)' = TaskExtra(v)
    BY <1>0, <2>1 DEF QueueExtra, TaskExtra, WorkerTypeOK
  <2> QED BY <1>0, <2>1, <2>2 DEF InLock, Reserved
<1> QED
  BY <1>1, <1>2, <1>3, <1>4, <1>5, <1>6, <1>7
  DEF Controller, Place, Undo, Collect, Stop, Quiet

-----------------------------------------------------------------------------
(***************************************************************************)
(* What is in the result queues, place by place.                           *)
(***************************************************************************)
LEMMA InResultsIff ==
  ASSUME NEW i, NEW p
  PROVE  p \in InResults(i) <=>
           \E w \in Cpus : \E k \in 1 .. Len(resQ[w]) :
              p = <<"results", w, k>> /\ resQ[w][k] # None /\ resQ[w][k].run = i
BY DEF InResults

(***************************************************************************)
(* Taking the first result of a queue moves the others up by one place and *)
(* takes none of them away.                                                *)
(***************************************************************************)
LEMMA FirstTaken ==
  ASSUME TypeOK, NEW w \in Cpus, resQ[w] # <<>>,
         resQ' = [resQ EXCEPT ![w] = Tail(@)], NEW i
  PROVE  /\ <<"results", w, 1>> \in InResults(i)
              <=> Head(resQ[w]) # None /\ Head(resQ[w]).run = i
         /\ InResults(i) \subseteq {<<"results", w, 1>>} => InResults(i)' = {}
         /\ \A p : InResults(i) = {p} /\ p # <<"results", w, 1>>
                     => \E q : InResults(i)' = {q}
<1>1. /\ resQ \in [Cpus -> Seq(Result \cup {None})]
      /\ resQ[w] \in Seq(Result \cup {None})
  BY DEF TypeOK, WorkerTypeOK
<1>2. /\ Len(resQ[w]) \in Nat /\ Len(resQ[w]) >= 1 /\ Head(resQ[w]) = resQ[w][1]
      /\ Len(resQ'[w]) = Len(resQ[w]) - 1
      /\ \A k \in 1 .. Len(resQ[w]) - 1 : resQ'[w][k] = resQ[w][k + 1]
  BY <1>1, HeadTailProperties, LenProperties, EmptySeq
<1>3. \A v \in Cpus : v # w => resQ'[v] = resQ[v]
  BY <1>1
<1>4. ASSUME NEW p
      PROVE  p \in InResults(i)' <=>
               \E v \in Cpus : \E k \in 1 .. Len(resQ'[v]) :
                 p = <<"results", v, k>> /\ resQ'[v][k] # None /\ resQ'[v][k].run = i
  BY DEF InResults
<1>5. <<"results", w, 1>> \in InResults(i)
        <=> Head(resQ[w]) # None /\ Head(resQ[w]).run = i
  BY <1>2, InResultsIff
<1>6. ASSUME NEW p \in InResults(i)'
      PROVE  \E v \in Cpus, k \in Nat :
               /\ k >= 1 /\ p = <<"results", v, k>>
               /\ \/ v = w /\ <<"results", w, k + 1>> \in InResults(i)
                  \/ v # w /\ <<"results", v, k>> \in InResults(i)
  <2>1. PICK v \in Cpus, k \in Nat :
          /\ k \in 1 .. Len(resQ'[v])
          /\ p = <<"results", v, k>> /\ resQ'[v][k] # None /\ resQ'[v][k].run = i
    BY <1>4, <1>6
  <2>2. CASE v = w
    <3>1. k + 1 \in 1 .. Len(resQ[w]) /\ resQ[w][k + 1] = resQ'[w][k]
      BY <1>2, <2>1, <2>2
    <3>2. <<"results", w, k + 1>> \in InResults(i)
      BY <2>1, <2>2, <3>1, InResultsIff
    <3>3. k >= 1
      BY <1>2, <2>1, <2>2
    <3> QED BY <2>1, <2>2, <3>2, <3>3, Zenon
  <2>3. CASE v # w
    <3>1. <<"results", v, k>> \in InResults(i)
      BY <1>3, <2>1, <2>3, InResultsIff
    <3>2. Len(resQ[v]) \in Nat
      BY <1>1, LenProperties
    <3>3. k >= 1
      BY <1>3, <2>1, <2>3, <3>2
    <3> QED BY <2>1, <2>3, <3>1, <3>3, Zenon
  <2> QED BY <2>2, <2>3
<1>7. ASSUME InResults(i) \subseteq {<<"results", w, 1>>}, NEW p \in InResults(i)'
      PROVE  FALSE
  <2>1. PICK v \in Cpus, k \in Nat :
          /\ k >= 1 /\ p = <<"results", v, k>>
          /\ \/ v = w /\ <<"results", w, k + 1>> \in InResults(i)
             \/ v # w /\ <<"results", v, k>> \in InResults(i)
    BY <1>6, <1>7
  <2> QED BY <1>7, <2>1
<1>8. ASSUME NEW p, InResults(i) = {p}, p # <<"results", w, 1>>
      PROVE  \E q : InResults(i)' = {q}
  <2>1. PICK v \in Cpus, k \in Nat :
          /\ k \in 1 .. Len(resQ[v])
          /\ p = <<"results", v, k>> /\ resQ[v][k] # None /\ resQ[v][k].run = i
    BY <1>8, InResultsIff
  <2>2. Len(resQ[v]) \in Nat
    BY <1>1, LenProperties
  <2>3. CASE v = w
    <3>1. k - 1 \in 1 .. Len(resQ'[w]) /\ resQ'[w][k - 1] = resQ[w][k]
      BY <1>2, <1>8, <2>1, <2>3
    <3>2. <<"results", w, k - 1>> \in InResults(i)'
      BY <1>4, <2>1, <2>3, <3>1
    <3>3. \A q \in InResults(i)' : q = <<"results", w, k - 1>>
      BY <1>6, <1>8, <2>1, <2>2, <2>3
    <3> QED BY <3>2, <3>3
  <2>4. CASE v # w
    <3>1. p \in InResults(i)'
      BY <1>3, <1>4, <2>1, <2>4
    <3>2. \A q \in InResults(i)' : q = p
      BY <1>6, <1>8, <2>1, <2>4
    <3> QED BY <3>1, <3>2
  <2> QED BY <2>3, <2>4
<1> QED BY <1>5, <1>7, <1>8

(***************************************************************************)
(* Putting a result, or the None that ends them, at the end of a queue.    *)
(***************************************************************************)
LEMMA LastPut ==
  ASSUME TypeOK, NEW w \in Cpus, NEW r \in Result \cup {None},
         resQ' = [resQ EXCEPT ![w] = Append(@, r)], NEW i
  PROVE  InResults(i)' = IF r # None /\ r.run = i
                         THEN InResults(i) \cup {<<"results", w, Len(resQ[w]) + 1>>}
                         ELSE InResults(i)
<1>1. /\ resQ \in [Cpus -> Seq(Result \cup {None})]
      /\ resQ[w] \in Seq(Result \cup {None})
  BY DEF TypeOK, WorkerTypeOK
<1>2. /\ Len(resQ[w]) \in Nat /\ Len(resQ'[w]) = Len(resQ[w]) + 1
      /\ resQ'[w][Len(resQ[w]) + 1] = r
      /\ \A k \in 1 .. Len(resQ[w]) : resQ'[w][k] = resQ[w][k]
  BY <1>1, AppendProperties, LenProperties
<1>3. \A v \in Cpus : v # w => resQ'[v] = resQ[v]
  BY <1>1
<1>4. ASSUME NEW p
      PROVE  p \in InResults(i)' <=>
               \E v \in Cpus : \E k \in 1 .. Len(resQ'[v]) :
                 p = <<"results", v, k>> /\ resQ'[v][k] # None /\ resQ'[v][k].run = i
  BY DEF InResults
<1>5. ASSUME NEW p \in InResults(i)
      PROVE  p \in InResults(i)'
  <2>1. PICK v \in Cpus, k \in Nat :
          /\ k \in 1 .. Len(resQ[v])
          /\ p = <<"results", v, k>> /\ resQ[v][k] # None /\ resQ[v][k].run = i
    BY <1>5, InResultsIff
  <2>2. k \in 1 .. Len(resQ'[v]) /\ resQ'[v][k] = resQ[v][k]
    BY <1>2, <1>3, <2>1
  <2> QED BY <1>4, <2>1, <2>2
<1>6. ASSUME NEW p \in InResults(i)', p \notin InResults(i)
      PROVE  p = <<"results", w, Len(resQ[w]) + 1>> /\ r # None /\ r.run = i
  <2>1. PICK v \in Cpus, k \in Nat :
          /\ k \in 1 .. Len(resQ'[v])
          /\ p = <<"results", v, k>> /\ resQ'[v][k] # None /\ resQ'[v][k].run = i
    BY <1>4, <1>6
  <2>2. v = w /\ k = Len(resQ[w]) + 1
    BY <1>2, <1>3, <1>6, <2>1, InResultsIff
  <2> QED BY <1>2, <2>1, <2>2
<1>7. r # None /\ r.run = i => <<"results", w, Len(resQ[w]) + 1>> \in InResults(i)'
  BY <1>2, <1>4
<1> QED BY <1>5, <1>6, <1>7

(***************************************************************************)
(* The kinds of places do not overlap, so a run with one place in a queue, *)
(* a thread or the results is nowhere else.                                *)
(***************************************************************************)
LEMMA Alone ==
  ASSUME NEW i, NEW p, Places(i) = {p}
  PROVE  /\ p \in InQueue(i) =>
              /\ InQueue(i) = {p} /\ InThread(i) = {} /\ InResults(i) = {}
              /\ InRuntimes(i) = {} /\ InFailed(i) = {}
         /\ p \in InThread(i) =>
              /\ InThread(i) = {p} /\ InQueue(i) = {} /\ InResults(i) = {}
              /\ InRuntimes(i) = {} /\ InFailed(i) = {}
         /\ p \in InResults(i) =>
              /\ InResults(i) = {p} /\ InQueue(i) = {} /\ InThread(i) = {}
              /\ InRuntimes(i) = {} /\ InFailed(i) = {}
<1>1. \A q \in InQueue(i) : q[1] = "queue"
  BY DEF InQueue
<1>2. \A q \in InThread(i) : q[1] = "task"
  BY DEF InThread
<1>3. \A q \in InResults(i) : q[1] = "results"
  BY InResultsIff
<1>4. \A q \in InRuntimes(i) : q[1] = "runtimes"
  BY DEF InRuntimes
<1>5. \A q \in InFailed(i) : q[1] = "failed"
  BY DEF InFailed
<1> QED BY <1>1, <1>2, <1>3, <1>4, <1>5 DEF Places

(***************************************************************************)
(* A step of a thread moves at most one run: from the queue to the thread, *)
(* or from the thread to the results.                                      *)
(***************************************************************************)
LEMMA PlacedWorker ==
  ASSUME TypeOK, Shape, NEW w \in Cpus, WorkerNext(w), NEW i \in Nat, Placed(i)
  PROVE  Placed(i)'
<1>0. /\ WorkerTypeOK /\ WorkerStep(w)
      /\ nextRunId' = nextRunId /\ runtimes' = runtimes /\ failed' = failed
      /\ Empty \notin Task /\ None \notin Task /\ None \notin Result
  BY ConstantsAssumption DEF TypeOK, WorkerNext, controlVars, recordVars
<1>1. wpc[w] \notin {"get", "exited"} => task[w] \in Task
  BY <1>0 DEF Shape, WorkerTypeOK
<1>2. InRuntimes(i)' = InRuntimes(i) /\ InFailed(i)' = InFailed(i)
  BY <1>0 DEF InRuntimes, InFailed
<1>3. ASSUME InQueue(i)' = InQueue(i), InThread(i)' = InThread(i),
             InResults(i)' = InResults(i)
      PROVE  Placed(i)'
  BY <1>0, <1>2, <1>3 DEF Placed, Places
<1>4. resQ' = resQ => InResults(i)' = InResults(i)
  BY DEF InResults
<1>5. cmd' = cmd => InQueue(i)' = InQueue(i)
  BY DEF InQueue
<1>6. CASE Get(w)
  <2>1. /\ cmd[w] \in Task /\ wpc[w] = "get" /\ resQ' = resQ
        /\ \A v \in Cpus : /\ cmd'[v] = IF v = w THEN Empty ELSE cmd[v]
                           /\ task'[v] = IF v = w THEN cmd[w] ELSE task[v]
                           /\ wpc'[v] = IF v = w THEN "lock" ELSE wpc[v]
    BY <1>0, <1>6 DEF Get, WorkerTypeOK
  <2>2. CASE cmd[w].run = i
    <3>1. <<"queue", w>> \in InQueue(i)
      BY <2>1, <2>2 DEF InQueue
    <3>2. InQueue(i)' = InQueue(i) \ {<<"queue", w>>}
      BY <1>0, <2>1 DEF InQueue
    <3>3. InThread(i)' = InThread(i) \cup {<<"task", w>>}
      BY <2>1, <2>2 DEF InThread, Unfinished
    <3>4. Places(i) = {<<"queue", w>>} /\ i < nextRunId
      BY <3>1 DEF Placed, Places
    <3>5. /\ InQueue(i) = {<<"queue", w>>} /\ InThread(i) = {} /\ InResults(i) = {}
          /\ InRuntimes(i) = {} /\ InFailed(i) = {}
      BY <3>1, <3>4, Alone
    <3>6. Places(i)' = {<<"task", w>>}
      BY <1>2, <1>4, <2>1, <3>2, <3>3, <3>5 DEF Places
    <3> QED BY <1>0, <3>4, <3>6 DEF Placed
  <2>3. CASE cmd[w].run # i
    <3>1. InQueue(i)' = InQueue(i)
      BY <1>0, <2>1, <2>3 DEF InQueue
    <3>2. InThread(i)' = InThread(i)
      BY <2>1, <2>3 DEF InThread, Unfinished
    <3> QED BY <1>3, <1>4, <2>1, <3>1, <3>2
  <2> QED BY <2>2, <2>3
<1>7. CASE Execute(w)
  <2>1. task[w] \in Task /\ wpc[w] = "exec"
    BY <1>1, <1>7 DEF Execute
  <2>2. PICK rc \in Outcomes \ {"raised"} :
          resQ' = [resQ EXCEPT ![w] = Append(@,
             [run |-> task[w].run, benchmark |-> task[w].benchmark, rc |-> rc])]
    BY <1>7 DEF Execute
  <2> DEFINE r == [run |-> task[w].run, benchmark |-> task[w].benchmark, rc |-> rc]
  <2>3. r \in Result /\ r.run = task[w].run /\ r # None
    BY <1>0, <2>1, ConstantsAssumption DEF Task, Result
  <2>4. InResults(i)' = IF r.run = i
                        THEN InResults(i) \cup {<<"results", w, Len(resQ[w]) + 1>>}
                        ELSE InResults(i)
    <3>1. resQ' = [resQ EXCEPT ![w] = Append(@, r)]
      BY <2>2
    <3> HIDE DEF r
    <3> QED BY <2>3, <3>1, LastPut
  <2>5. /\ UNCHANGED <<cmd, task>>
        /\ \A v \in Cpus : wpc'[v] = IF v = w THEN "unwind" ELSE wpc[v]
    BY <1>0, <1>7 DEF Execute, WorkerTypeOK
  <2>6. InThread(i)' = InThread(i) \ {<<"task", w>>}
    BY <2>5 DEF InThread, Unfinished
  <2>7. <<"task", w>> \in InThread(i) <=> task[w].run = i
    BY <2>1 DEF InThread, Unfinished
  <2>8. CASE task[w].run = i
    <3>1. <<"task", w>> \in Places(i)
      BY <2>7, <2>8 DEF Places
    <3>2. InResults(i)' = InResults(i) \cup {<<"results", w, Len(resQ[w]) + 1>>}
      BY <2>3, <2>4, <2>8
    <3>3. InQueue(i)' = InQueue(i)
      BY <1>5, <2>5
    <3>4. Places(i) = {<<"task", w>>} /\ i < nextRunId
      BY <3>1 DEF Placed
    <3>5. /\ InThread(i) = {<<"task", w>>} /\ InQueue(i) = {} /\ InResults(i) = {}
          /\ InRuntimes(i) = {} /\ InFailed(i) = {}
      BY <2>7, <2>8, <3>4, Alone
    <3>6. Places(i)' = {<<"results", w, Len(resQ[w]) + 1>>}
      BY <1>2, <2>6, <3>2, <3>3, <3>5 DEF Places
    <3> HIDE DEF r
    <3> QED BY <1>0, <3>4, <3>6 DEF Placed
  <2>9. CASE task[w].run # i
    <3>1. InThread(i)' = InThread(i) /\ InResults(i)' = InResults(i)
      BY <2>3, <2>4, <2>6, <2>7, <2>9
    <3> QED BY <1>3, <1>5, <2>5, <3>1
  <2> QED BY <2>8, <2>9
<1>8. CASE GetStop(w)
  <2>1. /\ cmd[w] = None /\ cmd' = [cmd EXCEPT ![w] = Empty] /\ UNCHANGED task
        /\ resQ' = [resQ EXCEPT ![w] = Append(@, None)]
        /\ wpc[w] = "get" /\ wpc' = [wpc EXCEPT ![w] = "exited"]
    BY <1>8 DEF GetStop
  <2>2. InQueue(i)' = InQueue(i)
    BY <1>0, <2>1 DEF InQueue, WorkerTypeOK
  <2>3. InThread(i)' = InThread(i)
    BY <1>0, <2>1 DEF InThread, Unfinished, WorkerTypeOK
  <2>4. InResults(i)' = InResults(i)
    BY <2>1, LastPut
  <2> QED BY <1>3, <2>2, <2>3, <2>4
<1>9. CASE Acquire(w) \/ ExecuteRaises(w)
  <2>1. UNCHANGED <<cmd, resQ, task>>
    BY <1>9 DEF Acquire, ExecuteRaises
  <2>2. \A v \in Cpus : wpc'[v] \in Unfinished <=> wpc[v] \in Unfinished
    BY <1>0, <1>9 DEF Acquire, ExecuteRaises, Unfinished, WorkerTypeOK
  <2>3. InThread(i)' = InThread(i)
    BY <2>1, <2>2 DEF InThread
  <2> QED BY <1>3, <1>4, <1>5, <2>1, <2>3
<1>10. CASE ResetAffinity(w) \/ UnblockExtra(w) \/ ReleaseExtra(w) \/ ReleaseOwn(w)
  <2>1. UNCHANGED <<cmd, resQ>>
    BY <1>10 DEF ResetAffinity, UnblockExtra, ReleaseExtra, ReleaseOwn
  <2>2. /\ wpc[w] \notin Unfinished /\ wpc'[w] \notin Unfinished
        /\ \A v \in Cpus : v # w => wpc'[v] = wpc[v] /\ task'[v] = task[v]
    BY <1>0, <1>10 DEF ResetAffinity, UnblockExtra, ReleaseExtra, ReleaseOwn, Unfinished,
       WorkerTypeOK
  <2>3. InThread(i)' = InThread(i)
    BY <2>2 DEF InThread
  <2> QED BY <1>3, <1>4, <1>5, <2>1, <2>3
<1> QED BY <1>0, <1>6, <1>7, <1>8, <1>9, <1>10 DEF WorkerStep

(***************************************************************************)
(* A result that the controller takes moves from the queue to its records; *)
(* the results behind it stay in the queue.                                *)
(***************************************************************************)
LEMMA PlacedTaken ==
  ASSUME TypeOK, NEW w \in Cpus, resQ[w] # <<>>,
         resQ' = [resQ EXCEPT ![w] = Tail(@)],
         UNCHANGED <<cmd, wpc, task, nextRunId>>,
         \/ Head(resQ[w]) = None /\ UNCHANGED <<runtimes, failed>>
         \/ /\ Head(resQ[w]) # None
            /\ failed' = failed \cup {Head(resQ[w])} /\ UNCHANGED runtimes
         \/ /\ Head(resQ[w]) # None
            /\ Record(Head(resQ[w])) /\ UNCHANGED failed,
         NEW i \in Nat, Placed(i)
  PROVE  Placed(i)'
<1> DEFINE r == Head(resQ[w])
           first == <<"results", w, 1>>
<1>1. r # None => r \in Result /\ r.benchmark \in Benchmarks
  <2>1. resQ[w] \in Seq(Result \cup {None})
    BY DEF TypeOK, WorkerTypeOK
  <2>2. r \in Result \cup {None}
    BY <2>1, HeadTailProperties
  <2> QED BY <2>2 DEF Result
<1>2. InQueue(i)' = InQueue(i) /\ InThread(i)' = InThread(i)
  BY DEF InQueue, InThread
<1>3. /\ first \in InResults(i) <=> r # None /\ r.run = i
      /\ InResults(i) \subseteq {first} => InResults(i)' = {}
      /\ \A p : InResults(i) = {p} /\ p # first => \E q : InResults(i)' = {q}
  BY FirstTaken
<1>4. runtimes \in [Benchmarks -> SUBSET Result]
  BY DEF TypeOK
<1>5. CASE r # None /\ r.run = i
  <2>1. \E q : InRuntimes(i)' \cup InFailed(i)' = InRuntimes(i) \cup InFailed(i) \cup {q}
    <3>1. CASE failed' = failed \cup {r} /\ UNCHANGED runtimes
      <4>1. InFailed(i)' = InFailed(i) \cup {<<"failed", r>>}
        BY <1>5, <3>1 DEF InFailed
      <4>2. InRuntimes(i)' = InRuntimes(i)
        BY <3>1 DEF InRuntimes
      <4> QED BY <4>1, <4>2
    <3>2. CASE Record(r) /\ UNCHANGED failed
      <4>1. \A b \in Benchmarks :
              runtimes'[b] = IF b = r.benchmark THEN runtimes[b] \cup {r} ELSE runtimes[b]
        BY <1>4, <3>2 DEF Record
      <4> HIDE DEF r
      <4>2. InRuntimes(i)' = InRuntimes(i) \cup {<<"runtimes", r.benchmark, r>>}
        <5>1. ASSUME NEW p
              PROVE  p \in InRuntimes(i)' <=>
                       \E b \in Benchmarks : \E t \in runtimes'[b] :
                         p = <<"runtimes", b, t>> /\ t.run = i
          BY DEF InRuntimes
        <5>2. ASSUME NEW p
              PROVE  p \in InRuntimes(i) <=>
                       \E b \in Benchmarks : \E t \in runtimes[b] :
                         p = <<"runtimes", b, t>> /\ t.run = i
          BY DEF InRuntimes
        <5>3. <<"runtimes", r.benchmark, r>> \in InRuntimes(i)'
          BY <1>1, <1>5, <4>1, <5>1
        <5>4. ASSUME NEW p \in InRuntimes(i)
              PROVE  p \in InRuntimes(i)'
          <6>1. PICK b \in Benchmarks : \E t \in runtimes[b] :
                  p = <<"runtimes", b, t>> /\ t.run = i
            BY <5>2, <5>4
          <6>2. runtimes[b] \subseteq runtimes'[b]
            BY <4>1
          <6> QED BY <5>1, <6>1, <6>2
        <5>5. ASSUME NEW p \in InRuntimes(i)', p # <<"runtimes", r.benchmark, r>>
              PROVE  p \in InRuntimes(i)
          <6>1. PICK b \in Benchmarks : \E t \in runtimes'[b] :
                  p = <<"runtimes", b, t>> /\ t.run = i
            BY <5>1, <5>5
          <6>2. PICK t \in runtimes'[b] : p = <<"runtimes", b, t>> /\ t.run = i
            BY <6>1
          <6>3. t \in runtimes[b]
            BY <4>1, <5>5, <6>2
          <6> QED BY <5>2, <6>2, <6>3
        <5> QED BY <5>3, <5>4, <5>5
      <4>3. InFailed(i)' = InFailed(i)
        BY <3>2 DEF InFailed
      <4> QED BY <4>2, <4>3
    <3> QED BY <1>5, <3>1, <3>2
  <2>2. first \in Places(i)
    BY <1>3, <1>5 DEF Places
  <2>3. Places(i) = {first} /\ i < nextRunId
    BY <2>2 DEF Placed
  <2>4. /\ InQueue(i) = {} /\ InThread(i) = {} /\ InRuntimes(i) = {} /\ InFailed(i) = {}
        /\ InResults(i) = {first}
    BY <1>3, <1>5, <2>3, Alone
  <2>5. PICK q : InRuntimes(i)' \cup InFailed(i)' = InRuntimes(i) \cup InFailed(i) \cup {q}
    BY <2>1
  <2>6. InResults(i)' = {}
    BY <1>3, <2>4
  <2>7. Places(i)' = {q}
    BY <1>2, <2>4, <2>5, <2>6 DEF Places
  <2> QED BY <2>3, <2>7 DEF Placed
<1>6. CASE ~(r # None /\ r.run = i)
  <2>1. InRuntimes(i)' = InRuntimes(i) /\ InFailed(i)' = InFailed(i)
    <3>1. CASE UNCHANGED <<runtimes, failed>>
      BY <3>1 DEF InRuntimes, InFailed
    <3>2. CASE r # None /\ failed' = failed \cup {r} /\ UNCHANGED runtimes
      BY <1>6, <3>2 DEF InRuntimes, InFailed
    <3>3. CASE r # None /\ Record(r) /\ UNCHANGED failed
      <4>1. \A b \in Benchmarks :
              runtimes'[b] = IF b = r.benchmark THEN runtimes[b] \cup {r} ELSE runtimes[b]
        BY <1>4, <3>3 DEF Record
      <4>2. InFailed(i)' = InFailed(i)
        BY <3>3 DEF InFailed
      <4> HIDE DEF r
      <4>3. \A b \in Benchmarks :
              {t \in runtimes'[b] : t.run = i} = {t \in runtimes[b] : t.run = i}
        BY <1>6, <3>3, <4>1
      <4> QED BY <4>2, <4>3 DEF InRuntimes
    <3> QED BY <3>1, <3>2, <3>3
  <2>2. first \notin InResults(i)
    BY <1>3, <1>6
  <2>3. InResults(i) = {} => InResults(i)' = {}
    BY <1>3
  <2>4. ASSUME NEW p, Places(i) = {p}
        PROVE  \E q : Places(i)' = {q}
    <3>1. CASE InResults(i) = {}
      BY <1>2, <2>1, <2>3, <2>4, <3>1 DEF Places
    <3>2. CASE InResults(i) # {}
      <4>1. InResults(i) = {p} /\ p # first
        BY <2>2, <2>4, <3>2 DEF Places
      <4>5. InQueue(i) = {} /\ InThread(i) = {} /\ InRuntimes(i) = {} /\ InFailed(i) = {}
        BY <2>4, <4>1, Alone
      <4>6. \E q : InResults(i)' = {q}
        BY <1>3, <4>1
      <4> QED BY <1>2, <2>1, <4>5, <4>6 DEF Places
    <3> QED BY <3>1, <3>2
  <2>5. Places(i) = {} => Places(i)' = {}
    BY <1>2, <2>1, <2>3 DEF Places
  <2> QED BY <2>4, <2>5 DEF Placed
<1> QED BY <1>5, <1>6

(***************************************************************************)
(* The controller's steps that move no run.                                *)
(***************************************************************************)
Still ==
  \/ TimeUp \/ Sample \/ PickBenchmark \/ PickDone \/ Reserve \/ SkipCpu \/ GiveUp
  \/ Undo \/ CollectNext \/ CollectDone \/ StopDone \/ Join

LEMMA StillUnchanged ==
  ASSUME Still
  PROVE  UNCHANGED <<cmd, resQ, wpc, task, nextRunId, runtimes, failed>>
<1> USE DEF workerVars, placeVars, recordVars
<1>1. CASE TimeUp \/ Sample \/ PickBenchmark \/ PickDone
  BY <1>1 DEF TimeUp, Sample, PickBenchmark, PickDone
<1>2. CASE Reserve \/ SkipCpu \/ GiveUp
  BY <1>2 DEF Reserve, SkipCpu, GiveUp
<1>3. CASE Undo
  BY <1>3 DEF Undo, UndoReserve, UndoRelease, UndoDone
<1>4. CASE CollectNext \/ CollectDone \/ StopDone \/ Join
  BY <1>4 DEF CollectNext, CollectDone, StopDone, Join
<1> QED BY <1>1, <1>2, <1>3, <1>4 DEF Still

(***************************************************************************)
(* A step of the controller issues one run, settles one, or starts a trial *)
(* with none.                                                              *)
(***************************************************************************)
LEMMA PlacedController ==
  ASSUME TypeOK, Shape, Controller, NEW i \in Nat, Placed(i)
  PROVE  Placed(i)'
<1>0. /\ WorkerTypeOK /\ Empty \notin Task /\ None \notin Task
      /\ cursor \in Seq(Cpus) /\ toVisit \in Seq(Cpus) /\ nextRunId \in Nat
  BY ConstantsAssumption DEF TypeOK
<1>1. CASE Still
  <2>1. UNCHANGED <<cmd, resQ, wpc, task, nextRunId, runtimes, failed>>
    BY <1>1, StillUnchanged
  <2> QED BY <2>1 DEF Placed, Places, InQueue, InThread, InResults, InRuntimes, InFailed
<1>2. CASE PreRun
  <2>1. /\ nextRunId' = 0 /\ failed' = {} /\ \A b \in Benchmarks : runtimes'[b] = {}
        /\ \A w \in Cpus : cmd'[w] = Empty /\ wpc'[w] = "get" /\ resQ'[w] = <<>>
    BY <1>2 DEF PreRun, StartWorkers, All
  <2>2. InQueue(i)' = {} /\ InThread(i)' = {} /\ InFailed(i)' = {}
    BY <1>0, <2>1 DEF InQueue, InThread, InFailed, Unfinished
  <2>3. InRuntimes(i)' = {}
    BY <2>1 DEF InRuntimes
  <2>4. InResults(i)' = {}
    BY <2>1 DEF InResults
  <2> QED BY <2>1, <2>2, <2>3, <2>4 DEF Placed, Places
<1>3. CASE Dispatch
  <2> DEFINE h == Head(cursor)
             t == [run |-> nextRunId, benchmark |-> Head(todo), extra |-> extra]
  <2>1. /\ cmd[h] = Empty /\ cmd' = [cmd EXCEPT ![h] = t] /\ cpc = "place"
        /\ nextRunId' = nextRunId + 1
        /\ UNCHANGED <<resQ, wpc, task, runtimes, failed>>
    BY <1>3 DEF Dispatch, AddRun, CanAddRun, recordVars
  <2>2. h \in Cpus
    BY <1>0, <1>3, HeadTailProperties DEF Dispatch
  <2>3. t \in Task /\ t.run = nextRunId
    <3>1. Head(todo) \in Benchmarks
      BY <2>1, HeadTailProperties DEF TypeOK, Shape
    <3> QED BY <3>1 DEF Task, TypeOK
  <2>4. \A v \in Cpus : cmd'[v] = IF v = h THEN t ELSE cmd[v]
    BY <1>0, <2>1 DEF WorkerTypeOK
  <2>5. /\ InThread(i)' = InThread(i) /\ InResults(i)' = InResults(i)
        /\ InRuntimes(i)' = InRuntimes(i) /\ InFailed(i)' = InFailed(i)
    BY <2>1 DEF InThread, InResults, InRuntimes, InFailed
  <2>6. InQueue(i)' = IF i = nextRunId THEN InQueue(i) \cup {<<"queue", h>>} ELSE InQueue(i)
    <3> HIDE DEF h, t
    <3> QED BY <1>0, <2>1, <2>2, <2>3, <2>4 DEF InQueue
  <2>7. CASE i = nextRunId
    <3>1. Places(i) = {}
      BY <1>0, <2>7 DEF Placed
    <3>2. Places(i)' = {<<"queue", h>>}
      <4> HIDE DEF h, t
      <4> QED BY <2>5, <2>6, <2>7, <3>1 DEF Places
    <3>3. i < nextRunId'
      BY <1>0, <2>1, <2>7
    <3> QED BY <3>2, <3>3 DEF Placed
  <2>8. CASE i # nextRunId
    <3>1. Places(i)' = Places(i)
      BY <2>5, <2>6, <2>8 DEF Places
    <3>2. i < nextRunId' <=> i < nextRunId
      BY <1>0, <2>1, <2>8
    <3> QED BY <3>1, <3>2 DEF Placed
  <2> QED BY <2>7, <2>8
<1>4. CASE StopPut
  <2>1. /\ cmd[Head(toVisit)] = Empty /\ cmd' = [cmd EXCEPT ![Head(toVisit)] = None]
        /\ UNCHANGED <<resQ, wpc, task, nextRunId, runtimes, failed>>
    BY <1>4 DEF StopPut, AddRun, recordVars
  <2>2. \A v \in Cpus : cmd'[v] = cmd[v] \/ (cmd[v] = Empty /\ cmd'[v] = None)
    BY <1>0, <2>1 DEF WorkerTypeOK
  <2>3. \A v \in Cpus : cmd'[v] \in Task /\ cmd'[v].run = i <=> cmd[v] \in Task /\ cmd[v].run = i
    BY <1>0, <2>2
  <2>4. InQueue(i)' = InQueue(i)
    BY <2>3 DEF InQueue
  <2>5. /\ InThread(i)' = InThread(i) /\ InResults(i)' = InResults(i)
        /\ InRuntimes(i)' = InRuntimes(i) /\ InFailed(i)' = InFailed(i)
    BY <2>1 DEF InThread, InResults, InRuntimes, InFailed
  <2> QED BY <2>1, <2>4, <2>5 DEF Placed, Places
<1>5. CASE CollectResult \/ StopGetResult \/ StopGetNone
  <2> DEFINE w == Head(toVisit)
  <2>1. /\ toVisit # <<>> /\ resQ[w] # <<>>
        /\ resQ' = [resQ EXCEPT ![w] = Tail(@)]
        /\ UNCHANGED <<cmd, wpc, task, nextRunId>>
    BY <1>5 DEF CollectResult, StopGetResult, StopGetNone, Shape
  <2>2. \/ Head(resQ[w]) = None /\ UNCHANGED <<runtimes, failed>>
        \/ /\ Head(resQ[w]) # None
           /\ failed' = failed \cup {Head(resQ[w])} /\ UNCHANGED runtimes
        \/ /\ Head(resQ[w]) # None
           /\ Record(Head(resQ[w])) /\ UNCHANGED failed
    BY <1>5 DEF CollectResult, StopGetResult, StopGetNone, recordVars
  <2>3. w \in Cpus
    BY <1>0, <2>1, HeadTailProperties
  <2> HIDE DEF w
  <2> QED BY <2>1, <2>2, <2>3, PlacedTaken
<1> QED
  BY <1>1, <1>2, <1>3, <1>4, <1>5 DEF Controller, Place, Collect, Stop, Still

-----------------------------------------------------------------------------
(***************************************************************************)
(* A step of a thread and the phase of its own shutdown: a live one stays  *)
(* live, one that is stopping puts its None last, one that is stopped does *)
(* nothing.                                                                *)
(***************************************************************************)
LEMMA StopWorker ==
  ASSUME TypeOK, Shape, NEW w \in Cpus, WorkerStep(w)
  PROVE  /\ Live(w) => Live(w)'
         /\ Stopping(w) => Stopping(w)'
         /\ ~Stopped(w)
         /\ ~(wpc[w] \in {"get", "exited"} /\ cmd[w] = Empty)
         /\ \A v \in Cpus : v # w => /\ cmd'[v] = cmd[v] /\ wpc'[v] = wpc[v]
                                     /\ resQ'[v] = resQ[v]
<1>0. /\ WorkerTypeOK /\ Empty \notin Task /\ Empty # None
      /\ None \notin Task /\ None \notin Result
  BY ConstantsAssumption DEF TypeOK
<1>1. /\ wpc[w] # "exited"
      /\ ~(wpc[w] = "get" /\ cmd[w] = Empty)
  BY <1>0 DEF WorkerStep, Get, GetStop, Acquire, Execute, ExecuteRaises, ResetAffinity,
     UnblockExtra, ReleaseExtra, ReleaseOwn
<1>2. \A v \in Cpus : v # w => cmd'[v] = cmd[v] /\ wpc'[v] = wpc[v] /\ resQ'[v] = resQ[v]
  BY <1>0 DEF WorkerTypeOK, WorkerStep, Get, GetStop, Acquire, Execute, ExecuteRaises,
     ResetAffinity, UnblockExtra, ReleaseExtra, ReleaseOwn
<1>3. resQ[w] \in Seq(Result \cup {None}) /\ Len(resQ[w]) \in Nat
  BY <1>0, LenProperties DEF WorkerTypeOK
<1>4. CASE GetStop(w)
  <2>1. /\ cmd[w] = None /\ cmd'[w] = Empty /\ wpc'[w] = "exited"
        /\ resQ'[w] = Append(resQ[w], None)
    BY <1>0, <1>4 DEF GetStop, WorkerTypeOK
  <2>2. /\ Len(resQ'[w]) = Len(resQ[w]) + 1 /\ resQ'[w] # <<>>
        /\ resQ'[w][Len(resQ[w]) + 1] = None
        /\ \A k \in 1 .. Len(resQ[w]) : resQ'[w][k] = resQ[w][k]
    BY <1>3, <2>1, AppendProperties
  <2>3. Stopping(w) => Stopping(w)'
    BY <1>1, <1>3, <2>1, <2>2 DEF Stopping
  <2> QED BY <1>1, <1>2, <2>1, <2>3 DEF Live, Stopped
<1>5. CASE Execute(w)
  <2>1. task[w] \in Task
    BY <1>0, <1>5 DEF Execute, Shape, WorkerTypeOK
  <2>2. PICK rc \in Outcomes \ {"raised"} :
          resQ' = [resQ EXCEPT ![w] = Append(@,
             [run |-> task[w].run, benchmark |-> task[w].benchmark, rc |-> rc])]
    BY <1>5 DEF Execute
  <2> DEFINE r == [run |-> task[w].run, benchmark |-> task[w].benchmark, rc |-> rc]
  <2>3. r \in Result
    BY <2>1, ConstantsAssumption DEF Task, Result
  <2>4. resQ'[w] = Append(resQ[w], r) /\ cmd'[w] = cmd[w] /\ wpc'[w] = "unwind"
    BY <1>0, <1>5, <2>2 DEF Execute, WorkerTypeOK
  <2> HIDE DEF r
  <2>5. /\ Len(resQ'[w]) = Len(resQ[w]) + 1
        /\ resQ'[w][Len(resQ[w]) + 1] # None
        /\ \A k \in 1 .. Len(resQ[w]) : resQ'[w][k] = resQ[w][k]
    BY <1>0, <1>3, <2>3, <2>4, AppendProperties
  <2>6. (\A k \in 1 .. Len(resQ[w]) : resQ[w][k] # None)
          => \A k \in 1 .. Len(resQ'[w]) : resQ'[w][k] # None
    BY <1>3, <2>5
  <2> QED BY <1>1, <1>2, <2>4, <2>6 DEF Live, Stopping, Stopped
<1>6. CASE ~GetStop(w) /\ ~Execute(w)
  <2>1. resQ' = resQ /\ wpc'[w] # "exited"
    BY <1>0, <1>6 DEF WorkerTypeOK, WorkerStep, Get, Acquire, ExecuteRaises, ResetAffinity,
       UnblockExtra, ReleaseExtra, ReleaseOwn
  <2>2. cmd'[w] = cmd[w] \/ (cmd[w] \in Task /\ cmd'[w] = Empty)
    BY <1>0, <1>6 DEF WorkerTypeOK, WorkerStep, Get, Acquire, ExecuteRaises, ResetAffinity,
       UnblockExtra, ReleaseExtra, ReleaseOwn
  <2> QED BY <1>0, <1>1, <1>2, <2>1, <2>2 DEF Live, Stopping, Stopped
<1> QED BY <1>4, <1>5, <1>6

LEMMA StopOrderWorker ==
  ASSUME TypeOK, Shape, StopOrder, NEW w \in Cpus, WorkerNext(w)
  PROVE  StopOrder'
<1>1. WorkerStep(w) /\ cpc' = cpc /\ toVisit' = toVisit
  BY DEF WorkerNext, controlVars
<1>2. /\ Live(w) => Live(w)'
      /\ Stopping(w) => Stopping(w)'
      /\ ~Stopped(w)
      /\ ~(wpc[w] \in {"get", "exited"} /\ cmd[w] = Empty)
      /\ \A v \in Cpus : v # w => cmd'[v] = cmd[v] /\ wpc'[v] = wpc[v] /\ resQ'[v] = resQ[v]
  BY <1>1, StopWorker
<1>3. \A v \in Cpus : v # w => /\ Live(v) => Live(v)'
                               /\ Stopping(v) => Stopping(v)'
                               /\ Stopped(v) => Stopped(v)'
  BY <1>2 DEF Live, Stopping, Stopped
<1>4. \A v \in Cpus : /\ Live(v) => Live(v)'
                      /\ Stopping(v) => Stopping(v)'
                      /\ Stopped(v) => Stopped(v)'
  BY <1>2, <1>3
<1>5. cpc # "prerun"
  BY <1>2 DEF StopOrder
<1> QED BY <1>1, <1>4, <1>5 DEF StopOrder

(***************************************************************************)
(* Taking a result of a worker that is live or stopping; the None is the   *)
(* last thing there is to take.                                            *)
(***************************************************************************)
LEMMA StopTaken ==
  ASSUME TypeOK, NEW w \in Cpus, resQ[w] # <<>>,
         resQ' = [resQ EXCEPT ![w] = Tail(@)], UNCHANGED <<cmd, wpc>>
  PROVE  /\ \A v \in Cpus : Live(v) => Live(v)'
         /\ Stopping(w) /\ Head(resQ[w]) # None => Stopping(w)'
         /\ Stopping(w) /\ Head(resQ[w]) = None => Stopped(w)'
         /\ \A v \in Cpus : v # w => (Stopped(v) => Stopped(v)')
<1>1. /\ resQ \in [Cpus -> Seq(Result \cup {None})]
      /\ resQ[w] \in Seq(Result \cup {None})
  BY DEF TypeOK, WorkerTypeOK
<1>2. /\ Len(resQ[w]) \in Nat /\ Len(resQ[w]) >= 1 /\ Head(resQ[w]) = resQ[w][1]
      /\ resQ'[w] = Tail(resQ[w])
      /\ Len(resQ'[w]) = Len(resQ[w]) - 1
      /\ \A k \in 1 .. Len(resQ[w]) - 1 : resQ'[w][k] = resQ[w][k + 1]
      /\ resQ'[w] \in Seq(Result \cup {None})
  BY <1>1, HeadTailProperties, LenProperties, EmptySeq
<1>3. \A v \in Cpus : v # w => resQ'[v] = resQ[v]
  BY <1>1
<1>4. \A v \in Cpus : v # w => (Live(v) => Live(v)') /\ (Stopped(v) => Stopped(v)')
  BY <1>3 DEF Live, Stopped
<1>5. ASSUME \A k \in 1 .. Len(resQ[w]) : resQ[w][k] # None
      PROVE  \A k \in 1 .. Len(resQ'[w]) : resQ'[w][k] # None
  BY <1>2, <1>5
<1>6. Live(w) => Live(w)'
  BY <1>5 DEF Live
<1>7. ASSUME Stopping(w), Head(resQ[w]) # None
      PROVE  Stopping(w)'
  <2>1. CASE wpc[w] = "exited"
    <3>1. \A k \in 1 .. Len(resQ[w]) : resQ[w][k] = None <=> k = Len(resQ[w])
      BY <1>7, <2>1 DEF Stopping
    <3>2. Len(resQ[w]) > 1
      BY <1>2, <1>7, <3>1
    <3>3. ASSUME NEW k \in 1 .. Len(resQ'[w])
          PROVE  resQ'[w][k] = None <=> k = Len(resQ'[w])
      <4>1. k + 1 \in 1 .. Len(resQ[w]) /\ resQ'[w][k] = resQ[w][k + 1]
        BY <1>2
      <4>2. resQ'[w][k] = None <=> k + 1 = Len(resQ[w])
        BY <3>1, <4>1
      <4> QED BY <1>2, <4>2
    <3>4. resQ'[w] # <<>>
      <4>1. Len(resQ'[w]) # 0 /\ Len(<<>>) = 0
        BY <1>2, <3>2, EmptySeq
      <4> QED BY <4>1
    <3> QED BY <1>7, <2>1, <3>3, <3>4 DEF Stopping
  <2>2. CASE wpc[w] # "exited"
    BY <1>5, <1>7, <2>2 DEF Stopping
  <2> QED BY <2>1, <2>2
<1>8. ASSUME Stopping(w), Head(resQ[w]) = None
      PROVE  Stopped(w)'
  <2>0. 1 \in 1 .. Len(resQ[w]) /\ resQ[w][1] = None
    BY <1>2, <1>8
  <2>1. wpc[w] = "exited" /\ Len(resQ[w]) = 1
    BY <1>8, <2>0 DEF Stopping
  <2>2. resQ'[w] = <<>>
    BY <1>2, <2>1, EmptySeq
  <2> QED BY <1>8, <2>1, <2>2 DEF Stopping, Stopped
<1> QED BY <1>4, <1>6, <1>7, <1>8

(***************************************************************************)
(* A step of the controller and the order of the shutdown.                 *)
(***************************************************************************)
LEMMA StopOrderController ==
  ASSUME TypeOK, Shape, StopOrder, Controller
  PROVE  StopOrder'
<1> USE DEF StopOrder
<1>0. /\ WorkerTypeOK /\ Empty # None /\ None \notin Task
      /\ cursor \in Seq(Cpus) /\ toVisit \in Seq(Cpus) /\ cpc \in ControllerPCs
  BY ConstantsAssumption DEF TypeOK
<1>1. UNCHANGED <<cmd, wpc, resQ>> =>
        \A v \in Cpus : /\ Live(v)' <=> Live(v)
                        /\ Stopping(v)' <=> Stopping(v)
                        /\ Stopped(v)' <=> Stopped(v)
  BY DEF Live, Stopping, Stopped
<1>2. CASE PreRun
  <2>1. /\ cpc' = "top"
        /\ \A v \in Cpus : cmd'[v] = Empty /\ wpc'[v] = "get" /\ resQ'[v] = <<>>
    BY <1>2 DEF PreRun, StartWorkers, All
  <2>2. \A v \in Cpus : Live(v)'
    BY <1>0, <2>1 DEF Live
  <2> QED BY <2>1, <2>2
<1>3. CASE TimeUp
  <2>1. /\ UNCHANGED <<cmd, wpc, resQ>> /\ cpc = "top" /\ cpc' = "stopPut"
        /\ toVisit' = CpuList
    BY <1>3 DEF TimeUp, workerVars
  <2>2. /\ \A j, k \in 1 .. Len(CpuList) : CpuList[j] = CpuList[k] => j = k
        /\ \A v \in Cpus : \E k \in 1 .. Len(CpuList) : CpuList[k] = v
    <3>1. DOMAIN CpuList = 1 .. Len(CpuList)
      BY ControllerAssumption, LenProperties
    <3>2. \A v \in Cpus : \E k \in DOMAIN CpuList : CpuList[k] = v
      BY ControllerAssumption, Zenon DEF Range
    <3>3. \A j, k \in DOMAIN CpuList : CpuList[j] = CpuList[k] => j = k
      BY ControllerAssumption, Zenon DEF IsInjective
    <3> QED BY <3>1, <3>2, <3>3
  <2> QED BY <1>1, <2>1, <2>2
<1>4. CASE Still /\ ~TimeUp /\ ~StopDone /\ ~Join
  <2>1. UNCHANGED <<cmd, wpc, resQ>>
    BY <1>4, StillUnchanged
  <2>2. /\ cpc \notin {"prerun", "stopPut", "stopGet", "join", "done"}
        /\ cpc' \notin {"prerun", "stopPut", "stopGet", "join", "done"}
    BY <1>4 DEF Still, Sample, PickBenchmark, PickDone, Reserve, SkipCpu, GiveUp, Undo,
       UndoReserve, UndoRelease, UndoDone, CollectNext, CollectDone
  <2> QED BY <1>1, <2>1, <2>2
<1>5. CASE Dispatch
  <2> DEFINE h == Head(cursor)
             t == [run |-> nextRunId, benchmark |-> Head(todo), extra |-> extra]
  <2>1. /\ cmd' = [cmd EXCEPT ![h] = t] /\ cpc = "place" /\ cpc' = "pick"
        /\ UNCHANGED <<resQ, wpc>>
    BY <1>5 DEF Dispatch, AddRun
  <2>2. t \in Task
    <3>1. Head(todo) \in Benchmarks
      BY <2>1, HeadTailProperties DEF TypeOK, Shape
    <3> QED BY <3>1 DEF Task, TypeOK
  <2> HIDE DEF t
  <2>3. \A v \in Cpus : Live(v) => Live(v)'
    BY <1>0, <2>1, <2>2 DEF Live, WorkerTypeOK
  <2> QED BY <2>1, <2>3
<1>6. CASE CollectResult
  <2>1. /\ toVisit # <<>> /\ UNCHANGED <<cmd, wpc>> /\ cpc = "collect" /\ cpc' = "collect"
    BY <1>6 DEF CollectResult
  <2>2. PICK w \in Cpus : w = Head(toVisit)
    BY <1>0, <2>1, HeadTailProperties
  <2>3. resQ[w] # <<>> /\ resQ' = [resQ EXCEPT ![w] = Tail(@)]
    BY <1>6, <2>2 DEF CollectResult
  <2>4. \A v \in Cpus : Live(v) => Live(v)'
    BY <2>1, <2>3, StopTaken
  <2> QED BY <2>1, <2>4
<1>7. CASE StopDone \/ Join
  <2>1. UNCHANGED <<cmd, wpc, resQ>>
    BY <1>7, StillUnchanged DEF Still
  <2>2. \A v \in Cpus : Stopped(v)
    <3>1. CASE StopDone
      BY <3>1, EmptySeq DEF StopDone
    <3>2. CASE Join
      BY <3>2 DEF Join
    <3> QED BY <1>7, <3>1, <3>2
  <2>3. cpc' \in {"join", "prerun", "done"}
    BY <1>7 DEF StopDone, Join
  <2> QED BY <1>1, <2>1, <2>2, <2>3 DEF Stopped
<1>8. CASE StopPut
  <2>1. /\ toVisit # <<>> /\ UNCHANGED <<resQ, wpc, toVisit>>
        /\ cpc = "stopPut" /\ cpc' = "stopGet"
    BY <1>8 DEF StopPut
  <2>2. PICK w \in Cpus : w = Head(toVisit) /\ w = toVisit[1]
    BY <1>0, <2>1, HeadTailProperties
  <2>3. /\ cmd'[w] = None
        /\ \A v \in Cpus : v # w => cmd'[v] = cmd[v]
    BY <1>0, <1>8, <2>2 DEF StopPut, AddRun, WorkerTypeOK
  <2>4. Len(toVisit) \in Nat /\ 1 \in 1 .. Len(toVisit)
    BY <1>0, <2>1, EmptySeq, LenProperties
  <2>5. Live(w)
    BY <2>1, <2>2, <2>4
  <2>6. Stopping(w)'
    BY <2>1, <2>3, <2>5 DEF Live, Stopping
  <2>7. \A v \in Cpus : v # w => (Live(v) => Live(v)') /\ (Stopped(v) => Stopped(v)')
    BY <2>1, <2>3 DEF Live, Stopped
  <2> QED BY <2>1, <2>2, <2>4, <2>6, <2>7
<1>9. CASE StopGetResult
  <2>1. /\ toVisit # <<>> /\ UNCHANGED <<cmd, wpc, toVisit>>
        /\ cpc = "stopGet" /\ cpc' = "stopGet"
    BY <1>9 DEF StopGetResult, Shape
  <2>2. PICK w \in Cpus : w = Head(toVisit) /\ w = toVisit[1]
    BY <1>0, <2>1, HeadTailProperties
  <2>3. /\ resQ[w] # <<>> /\ resQ' = [resQ EXCEPT ![w] = Tail(@)]
        /\ Head(resQ[w]) # None
    BY <1>9, <2>2 DEF StopGetResult
  <2>4. /\ Stopping(w) => Stopping(w)'
        /\ \A v \in Cpus : v # w => (Live(v) => Live(v)') /\ (Stopped(v) => Stopped(v)')
    BY <2>1, <2>3, StopTaken
  <2> QED BY <2>1, <2>2, <2>4
<1>10. CASE StopGetNone
  <2>1. /\ toVisit # <<>> /\ UNCHANGED <<cmd, wpc>> /\ toVisit' = Tail(toVisit)
        /\ cpc = "stopGet" /\ cpc' = "stopPut"
    BY <1>10 DEF StopGetNone, Shape
  <2>2. PICK w \in Cpus : w = Head(toVisit) /\ w = toVisit[1]
    BY <1>0, <2>1, HeadTailProperties
  <2>3. /\ resQ[w] # <<>> /\ resQ' = [resQ EXCEPT ![w] = Tail(@)]
        /\ Head(resQ[w]) = None
    BY <1>10, <2>2 DEF StopGetNone
  <2>4. /\ Stopping(w) => Stopped(w)'
        /\ \A v \in Cpus : v # w => (Live(v) => Live(v)') /\ (Stopped(v) => Stopped(v)')
    BY <2>1, <2>3, StopTaken
  <2>5. /\ Len(toVisit) \in Nat /\ 1 \in 1 .. Len(toVisit)
        /\ Len(toVisit') = Len(toVisit) - 1
        /\ \A k \in 1 .. Len(toVisit) - 1 : toVisit'[k] = toVisit[k + 1]
    BY <1>0, <2>1, EmptySeq, LenProperties, HeadTailProperties
  <2>6. \A j, k \in 1 .. Len(toVisit') : toVisit'[j] = toVisit'[k] => j = k
    <3>1. ASSUME NEW j \in 1 .. Len(toVisit'), NEW k \in 1 .. Len(toVisit'),
                 toVisit'[j] = toVisit'[k]
          PROVE  j = k
      <4>1. /\ j + 1 \in 1 .. Len(toVisit) /\ k + 1 \in 1 .. Len(toVisit)
            /\ toVisit[j + 1] = toVisit[k + 1]
        BY <2>5, <3>1
      <4>2. j + 1 = k + 1
        BY <2>1, <4>1
      <4> QED BY <2>5, <4>2
    <3> QED BY <3>1
  <2>7. ASSUME NEW v \in Cpus
        PROVE  (\E k \in 1 .. Len(toVisit') : toVisit'[k] = v)
                 <=> v # w /\ \E k \in 1 .. Len(toVisit) : toVisit[k] = v
    <3>1. ASSUME NEW k \in 1 .. Len(toVisit'), toVisit'[k] = v
          PROVE  v # w /\ \E l \in 1 .. Len(toVisit) : toVisit[l] = v
      <4>1. k + 1 \in 1 .. Len(toVisit) /\ toVisit[k + 1] = v /\ k + 1 # 1
        BY <2>5, <3>1
      <4>2. v # w
        BY <2>1, <2>2, <2>5, <4>1
      <4> QED BY <4>1, <4>2
    <3>2. ASSUME v # w, NEW k \in 1 .. Len(toVisit), toVisit[k] = v
          PROVE  \E l \in 1 .. Len(toVisit') : toVisit'[l] = v
      <4>1. k - 1 \in 1 .. Len(toVisit') /\ toVisit'[k - 1] = toVisit[k]
        BY <2>2, <2>5, <3>2
      <4> QED BY <3>2, <4>1
    <3> QED BY <3>1, <3>2
  <2>8. Stopped(w)'
    BY <2>1, <2>2, <2>4, <2>5
  <2>9. ASSUME NEW v \in Cpus
        PROVE  IF \E k \in 1 .. Len(toVisit') : toVisit'[k] = v THEN Live(v)' ELSE Stopped(v)'
    BY <2>1, <2>2, <2>4, <2>7, <2>8
  <2> QED BY <2>1, <2>6, <2>9
<1> QED
  BY <1>2, <1>3, <1>4, <1>5, <1>6, <1>7, <1>8, <1>9, <1>10
  DEF Controller, Place, Collect, Stop, Still

-----------------------------------------------------------------------------
(***************************************************************************)
(* RunsInv is inductive, given the invariant of the locks: it holds of a   *)
(* new controller, and every step of every thread keeps it.                *)
(***************************************************************************)
THEOREM RunsInvCorrect == Spec => []RunsInv
<1>1. Init => RunsInv
  <2> SUFFICES ASSUME Init PROVE RunsOnce /\ StopOrder /\ HeldForSomebody
    BY DEF RunsInv
  <2>1. /\ \A w \in Cpus : /\ cmd[w] = Empty /\ wpc[w] = "get" /\ resQ[w] = <<>>
                           /\ ~lock[w]
        /\ cpc = "prerun" /\ nextRunId = 0
        /\ failed = {} /\ \A b \in Benchmarks : runtimes[b] = {}
    BY DEF Init, WorkerInit, All
  <2>2. ASSUME NEW i \in Nat
        PROVE  Placed(i)
    <3>1. InQueue(i) = {} /\ InThread(i) = {} /\ InFailed(i) = {}
      BY <2>1, ConstantsAssumption DEF InQueue, InThread, InFailed, Unfinished
    <3>2. InRuntimes(i) = {}
      BY <2>1 DEF InRuntimes
    <3>3. InResults(i) = {}
      BY <2>1 DEF InResults
    <3> QED BY <2>1, <3>1, <3>2, <3>3 DEF Placed, Places
  <2> QED BY <2>1, <2>2 DEF RunsOnce, StopOrder, HeldForSomebody
<1>2. TypeOK /\ Shape /\ RunsInv /\ [Next]_vars => RunsInv'
  <2> SUFFICES ASSUME TypeOK, Shape, RunsInv, [Next]_vars
               PROVE  RunsOnce' /\ StopOrder' /\ HeldForSomebody'
    BY DEF RunsInv
  <2>1. (\A i \in Nat : Placed(i)) /\ StopOrder /\ HeldForSomebody
    BY DEF RunsInv, RunsOnce
  <2>2. ASSUME NEW w \in Cpus, WorkerNext(w)
        PROVE  RunsOnce' /\ StopOrder' /\ HeldForSomebody'
    BY <2>1, <2>2, PlacedWorker, StopOrderWorker, HeldWorker DEF RunsOnce
  <2>3. CASE Controller
    BY <2>1, <2>3, PlacedController, StopOrderController, HeldController DEF RunsOnce
  <2>4. CASE UNCHANGED vars
    <3>1. /\ UNCHANGED <<cmd, resQ, lock, wpc, task>>
          /\ UNCHANGED <<cpc, nextRunId, toVisit, extra, runtimes, failed>>
      BY <2>4 DEF vars, workerVars, controlVars, placeVars, recordVars
    <3>2. RunsOnce'
      <4> SUFFICES ASSUME NEW i \in Nat PROVE Placed(i)'
        BY DEF RunsOnce
      <4>1. InQueue(i)' = InQueue(i) /\ InThread(i)' = InThread(i)
        BY <3>1 DEF InQueue, InThread
      <4>2. InResults(i)' = InResults(i)
        BY <3>1 DEF InResults
      <4>3. InRuntimes(i)' = InRuntimes(i) /\ InFailed(i)' = InFailed(i)
        BY <3>1 DEF InRuntimes, InFailed
      <4>4. Places(i)' = Places(i)
        BY <4>1, <4>2, <4>3 DEF Places
      <4> QED BY <2>1, <3>1, <4>4 DEF Placed
    <3>3. StopOrder'
      BY <2>1, <3>1 DEF StopOrder, Live, Stopping, Stopped
    <3>4. HeldForSomebody'
      BY <2>1, <3>1 DEF HeldForSomebody, InLock, Reserved, QueueExtra, TaskExtra
    <3> QED BY <3>2, <3>3, <3>4
  <2> QED BY <2>2, <2>3, <2>4 DEF Next, Terminated
<1>3. IndInv => TypeOK /\ Shape
  BY DEF IndInv
<1> QED BY <1>1, <1>2, <1>3, IndInvCorrect, PTL DEF Spec

(***************************************************************************)
(* Every run of a trial is in exactly one place at any time, whatever      *)
(* fails: none is lost between the queues, the thread and the records of   *)
(* parallel_bench_lib.py, none is executed, recorded or logged twice.      *)
(***************************************************************************)
THEOREM RunsCorrect == Spec => []EveryRunOnce
<1>1. RunsInv /\ TypeOK => EveryRunOnce
  <2> SUFFICES ASSUME RunsInv, TypeOK, NEW i \in 0 .. MaxRuns
               PROVE  Cardinality(Whereabouts(i)) = IF i < nextRunId THEN 1 ELSE 0
    BY DEF EveryRunOnce
  <2>1. i \in Nat /\ Placed(i)
    BY ControllerAssumption DEF RunsInv, RunsOnce
  <2>2. Whereabouts(i) = Places(i)
    BY DEF Whereabouts, Places, InQueue, InThread, InResults, InRuntimes, InFailed, Unfinished
  <2>3. CASE i < nextRunId
    BY <2>1, <2>2, <2>3, FS_Singleton DEF Placed
  <2>4. CASE ~(i < nextRunId)
    BY <2>1, <2>2, <2>4, FS_EmptySet DEF Placed
  <2> QED BY <2>3, <2>4
<1> QED BY <1>1, RunsInvCorrect, TypeCorrect, PTL

(***************************************************************************)
(* When Run() has stopped its workers every run of the trial is in         *)
(* self.runtimes or was logged as failed, and no worker holds a command, a *)
(* result or a task: Join waits for nobody and the report lacks nothing.   *)
(***************************************************************************)
THEOREM TrialsCorrect == Spec => []TrialComplete
<1>1. RunsInv /\ TypeOK => TrialComplete
  <2> SUFFICES ASSUME RunsInv, TypeOK, cpc \in {"join", "done"}
               PROVE  /\ \A i \in 0 .. nextRunId - 1 :
                           \E r \in (UNION Range(runtimes)) \cup failed : r.run = i
                      /\ \A w \in Cpus :
                           wpc[w] = "exited" /\ cmd[w] = Empty /\ resQ[w] = <<>>
    BY DEF TrialComplete
  <2>1. \A w \in Cpus : wpc[w] = "exited" /\ cmd[w] = Empty /\ resQ[w] = <<>>
    BY DEF RunsInv, StopOrder, Stopped
  <2>2. ASSUME NEW i \in 0 .. nextRunId - 1
        PROVE  \E r \in (UNION Range(runtimes)) \cup failed : r.run = i
    <3>1. i \in Nat /\ i < nextRunId
      BY DEF TypeOK
    <3>2. PICK p : Places(i) = {p}
      BY <3>1 DEF RunsInv, RunsOnce, Placed
    <3>3. InQueue(i) = {} /\ InThread(i) = {}
      BY <2>1, ConstantsAssumption DEF InQueue, InThread, Unfinished
    <3>4. InResults(i) = {}
      BY <2>1 DEF InResults
    <3>5. CASE p \in InRuntimes(i)
      <4>1. PICK b \in Benchmarks : \E r \in runtimes[b] : r.run = i
        BY <3>5 DEF InRuntimes
      <4>2. runtimes[b] \in Range(runtimes)
        <5>1. DOMAIN runtimes = Benchmarks
          BY DEF TypeOK
        <5> QED BY <5>1 DEF Range
      <4> QED BY <4>1, <4>2
    <3>6. CASE p \in InFailed(i)
      BY <3>6 DEF InFailed
    <3> QED BY <3>2, <3>3, <3>4, <3>5, <3>6 DEF Places
  <2> QED BY <2>1, <2>2
<1> QED BY <1>1, RunsInvCorrect, TypeCorrect, PTL

(***************************************************************************)
(* With affinity on and no Execute that raises, a worker that is locked is *)
(* locked by a run that still exists: no path of the placement loop        *)
(* (parallel_bench_lib.py:408) or of Worker.run forgets an Unblock.        *)
(***************************************************************************)
THEOREM NothingOrphaned == Spec => []NoOrphanedBlock
<1>1. RunsInv => NoOrphanedBlock
  <2> SUFFICES ASSUME RunsInv, Affinity, "raised" \notin Outcomes,
                      NEW x \in Cpus, lock[x]
               PROVE  \E o \in Owners : x \in Claims(o)
    BY DEF NoOrphanedBlock
  <2>1. InLock(x) \/ Reserved(x)
    BY DEF RunsInv, HeldForSomebody
  <2>2. /\ \A w \in Cpus : /\ Claims(<<"self", w>>) = IF InLock(w) THEN {w} ELSE {}
                           /\ Claims(<<"queue", w>>) = QueueExtra(w)
                           /\ Claims(<<"task", w>>) = TaskExtra(w)
        /\ Claims(<<"controller">>) = extra
    BY DEF Claims
  <2>3. \A w \in Cpus : /\ <<"self", w>> \in Owners /\ <<"queue", w>> \in Owners
                       /\ <<"task", w>> \in Owners /\ <<"controller">> \in Owners
    BY DEF Owners
  <2>4. CASE InLock(x)
    BY <2>2, <2>3, <2>4
  <2>5. CASE x \in extra
    BY <2>2, <2>3, <2>5
  <2>6. ASSUME NEW w \in Cpus, x \in QueueExtra(w) \cup TaskExtra(w)
        PROVE  \E o \in Owners : x \in Claims(o)
    BY <2>2, <2>3, <2>6
  <2> QED BY <2>1, <2>4, <2>5, <2>6 DEF Reserved
<1> QED BY <1>1, RunsInvCorrect, PTL

-----------------------------------------------------------------------------
(***************************************************************************)
(* The parallel runner implements RunLifecycle when threads are bound to   *)
(* CPUs.                                                                   *)
(***************************************************************************)

(***************************************************************************)
(* Where the abstract sets take their members from.                        *)
(***************************************************************************)
LEMMA WaitingIff ==
  ASSUME NEW i
  PROVE  i \in WaitingRuns <=>
           \E v \in Cpus : \/ cmd[v] \in Task /\ cmd[v].run = i
                           \/ wpc[v] = "lock" /\ task[v].run = i
BY DEF WaitingRuns

LEMMA RunningIff ==
  ASSUME NEW e
  PROVE  e \in RunningRuns <=>
           \E v \in Cpus : wpc[v] = "exec" /\ e = [run |-> task[v].run, cpus |-> mask[v]]
BY DEF RunningRuns

LEMMA LostIff ==
  ASSUME NEW i
  PROVE  i \in LostRuns <=> \E v \in Cpus : wpc[v] = "dead" /\ task[v].run = i
BY DEF LostRuns

LEMMA SettledIff ==
  ASSUME NEW i
  PROVE  i \in SettledRuns <=> InRuntimes(i) \cup InFailed(i) # {}
<1>1. i \in SettledRuns <=> \/ \E b \in Benchmarks : \E r \in runtimes[b] : r.run = i
                            \/ \E r \in failed : r.run = i
  BY DEF SettledRuns
<1>2. InRuntimes(i) # {} <=> \E b \in Benchmarks : \E r \in runtimes[b] : r.run = i
  <2>1. ASSUME NEW b \in Benchmarks, NEW r \in runtimes[b], r.run = i
        PROVE  <<"runtimes", b, r>> \in InRuntimes(i)
    BY <2>1 DEF InRuntimes
  <2>2. ASSUME NEW p \in InRuntimes(i)
        PROVE  \E b \in Benchmarks : \E r \in runtimes[b] : r.run = i
    BY DEF InRuntimes
  <2> QED BY <2>1, <2>2
<1>3. InFailed(i) # {} <=> \E r \in failed : r.run = i
  BY DEF InFailed
<1> QED BY <1>1, <1>2, <1>3

LEMMA FinishedIff ==
  ASSUME TypeOK, NEW i
  PROVE  /\ i \in FinishedRuns <=> InResults(i) # {}
         /\ i \in FinishedRuns => i \in Nat
<1>1. \A w \in Cpus : resQ[w] \in Seq(Result \cup {None})
  BY DEF TypeOK, WorkerTypeOK
<1>2. \A w \in Cpus : /\ DOMAIN resQ[w] = 1 .. Len(resQ[w])
                      /\ \A k \in 1 .. Len(resQ[w]) : resQ[w][k] \in Result \cup {None}
  BY <1>1, LenProperties, ElementOfSeq
<1>3. i \in FinishedRuns <=>
        \E w \in Cpus : \E k \in 1 .. Len(resQ[w]) : resQ[w][k] # None /\ resQ[w][k].run = i
  <2>1. i \in FinishedRuns <=> \E w \in Cpus : \E r \in Range(resQ[w]) : r # None /\ r.run = i
    BY DEF FinishedRuns
  <2>2. \A w \in Cpus : (\E r \in Range(resQ[w]) : r # None /\ r.run = i) <=>
          \E k \in 1 .. Len(resQ[w]) : resQ[w][k] # None /\ resQ[w][k].run = i
    BY <1>2 DEF Range
  <2> QED BY <2>1, <2>2
<1>4. InResults(i) # {} <=>
        \E w \in Cpus : \E k \in 1 .. Len(resQ[w]) : resQ[w][k] # None /\ resQ[w][k].run = i
  <2>1. ASSUME NEW w \in Cpus, NEW k \in 1 .. Len(resQ[w]), resQ[w][k] # None, resQ[w][k].run = i
        PROVE  <<"results", w, k>> \in InResults(i)
    BY <2>1, InResultsIff
  <2>2. ASSUME NEW p \in InResults(i)
        PROVE  \E w \in Cpus : \E k \in 1 .. Len(resQ[w]) :
                 resQ[w][k] # None /\ resQ[w][k].run = i
    BY InResultsIff
  <2> QED BY <2>1, <2>2
<1>5. i \in FinishedRuns => i \in Nat
  BY <1>2, <1>3 DEF Result
<1> QED BY <1>3, <1>4, <1>5

LEMMA FinishedAre ==
  TypeOK => FinishedRuns = {i \in Nat : InResults(i) # {}}
<1> SUFFICES ASSUME TypeOK PROVE FinishedRuns = {i \in Nat : InResults(i) # {}}
  OBVIOUS
<1>1. ASSUME NEW i PROVE i \in FinishedRuns <=> i \in Nat /\ InResults(i) # {}
  BY FinishedIff
<1> QED BY <1>1

LEMMA FinishedAreNext ==
  (TypeOK => FinishedRuns = {i \in Nat : InResults(i) # {}})'
BY FinishedAre, PTL

(***************************************************************************)
(* A run is in one place only.                                             *)
(***************************************************************************)
LEMMA OnePlace ==
  ASSUME RunsOnce, NEW i \in Nat, NEW p \in Places(i), NEW q \in Places(i)
  PROVE  p = q
BY DEF RunsOnce, Placed

(***************************************************************************)
(* What leaves each abstract set alone.                                    *)
(***************************************************************************)
LEMMA SameThreads ==
  ASSUME \A v \in Cpus :
           /\ wpc'[v] = wpc[v] \/ {wpc[v], wpc'[v]} \cap {"exec", "dead"} = {}
           /\ wpc[v] \in {"exec", "dead"} => task'[v] = task[v] /\ mask'[v] = mask[v]
  PROVE  RunningRuns' = RunningRuns /\ LostRuns' = LostRuns
<1>1. \A v \in Cpus : /\ wpc'[v] = "exec" <=> wpc[v] = "exec"
                      /\ wpc'[v] = "dead" <=> wpc[v] = "dead"
  OBVIOUS
<1>2. ASSUME NEW e PROVE e \in RunningRuns' <=> e \in RunningRuns
  BY <1>1 DEF RunningRuns
<1>3. ASSUME NEW i PROVE i \in LostRuns' <=> i \in LostRuns
  BY <1>1 DEF LostRuns
<1> QED BY <1>2, <1>3

LEMMA SameWaiting ==
  ASSUME \A v \in Cpus :
           /\ cmd'[v] = cmd[v] \/ (cmd'[v] \notin Task /\ cmd[v] \notin Task)
           /\ wpc'[v] = "lock" <=> wpc[v] = "lock"
           /\ wpc[v] = "lock" => task'[v] = task[v]
  PROVE  WaitingRuns' = WaitingRuns
<1>1. ASSUME NEW i PROVE i \in WaitingRuns' <=> i \in WaitingRuns
  BY DEF WaitingRuns
<1> QED BY <1>1

-----------------------------------------------------------------------------
(***************************************************************************)
(* A step of the life of the runs, or none.                                *)
(***************************************************************************)
LifeStep == [Lifecycle!LifeNext]_(Lifecycle!lifeVars)

LEMMA NoLifeStep ==
  ASSUME nextRunId' = nextRunId, WaitingRuns' = WaitingRuns, RunningRuns' = RunningRuns,
         FinishedRuns' = FinishedRuns, SettledRuns' = SettledRuns, LostRuns' = LostRuns
  PROVE  LifeStep
BY DEF LifeStep, Lifecycle!lifeVars

(***************************************************************************)
(* A thread that has its lock starts a run on CPUs that no other executes  *)
(* on.                                                                     *)
(***************************************************************************)
LEMMA AcquireStarts ==
  ASSUME TypeOK, Shape, RunsOnce, MaskShape', CpuExclusive', Affinity,
         NEW w \in Cpus, Acquire(w), UNCHANGED controlVars
  PROVE  LifeStep
<1>0. /\ WorkerTypeOK /\ task[w] \in Task /\ wpc[w] = "lock"
      /\ UNCHANGED <<cmd, resQ, task, nextRunId, runtimes, failed>>
      /\ \A v \in Cpus : wpc'[v] = IF v = w THEN "exec" ELSE wpc[v]
  BY DEF TypeOK, WorkerTypeOK, Shape, Acquire, controlVars, recordVars
<1>1. \A v \in Cpus : v # w => mask'[v] = mask[v]
  BY <1>0 DEF Acquire, WorkerTypeOK
<1>2. mask'[w] \in (SUBSET Cpus) \ {{}}
  <2>1. mask'[w] = {w} \cup TaskExtra(w)'
    BY <1>0 DEF MaskShape
  <2>2. TaskExtra(w)' \subseteq Cpus
    BY <1>0 DEF TaskExtra, Task
  <2> QED BY <2>1, <2>2
<1>3. PICK i \in Nat : i = task[w].run
  BY <1>0 DEF Task
<1>4. PICK S \in (SUBSET Cpus) \ {{}} : S = mask'[w]
  BY <1>2
<1>5. i \in WaitingRuns
  BY <1>0, <1>3, WaitingIff
<1>6. \A e \in RunningRuns : e.cpus \cap S = {}
  <2> SUFFICES ASSUME NEW e \in RunningRuns PROVE e.cpus \cap S = {}
    OBVIOUS
  <2>1. PICK v \in Cpus : wpc[v] = "exec" /\ e = [run |-> task[v].run, cpus |-> mask[v]]
    BY RunningIff
  <2>2. v # w /\ wpc'[v] = "exec" /\ wpc'[w] = "exec"
    BY <1>0, <2>1
  <2>3. mask'[v] \cap mask'[w] = {}
    BY <2>2 DEF CpuExclusive
  <2> QED BY <1>1, <1>4, <2>1, <2>2, <2>3
<1>7. WaitingRuns' = WaitingRuns \ {i}
  <2>1. <<"task", w>> \in Places(i)
    BY <1>0, <1>3 DEF Places, InThread, Unfinished
  <2>2. ASSUME NEW v \in Cpus, cmd[v] \in Task, cmd[v].run = i
        PROVE  FALSE
    <3>1. <<"queue", v>> \in Places(i)
      BY <2>2 DEF Places, InQueue
    <3>2. <<"queue", v>> = <<"task", w>>
      BY <2>1, <3>1, OnePlace
    <3> QED BY <3>2
  <2>3. ASSUME NEW v \in Cpus, wpc[v] = "lock", task[v].run = i
        PROVE  v = w
    <3>1. <<"task", v>> \in Places(i)
      BY <2>3 DEF Places, InThread, Unfinished
    <3>2. <<"task", v>> = <<"task", w>>
      BY <2>1, <3>1, OnePlace
    <3> QED BY <3>2
  <2>4. ASSUME NEW j PROVE j \in WaitingRuns' <=>
          \E v \in Cpus : \/ cmd[v] \in Task /\ cmd[v].run = j
                          \/ v # w /\ wpc[v] = "lock" /\ task[v].run = j
    BY <1>0 DEF WaitingRuns
  <2>5. ASSUME NEW j PROVE j \in WaitingRuns' <=> j \in WaitingRuns \ {i}
    <3>1. CASE j = i
      BY <2>2, <2>3, <2>4, <3>1
    <3>2. CASE j # i
      BY <1>3, <2>4, <3>2, WaitingIff
    <3> QED BY <3>1, <3>2
  <2> QED BY <2>5
<1>8. RunningRuns' = RunningRuns \cup {[run |-> i, cpus |-> S]}
  <2>1. ASSUME NEW e PROVE e \in RunningRuns' <=>
          \E v \in Cpus : wpc'[v] = "exec" /\ e = [run |-> task[v].run, cpus |-> mask'[v]]
    BY <1>0 DEF RunningRuns
  <2>2. ASSUME NEW e PROVE e \in RunningRuns' <=> e \in RunningRuns \cup {[run |-> i, cpus |-> S]}
    BY <1>0, <1>1, <1>3, <1>4, <2>1, RunningIff
  <2> QED BY <2>2
<1>9. LostRuns' = LostRuns /\ FinishedRuns' = FinishedRuns /\ SettledRuns' = SettledRuns
  <2>1. ASSUME NEW j PROVE j \in LostRuns' <=> j \in LostRuns
    BY <1>0 DEF LostRuns
  <2> QED BY <1>0, <2>1 DEF FinishedRuns, SettledRuns
<1>10. Lifecycle!Start(i, S)
  BY <1>0, <1>6, <1>7, <1>8, <1>9 DEF Lifecycle!Start
<1> QED BY <1>4, <1>5, <1>10 DEF LifeStep, Lifecycle!LifeNext

(***************************************************************************)
(* A thread executes one run at a time, and no other thread the same: when *)
(* it leaves Execute exactly that run is no longer running.                *)
(***************************************************************************)
LEMMA ExecutionEnds ==
  ASSUME TypeOK, RunsOnce, NEW w \in Cpus, wpc[w] = "exec", task[w] \in Task,
         NEW pc, pc # "exec", wpc' = [wpc EXCEPT ![w] = pc], UNCHANGED <<task, mask>>
  PROVE  LET e == [run |-> task[w].run, cpus |-> mask[w]]
         IN e \in RunningRuns /\ RunningRuns' = RunningRuns \ {e}
<1> DEFINE e == [run |-> task[w].run, cpus |-> mask[w]]
<1>1. \A v \in Cpus : wpc'[v] = IF v = w THEN pc ELSE wpc[v]
  BY DEF TypeOK, WorkerTypeOK
<1>2. ASSUME NEW v \in Cpus, wpc[v] = "exec", task[v].run = task[w].run
      PROVE  v = w
  <2>1. PICK i \in Nat : i = task[w].run
    BY DEF Task
  <2>2. <<"task", v>> \in Places(i) /\ <<"task", w>> \in Places(i)
    BY <1>2, <2>1 DEF Places, InThread, Unfinished
  <2>3. <<"task", v>> = <<"task", w>>
    BY <2>2, OnePlace
  <2> QED BY <2>3
<1>3. ASSUME NEW f PROVE f \in RunningRuns' <=>
        \E v \in Cpus : wpc'[v] = "exec" /\ f = [run |-> task[v].run, cpus |-> mask[v]]
  BY DEF RunningRuns
<1>4. ASSUME NEW f PROVE f \in RunningRuns' <=> f \in RunningRuns \ {e}
  <2>1. CASE f = e
    <3>1. ASSUME NEW v \in Cpus, wpc'[v] = "exec", f = [run |-> task[v].run, cpus |-> mask[v]]
          PROVE  FALSE
      <4>1. task[v].run = task[w].run
        BY <2>1, <3>1
      <4>2. v # w /\ wpc[v] = "exec"
        BY <1>1, <3>1
      <4> QED BY <1>2, <4>1, <4>2
    <3> QED BY <1>3, <2>1, <3>1
  <2>2. CASE f # e
    BY <1>1, <1>3, <2>2, RunningIff
  <2> QED BY <2>1, <2>2
<1> QED BY <1>4, RunningIff

(***************************************************************************)
(* Every step of a thread is a step of the life of its run, or none: it    *)
(* starts it, finishes it or loses it.                                     *)
(***************************************************************************)
LEMMA WorkerImplements ==
  ASSUME TypeOK, TypeOK', Shape, RunsOnce, MaskShape', CpuExclusive', Affinity,
         NEW w \in Cpus, WorkerNext(w)
  PROVE  LifeStep
<1>0. /\ WorkerTypeOK /\ WorkerStep(w) /\ UNCHANGED controlVars
      /\ UNCHANGED <<nextRunId, runtimes, failed>>
      /\ Empty \notin Task /\ None \notin Task /\ None \notin Result
  BY ConstantsAssumption DEF TypeOK, WorkerNext, controlVars, recordVars
<1>1. wpc[w] \notin {"get", "exited"} => task[w] \in Task
  BY <1>0 DEF Shape, WorkerTypeOK
<1>2. SettledRuns' = SettledRuns
  BY <1>0 DEF SettledRuns
<1>3. resQ' = resQ => FinishedRuns' = FinishedRuns
  BY DEF FinishedRuns
<1>4. CASE Get(w)
  <2>1. /\ cmd[w] \in Task /\ wpc[w] = "get" /\ resQ' = resQ /\ mask' = mask
        /\ \A v \in Cpus : /\ cmd'[v] = IF v = w THEN Empty ELSE cmd[v]
                           /\ task'[v] = IF v = w THEN cmd[w] ELSE task[v]
                           /\ wpc'[v] = IF v = w THEN "lock" ELSE wpc[v]
    BY <1>0, <1>4 DEF Get, WorkerTypeOK
  <2>2. RunningRuns' = RunningRuns /\ LostRuns' = LostRuns
    <3>1. \A v \in Cpus :
            /\ wpc'[v] = wpc[v] \/ {wpc[v], wpc'[v]} \cap {"exec", "dead"} = {}
            /\ wpc[v] \in {"exec", "dead"} => task'[v] = task[v] /\ mask'[v] = mask[v]
      BY <2>1
    <3> QED BY <3>1, SameThreads
  <2>3. ASSUME NEW i PROVE i \in WaitingRuns' <=> i \in WaitingRuns
    <3>1. i \in WaitingRuns' <=>
            \E v \in Cpus : \/ cmd'[v] \in Task /\ cmd'[v].run = i
                            \/ wpc'[v] = "lock" /\ task'[v].run = i
      BY DEF WaitingRuns
    <3>2. ASSUME NEW v \in Cpus
          PROVE  (\/ cmd'[v] \in Task /\ cmd'[v].run = i
                  \/ wpc'[v] = "lock" /\ task'[v].run = i)
                 <=> (\/ cmd[v] \in Task /\ cmd[v].run = i
                      \/ wpc[v] = "lock" /\ task[v].run = i)
      BY <1>0, <2>1
    <3> QED BY <3>1, <3>2, WaitingIff
  <2> QED BY <1>0, <1>2, <1>3, <2>1, <2>2, <2>3, NoLifeStep
<1>5. CASE GetStop(w)
  <2>1. /\ cmd[w] = None /\ wpc[w] = "get" /\ UNCHANGED <<task, mask>>
        /\ resQ' = [resQ EXCEPT ![w] = Append(@, None)]
        /\ \A v \in Cpus : /\ cmd'[v] = IF v = w THEN Empty ELSE cmd[v]
                           /\ wpc'[v] = IF v = w THEN "exited" ELSE wpc[v]
    BY <1>0, <1>5 DEF GetStop, WorkerTypeOK
  <2>2. RunningRuns' = RunningRuns /\ LostRuns' = LostRuns
    BY <2>1, SameThreads
  <2>3. WaitingRuns' = WaitingRuns
    BY <1>0, <2>1, SameWaiting
  <2>4. ASSUME NEW i PROVE i \in FinishedRuns' <=> i \in FinishedRuns
    <3>1. InResults(i)' = InResults(i)
      BY <2>1, LastPut
    <3>2. i \in FinishedRuns <=> i \in Nat /\ InResults(i) # {}
      BY FinishedAre
    <3>3. i \in FinishedRuns' <=> i \in Nat /\ InResults(i)' # {}
      BY FinishedAreNext
    <3> QED BY <3>1, <3>2, <3>3
  <2> QED BY <1>0, <1>2, <2>2, <2>3, <2>4, NoLifeStep
<1>6. CASE Acquire(w)
  BY <1>0, <1>6, AcquireStarts
<1>7. CASE Execute(w)
  <2>1. task[w] \in Task /\ wpc[w] = "exec" /\ UNCHANGED <<cmd, task, mask>>
        /\ wpc' = [wpc EXCEPT ![w] = "unwind"]
    BY <1>1, <1>7 DEF Execute
  <2>2. PICK rc \in Outcomes \ {"raised"} :
          resQ' = [resQ EXCEPT ![w] = Append(@,
             [run |-> task[w].run, benchmark |-> task[w].benchmark, rc |-> rc])]
    BY <1>7 DEF Execute
  <2>3. PICK r \in Result : r = [run |-> task[w].run, benchmark |-> task[w].benchmark, rc |-> rc]
    BY <2>1, ConstantsAssumption DEF Task, Result
  <2>4. PICK e \in RunningRuns : /\ e = [run |-> task[w].run, cpus |-> mask[w]]
                                /\ RunningRuns' = RunningRuns \ {e}
    BY <2>1, ExecutionEnds
  <2>5. ASSUME NEW i PROVE i \in FinishedRuns' <=> i \in FinishedRuns \cup {e.run}
    <3>1. InResults(i)' = IF r.run = i
                          THEN InResults(i) \cup {<<"results", w, Len(resQ[w]) + 1>>}
                          ELSE InResults(i)
      <4>1. resQ' = [resQ EXCEPT ![w] = Append(@, r)] /\ r # None
        BY <1>0, <2>2, <2>3
      <4> QED BY <4>1, LastPut
    <3>2. i \in FinishedRuns <=> i \in Nat /\ InResults(i) # {}
      BY FinishedAre
    <3>3. i \in FinishedRuns' <=> i \in Nat /\ InResults(i)' # {}
      BY FinishedAreNext
    <3>4. r.run = e.run /\ e.run \in Nat
      BY <2>1, <2>3, <2>4 DEF Task
    <3> QED BY <3>1, <3>2, <3>3, <3>4
  <2>6. \A v \in Cpus : wpc'[v] = IF v = w THEN "unwind" ELSE wpc[v]
    BY <1>0, <2>1 DEF WorkerTypeOK
  <2>7. WaitingRuns' = WaitingRuns
    BY <2>1, <2>6, SameWaiting
  <2>8. ASSUME NEW i PROVE i \in LostRuns' <=> i \in LostRuns
    BY <2>1, <2>6 DEF LostRuns
  <2>9. Lifecycle!Finish(e)
    BY <1>0, <1>2, <2>4, <2>5, <2>7, <2>8 DEF Lifecycle!Finish
  <2> QED BY <2>9 DEF LifeStep, Lifecycle!LifeNext
<1>8. CASE ExecuteRaises(w)
  <2>1. task[w] \in Task /\ wpc[w] = "exec" /\ UNCHANGED <<cmd, resQ, task, mask>>
        /\ wpc' = [wpc EXCEPT ![w] = "dead"]
    BY <1>1, <1>8 DEF ExecuteRaises
  <2>2. PICK e \in RunningRuns : /\ e = [run |-> task[w].run, cpus |-> mask[w]]
                                /\ RunningRuns' = RunningRuns \ {e}
    BY <2>1, ExecutionEnds
  <2>3. \A v \in Cpus : wpc'[v] = IF v = w THEN "dead" ELSE wpc[v]
    BY <1>0, <2>1 DEF WorkerTypeOK
  <2>4. WaitingRuns' = WaitingRuns
    BY <2>1, <2>3, SameWaiting
  <2>5. ASSUME NEW i PROVE i \in LostRuns' <=> i \in LostRuns \cup {e.run}
    <3>1. i \in LostRuns' <=> \E v \in Cpus : wpc'[v] = "dead" /\ task[v].run = i
      BY <2>1 DEF LostRuns
    <3>2. e.run = task[w].run
      BY <2>2
    <3> QED BY <2>1, <2>3, <3>1, <3>2, LostIff
  <2>6. Lifecycle!Abort(e)
    BY <1>0, <1>2, <1>3, <2>1, <2>2, <2>4, <2>5 DEF Lifecycle!Abort
  <2> QED BY <2>6 DEF LifeStep, Lifecycle!LifeNext
<1>9. CASE ResetAffinity(w) \/ UnblockExtra(w) \/ ReleaseExtra(w) \/ ReleaseOwn(w)
  <2>1. UNCHANGED <<cmd, resQ>>
    BY <1>9 DEF ResetAffinity, UnblockExtra, ReleaseExtra, ReleaseOwn
  <2>2. /\ wpc[w] \notin {"lock", "exec", "dead"} /\ wpc'[w] \notin {"lock", "exec", "dead"}
        /\ \A v \in Cpus : v # w => wpc'[v] = wpc[v] /\ task'[v] = task[v] /\ mask'[v] = mask[v]
    BY <1>0, <1>9 DEF ResetAffinity, UnblockExtra, ReleaseExtra, ReleaseOwn, WorkerTypeOK
  <2>3. RunningRuns' = RunningRuns /\ LostRuns' = LostRuns
    <3>1. \A v \in Cpus :
            /\ wpc'[v] = wpc[v] \/ {wpc[v], wpc'[v]} \cap {"exec", "dead"} = {}
            /\ wpc[v] \in {"exec", "dead"} => task'[v] = task[v] /\ mask'[v] = mask[v]
      BY <2>2
    <3> QED BY <3>1, SameThreads
  <2>4. WaitingRuns' = WaitingRuns
    <3>1. \A v \in Cpus :
            /\ cmd'[v] = cmd[v]
            /\ wpc'[v] = "lock" <=> wpc[v] = "lock"
            /\ wpc[v] = "lock" => task'[v] = task[v]
      BY <2>1, <2>2
    <3> QED BY <3>1, SameWaiting
  <2> QED BY <1>0, <1>2, <1>3, <2>1, <2>3, <2>4, NoLifeStep
<1> QED BY <1>0, <1>4, <1>5, <1>6, <1>7, <1>8, <1>9 DEF WorkerStep

-----------------------------------------------------------------------------
(***************************************************************************)
(* A result taken from a queue leaves the finished runs, alone; the None   *)
(* at the end of the results is no run.                                    *)
(***************************************************************************)
LEMMA ResultTaken ==
  ASSUME TypeOK, TypeOK', RunsOnce, NEW w \in Cpus, resQ[w] # <<>>,
         resQ' = [resQ EXCEPT ![w] = Tail(@)]
  PROVE  /\ Head(resQ[w]) = None => FinishedRuns' = FinishedRuns
         /\ Head(resQ[w]) # None =>
              /\ Head(resQ[w]) \in Result
              /\ Head(resQ[w]).run \in FinishedRuns
              /\ FinishedRuns' = FinishedRuns \ {Head(resQ[w]).run}
<1>1. PICK r \in Result \cup {None} : r = Head(resQ[w])
  <2>1. resQ[w] \in Seq(Result \cup {None})
    BY DEF TypeOK, WorkerTypeOK
  <2> QED BY <2>1, HeadTailProperties
<1>2. PICK first : first = <<"results", w, 1>>
  OBVIOUS
<1>3. ASSUME NEW i \in Nat
      PROVE  /\ i \in FinishedRuns' <=> i \in FinishedRuns /\ ~(r # None /\ r.run = i)
             /\ r # None /\ r.run = i => i \in FinishedRuns
  <2>1. /\ first \in InResults(i) <=> r # None /\ r.run = i
        /\ InResults(i) \subseteq {first} => InResults(i)' = {}
        /\ \A p : InResults(i) = {p} /\ p # first => \E q : InResults(i)' = {q}
    BY <1>1, <1>2, FirstTaken
  <2>2. i \in FinishedRuns <=> InResults(i) # {}
    BY FinishedAre
  <2>3. i \in FinishedRuns' <=> InResults(i)' # {}
    BY FinishedAreNext
  <2>4. InResults(i) = {} \/ \E p : InResults(i) = {p}
    BY DEF RunsOnce, Placed, Places
  <2> QED BY <2>1, <2>2, <2>3, <2>4
<1>4. FinishedRuns \subseteq Nat /\ FinishedRuns' \subseteq Nat
  BY FinishedAre, FinishedAreNext
<1>5. CASE r = None
  BY <1>1, <1>3, <1>4, <1>5
<1>6. CASE r # None
  <2>1. r \in Result /\ r.run \in Nat
    BY <1>6 DEF Result
  <2> QED BY <1>1, <1>3, <1>4, <1>6, <2>1
<1> QED BY <1>5, <1>6

(***************************************************************************)
(* Whatever a run's outcome, taking its result settles it.                 *)
(***************************************************************************)
LEMMA ResultSettles ==
  ASSUME TypeOK, NEW r \in Result,
         \/ failed' = failed \cup {r} /\ UNCHANGED runtimes
         \/ Record(r) /\ UNCHANGED failed
  PROVE  SettledRuns' = SettledRuns \cup {r.run}
<1>1. r.benchmark \in Benchmarks
  BY DEF Result
<1>2. ASSUME NEW i PROVE i \in SettledRuns <=>
        \/ \E b \in Benchmarks : \E s \in runtimes[b] : s.run = i
        \/ \E s \in failed : s.run = i
  BY DEF SettledRuns
<1>3. ASSUME NEW i PROVE i \in SettledRuns' <=>
        \/ \E b \in Benchmarks : \E s \in runtimes'[b] : s.run = i
        \/ \E s \in failed' : s.run = i
  BY DEF SettledRuns
<1>4. CASE failed' = failed \cup {r} /\ UNCHANGED runtimes
  <2>1. ASSUME NEW i PROVE i \in SettledRuns' <=> i \in SettledRuns \cup {r.run}
    BY <1>2, <1>3, <1>4
  <2> QED BY <2>1
<1>5. CASE Record(r) /\ UNCHANGED failed
  <2>1. \A b \in Benchmarks :
          runtimes'[b] = IF b = r.benchmark THEN runtimes[b] \cup {r} ELSE runtimes[b]
    BY <1>5 DEF Record, TypeOK
  <2>2. ASSUME NEW i
        PROVE  (\E b \in Benchmarks : \E s \in runtimes'[b] : s.run = i) <=>
                 (\E b \in Benchmarks : \E s \in runtimes[b] : s.run = i) \/ i = r.run
    <3>1. r \in runtimes'[r.benchmark]
      BY <1>1, <2>1
    <3>2. \A b \in Benchmarks : \A s \in runtimes[b] : s \in runtimes'[b]
      BY <2>1
    <3>3. \A b \in Benchmarks : \A s \in runtimes'[b] : s \in runtimes[b] \/ s = r
      BY <2>1
    <3> QED BY <1>1, <3>1, <3>2, <3>3
  <2>3. ASSUME NEW i PROVE i \in SettledRuns' <=> i \in SettledRuns \cup {r.run}
    BY <1>2, <1>3, <1>5, <2>2
  <2> QED BY <2>3
<1> QED BY <1>4, <1>5

(***************************************************************************)
(* Every step of the controller is a step of the life of the runs, or      *)
(* none: it issues one, settles one, or starts a trial when none is left.  *)
(***************************************************************************)
LEMMA ControllerImplements ==
  ASSUME TypeOK, TypeOK', Shape, RunsOnce, StopOrder, Controller
  PROVE  LifeStep
<1>0. /\ WorkerTypeOK /\ Empty \notin Task /\ None \notin Task
      /\ cursor \in Seq(Cpus) /\ toVisit \in Seq(Cpus) /\ nextRunId \in Nat
  BY ConstantsAssumption DEF TypeOK
<1>1. CASE Still
  <2>1. UNCHANGED <<cmd, resQ, wpc, task, nextRunId, runtimes, failed>>
    BY <1>1, StillUnchanged
  <2>2. mask' = mask
    <3> USE DEF workerVars
    <3>1. CASE TimeUp \/ Sample \/ PickBenchmark \/ PickDone \/ Reserve \/ SkipCpu
      BY <3>1 DEF TimeUp, Sample, PickBenchmark, PickDone, Reserve, SkipCpu
    <3>2. CASE GiveUp \/ Undo \/ CollectNext \/ CollectDone \/ StopDone \/ Join
      BY <3>2 DEF GiveUp, Undo, UndoReserve, UndoRelease, UndoDone, CollectNext, CollectDone,
         StopDone, Join
    <3> QED BY <1>1, <3>1, <3>2 DEF Still
  <2>3. /\ WaitingRuns' = WaitingRuns /\ RunningRuns' = RunningRuns
        /\ FinishedRuns' = FinishedRuns /\ SettledRuns' = SettledRuns
        /\ LostRuns' = LostRuns
    BY <2>1, <2>2 DEF WaitingRuns, RunningRuns, FinishedRuns, SettledRuns, LostRuns
  <2> QED BY <2>1, <2>3, NoLifeStep
<1>2. CASE PreRun
  <2>1. /\ cpc = "prerun" /\ nextRunId' = 0 /\ failed' = {}
        /\ \A b \in Benchmarks : runtimes'[b] = {}
        /\ \A w \in Cpus : cmd'[w] = Empty /\ wpc'[w] = "get" /\ resQ'[w] = <<>>
    BY <1>2 DEF PreRun, StartWorkers, All
  <2>2. \A w \in Cpus : wpc[w] \in {"get", "exited"} /\ cmd[w] = Empty /\ resQ[w] = <<>>
    BY <2>1 DEF StopOrder
  <2>3. WaitingRuns = {} /\ RunningRuns = {} /\ LostRuns = {}
    BY <1>0, <2>2 DEF WaitingRuns, RunningRuns, LostRuns
  <2>4. WaitingRuns' = {} /\ RunningRuns' = {} /\ LostRuns' = {}
    BY <1>0, <2>1 DEF WaitingRuns, RunningRuns, LostRuns
  <2>5. FinishedRuns = {} /\ FinishedRuns' = {}
    BY <2>1, <2>2 DEF FinishedRuns, Range
  <2>6. SettledRuns' = {}
    BY <2>1 DEF SettledRuns
  <2>7. Lifecycle!NewTrial
    BY <2>1, <2>3, <2>4, <2>5, <2>6 DEF Lifecycle!NewTrial
  <2> QED BY <2>7 DEF LifeStep, Lifecycle!LifeNext
<1>3. CASE Dispatch
  <2>1. PICK h \in Cpus : h = Head(cursor)
    BY <1>0, <1>3, HeadTailProperties DEF Dispatch
  <2>2. PICK t \in Task : t = [run |-> nextRunId, benchmark |-> Head(todo), extra |-> extra]
    <3>1. Head(todo) \in Benchmarks
      BY <1>3, HeadTailProperties DEF Dispatch, TypeOK, Shape
    <3> QED BY <3>1 DEF Task, TypeOK
  <2>3. /\ cmd[h] = Empty /\ cmd' = [cmd EXCEPT ![h] = t]
        /\ nextRunId' = nextRunId + 1 /\ t.run = nextRunId
        /\ UNCHANGED <<resQ, wpc, task, mask, runtimes, failed>>
    BY <1>3, <2>1, <2>2 DEF Dispatch, AddRun, CanAddRun, recordVars
  <2>4. \A v \in Cpus : cmd'[v] = IF v = h THEN t ELSE cmd[v]
    BY <1>0, <2>3 DEF WorkerTypeOK
  <2>5. ASSUME NEW i PROVE i \in WaitingRuns' <=> i \in WaitingRuns \cup {nextRunId}
    <3>1. i \in WaitingRuns' <=>
            \E v \in Cpus : \/ cmd'[v] \in Task /\ cmd'[v].run = i
                            \/ wpc[v] = "lock" /\ task[v].run = i
      BY <2>3 DEF WaitingRuns
    <3>2. ASSUME NEW v \in Cpus
          PROVE  cmd'[v] \in Task /\ cmd'[v].run = i <=>
                   \/ cmd[v] \in Task /\ cmd[v].run = i
                   \/ v = h /\ i = nextRunId
      BY <1>0, <2>3, <2>4
    <3> QED BY <3>1, <3>2, WaitingIff
  <2>6. /\ RunningRuns' = RunningRuns /\ FinishedRuns' = FinishedRuns
        /\ SettledRuns' = SettledRuns /\ LostRuns' = LostRuns
    BY <2>3 DEF RunningRuns, FinishedRuns, SettledRuns, LostRuns
  <2>7. Lifecycle!Issue
    BY <2>3, <2>5, <2>6 DEF Lifecycle!Issue
  <2> QED BY <2>7 DEF LifeStep, Lifecycle!LifeNext
<1>4. CASE StopPut
  <2>1. /\ cmd[Head(toVisit)] = Empty /\ cmd' = [cmd EXCEPT ![Head(toVisit)] = None]
        /\ UNCHANGED <<resQ, wpc, task, mask, nextRunId, runtimes, failed>>
    BY <1>4 DEF StopPut, AddRun, recordVars
  <2>2. \A v \in Cpus : cmd'[v] = cmd[v] \/ (cmd[v] \notin Task /\ cmd'[v] \notin Task)
    BY <1>0, <2>1 DEF WorkerTypeOK
  <2>3. WaitingRuns' = WaitingRuns
    BY <2>1, <2>2, SameWaiting
  <2>4. /\ RunningRuns' = RunningRuns /\ FinishedRuns' = FinishedRuns
        /\ SettledRuns' = SettledRuns /\ LostRuns' = LostRuns
    BY <2>1 DEF RunningRuns, FinishedRuns, SettledRuns, LostRuns
  <2> QED BY <2>1, <2>3, <2>4, NoLifeStep
<1>5. CASE CollectResult \/ StopGetResult \/ StopGetNone
  <2>1. PICK w \in Cpus : w = Head(toVisit)
    <3>1. toVisit # <<>>
      BY <1>5 DEF CollectResult, StopGetResult, StopGetNone, Shape
    <3> QED BY <1>0, <3>1, HeadTailProperties
  <2>2. /\ resQ[w] # <<>> /\ resQ' = [resQ EXCEPT ![w] = Tail(@)]
        /\ UNCHANGED <<cmd, wpc, task, mask, nextRunId>>
    BY <1>5, <2>1 DEF CollectResult, StopGetResult, StopGetNone
  <2>3. /\ WaitingRuns' = WaitingRuns /\ RunningRuns' = RunningRuns
        /\ LostRuns' = LostRuns
    BY <2>2 DEF WaitingRuns, RunningRuns, LostRuns
  <2>4. CASE StopGetNone
    <3>1. Head(resQ[w]) = None /\ UNCHANGED <<runtimes, failed>>
      BY <2>1, <2>4 DEF StopGetNone, recordVars
    <3>2. FinishedRuns' = FinishedRuns
      BY <2>2, <3>1, ResultTaken
    <3>3. SettledRuns' = SettledRuns
      BY <3>1 DEF SettledRuns
    <3> QED BY <2>2, <2>3, <3>2, <3>3, NoLifeStep
  <2>5. CASE CollectResult \/ StopGetResult
    <3>1. /\ Head(resQ[w]) # None
          /\ \/ failed' = failed \cup {Head(resQ[w])} /\ UNCHANGED runtimes
             \/ Record(Head(resQ[w])) /\ UNCHANGED failed
      BY <2>1, <2>5 DEF CollectResult, StopGetResult
    <3>2. PICK r \in Result : r = Head(resQ[w])
      BY <2>2, <3>1, ResultTaken
    <3>3. r.run \in FinishedRuns /\ FinishedRuns' = FinishedRuns \ {r.run}
      BY <2>2, <3>1, <3>2, ResultTaken
    <3>4. SettledRuns' = SettledRuns \cup {r.run}
      BY <3>1, <3>2, ResultSettles
    <3>5. Lifecycle!Settle(r.run)
      BY <2>2, <2>3, <3>3, <3>4 DEF Lifecycle!Settle
    <3> QED BY <3>3, <3>5 DEF LifeStep, Lifecycle!LifeNext
  <2> QED BY <1>5, <2>4, <2>5
<1> QED
  BY <1>1, <1>2, <1>3, <1>4, <1>5 DEF Controller, Place, Collect, Stop, Still

-----------------------------------------------------------------------------
(***************************************************************************)
(* With threads bound to CPUs, the controller and the workers together     *)
(* implement the life of a run: whatever the interleaving, ParallelBench   *)
(* starts a run on CPUs no other run is using, executes and settles it     *)
(* once, and begins a trial only when nothing of the last one is left.     *)
(***************************************************************************)
THEOREM RefinementCorrect == Affinity => (Spec => ImplementsLifecycle)
<1> SUFFICES ASSUME Affinity PROVE Spec => ImplementsLifecycle
  OBVIOUS
<1>1. Init => Lifecycle!LifeInit
  <2> SUFFICES ASSUME Init PROVE Lifecycle!LifeInit
    OBVIOUS
  <2>1. /\ \A w \in Cpus : cmd[w] = Empty /\ wpc[w] = "get" /\ resQ[w] = <<>>
        /\ nextRunId = 0 /\ failed = {} /\ \A b \in Benchmarks : runtimes[b] = {}
        /\ Empty \notin Task
    BY ConstantsAssumption DEF Init, WorkerInit, All
  <2>2. WaitingRuns = {} /\ RunningRuns = {} /\ LostRuns = {}
    BY <2>1 DEF WaitingRuns, RunningRuns, LostRuns
  <2>3. FinishedRuns = {} /\ SettledRuns = {}
    BY <2>1 DEF FinishedRuns, SettledRuns, Range
  <2> QED BY <2>1, <2>2, <2>3 DEF Lifecycle!LifeInit
<1>2. IndInv /\ IndInv' /\ RunsInv /\ CpuExclusive' /\ [Next]_vars => LifeStep
  <2> SUFFICES ASSUME TypeOK, TypeOK', Shape, RunsOnce, StopOrder, MaskShape',
                      CpuExclusive', [Next]_vars
               PROVE  LifeStep
    BY DEF IndInv, RunsInv
  <2>1. ASSUME NEW w \in Cpus, WorkerNext(w) PROVE LifeStep
    BY <2>1, WorkerImplements
  <2>2. CASE Controller
    BY <2>2, ControllerImplements
  <2>3. CASE UNCHANGED vars
    <3>1. UNCHANGED <<cmd, resQ, wpc, task, mask, nextRunId, runtimes, failed>>
      BY <2>3 DEF vars, workerVars, controlVars, recordVars
    <3>2. /\ WaitingRuns' = WaitingRuns /\ RunningRuns' = RunningRuns
          /\ FinishedRuns' = FinishedRuns /\ SettledRuns' = SettledRuns
          /\ LostRuns' = LostRuns
      BY <3>1 DEF WaitingRuns, RunningRuns, FinishedRuns, SettledRuns, LostRuns
    <3> QED BY <3>1, <3>2, NoLifeStep
  <2> QED BY <2>1, <2>2, <2>3 DEF Next, Terminated
<1> QED
  BY <1>1, <1>2, IndInvCorrect, RunsInvCorrect, CpusExclusive, PTL
  DEF Spec, ImplementsLifecycle, Lifecycle!LifeSpec, LifeStep
=============================================================================

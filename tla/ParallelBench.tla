---------------------------- MODULE ParallelBench ----------------------------
(***************************************************************************)
(* The controller of the parallel runner                                   *)
(* (fleetbench/parallel/parallel_bench_lib.py, ParallelBench.Run) together *)
(* with the workers it drives.                                             *)
(*                                                                         *)
(* A trial (one repetition) starts fresh workers, runs the scheduling loop *)
(* until its time is up, then stops the workers one after the other and    *)
(* collects what they still hold.  Each iteration of the loop samples the  *)
(* utilization, selects benchmarks, tries to place each of them on a       *)
(* worker (with the CPUs of further workers if it needs more than one      *)
(* thread) and drains the result queues.                                   *)
(***************************************************************************)
EXTENDS Integers, FiniteSets, Functions, Worker

CONSTANTS
  CpuList,           \* self.cpus, the controller's CPU already removed
  BenchmarkList,     \* self.benchmarks, in the order of the dictionary
  BenchmarkThreads,  \* --benchmark_threads: some benchmarks -> threads
  Target,            \* self.target_utilization, in percent
  Levels,            \* the utilizations a CPU may be sampled at, in percent
  Repetitions,       \* --repetitions, the number of trials
  MaxRuns            \* bound: the runs a trial may schedule

ASSUME ControllerAssumption ==
  /\ CpuList \in Seq(Cpus) /\ Cpus = Range(CpuList)
  /\ IsInjective(CpuList) /\ CpuList # <<>>
  /\ BenchmarkList \in Seq(Benchmarks) /\ Benchmarks = Range(BenchmarkList)
  /\ IsInjective(BenchmarkList)
  /\ DOMAIN BenchmarkThreads \subseteq Benchmarks
  /\ \A b \in DOMAIN BenchmarkThreads : BenchmarkThreads[b] \in Int
  /\ Target \in 0 .. 100
  /\ Levels \subseteq 0 .. 100
  /\ Repetitions \in Nat \ {0}
  /\ MaxRuns \in Nat

VARIABLES
  cpc,        \* where Run() and _RunSchedulingLoop() are
  rep,        \* the trial
  firstRun,   \* first_run: nothing has been selected yet
  nextRunId,  \* next_run_id
  todo,       \* the selected benchmarks still to be placed
  skipped,    \* the CPUs the inner loop has passed and not used
  cursor,     \* the CPUs it has still to look at
  required,   \* required_n_threads
  extra,      \* extra_workers of the run being placed
  toVisit,    \* the workers a loop over self.workers has still to visit
  runtimes,   \* self.runtimes, without the fake first entry
  failed      \* the results that were only logged ("Benchmark failed")

(***************************************************************************)
(* least_busy_cpus is skipped \o cursor: a CPU leaves it when it is used.  *)
(***************************************************************************)
placeVars == <<skipped, cursor, required, extra>>
recordVars == <<runtimes, failed>>
controlVars ==
  <<cpc, rep, firstRun, nextRunId, todo, toVisit, placeVars, recordVars>>
vars == <<workerVars, controlVars>>

ControllerPCs == {"prerun", "top", "pick", "place", "undo", "undoRelease",
                  "collect", "stopPut", "stopGet", "join", "done"}

(***************************************************************************)
(* Types.                                                                  *)
(***************************************************************************)
TypeOK ==
  /\ WorkerTypeOK
  /\ cpc \in ControllerPCs
  /\ rep \in Nat
  /\ firstRun \in BOOLEAN
  /\ nextRunId \in Nat
  /\ todo \in Seq(Benchmarks)
  /\ skipped \in Seq(Cpus)
  /\ cursor \in Seq(Cpus)
  /\ required \in Int
  /\ extra \in SUBSET Cpus
  /\ toVisit \in Seq(Cpus)
  /\ runtimes \in [Benchmarks -> SUBSET Result]
  /\ failed \in SUBSET Result

-----------------------------------------------------------------------------
N == Len(CpuList)

ThreadsOf(b) ==
  IF b \in DOMAIN BenchmarkThreads THEN BenchmarkThreads[b] ELSE 1

(***************************************************************************)
(* The orders in which a sample lists the CPUs: least busy first, CPUs of  *)
(* the same utilization in a random order.                                 *)
(***************************************************************************)
LeastBusyOrders(u) ==
  {s \in [1 .. N -> Cpus] :
     /\ IsInjective(s)
     /\ \A i, j \in 1 .. N : i < j => u[s[i]] <= u[s[j]]}

(***************************************************************************)
(* ceil(gap / (100 / n)), the gap being to the average of the sample.      *)
(***************************************************************************)
JobsRequired(u) == -((SumFunction(u) - Target * N) \div 100)

(***************************************************************************)
(* _SelectNextBenchmarks: random, but a first selection with room for more *)
(* than every benchmark starts with all of them.                           *)
(***************************************************************************)
SelectNextBenchmarks(count) ==
  IF firstRun /\ count > Len(BenchmarkList)
  THEN {BenchmarkList \o s :
          s \in [1 .. (count - Len(BenchmarkList)) -> Benchmarks]}
  ELSE [1 .. count -> Benchmarks]

-----------------------------------------------------------------------------
Init ==
  /\ WorkerInit
  /\ cpc = "prerun"
  /\ rep = 0
  /\ firstRun = TRUE
  /\ nextRunId = 0
  /\ todo = <<>>
  /\ skipped = <<>> /\ cursor = <<>> /\ required = 0 /\ extra = {}
  /\ toVisit = <<>>
  /\ runtimes = [b \in Benchmarks |-> {}]
  /\ failed = {}

\* Mutant: the runtimes of the previous trial are kept.
PreRunKeepsRuntimes ==
  /\ cpc = "prerun"
  /\ StartWorkers
  /\ nextRunId' = 0
  /\ cpc' = "top"
  /\ UNCHANGED <<rep, firstRun, todo, toVisit, placeVars, recordVars>>

(***************************************************************************)
(* _PreRun, and the start of _RunSchedulingLoop: new runtimes, new workers,*)
(* run ids from 0.  first_run is not reset.                                *)
(***************************************************************************)
PreRun ==
  /\ cpc = "prerun"
  /\ StartWorkers
  /\ runtimes' = [b \in Benchmarks |-> {}]
  /\ failed' = {}
  /\ nextRunId' = 0
  /\ cpc' = "top"
  /\ UNCHANGED <<rep, firstRun, todo, toVisit, placeVars>>

(***************************************************************************)
(* The top of the loop: leave it when the time is up ...                   *)
(***************************************************************************)
TimeUp ==
  /\ cpc = "top"
  /\ toVisit' = CpuList
  /\ cpc' = "stopPut"
  /\ UNCHANGED <<workerVars, rep, firstRun, nextRunId, todo, placeVars, recordVars>>

(***************************************************************************)
(* ... or sample the utilization and select as many benchmarks as would    *)
(* close the gap to the target.                                            *)
(***************************************************************************)
Sample ==
  /\ cpc = "top"
  /\ \E u \in [Cpus -> Levels], count \in 0 .. N :
       /\ count = (IF JobsRequired(u) > 0 THEN JobsRequired(u) ELSE 0)
       /\ nextRunId + count <= MaxRuns
       /\ cursor' \in LeastBusyOrders(u)
       /\ todo' \in SelectNextBenchmarks(count)
       /\ firstRun' = (firstRun /\ count = 0)
  /\ skipped' = <<>>
  /\ cpc' = "pick"
  /\ UNCHANGED <<workerVars, rep, nextRunId, toVisit, required, extra, recordVars>>

(***************************************************************************)
(* The next selected benchmark, or the collection of results after the     *)
(* last.  The inner loop walks a copy of what is left of least_busy_cpus.  *)
(***************************************************************************)
PickBenchmark ==
  /\ cpc = "pick"
  /\ todo # <<>>
  /\ required' = ThreadsOf(Head(todo))
  /\ extra' = {}
  /\ cursor' = skipped \o cursor
  /\ skipped' = <<>>
  /\ cpc' = "place"
  /\ UNCHANGED <<workerVars, rep, firstRun, nextRunId, todo, toVisit, recordVars>>

PickDone ==
  /\ cpc = "pick"
  /\ todo = <<>>
  /\ toVisit' = CpuList
  /\ skipped' = <<>> /\ cursor' = <<>> /\ required' = 0 /\ extra' = {}
  /\ cpc' = "collect"
  /\ UNCHANGED <<workerVars, rep, firstRun, nextRunId, todo, recordVars>>

(***************************************************************************)
(* One CPU of the inner loop: reserve it while more threads are needed,    *)
(* else hand the run to its worker.  A refusal moves on to the next CPU.   *)
(***************************************************************************)
Reserve ==
  /\ cpc = "place" /\ cursor # <<>>
  /\ required > 1
  /\ CanBlock(Head(cursor))
  /\ Block(Head(cursor))
  /\ extra' = extra \cup {Head(cursor)}
  /\ required' = required - 1
  /\ cursor' = Tail(cursor)
  /\ UNCHANGED <<cmd, resQ, wpc, task, mask, cpc, rep, firstRun, nextRunId,
                 todo, toVisit, skipped, recordVars>>

Dispatch ==
  /\ cpc = "place" /\ cursor # <<>>
  /\ required <= 1
  /\ CanAddRun(Head(cursor))
  /\ AddRun(Head(cursor),
            [run |-> nextRunId, benchmark |-> Head(todo), extra |-> extra])
  /\ nextRunId' = nextRunId + 1
  /\ extra' = {}
  /\ todo' = Tail(todo)
  /\ cursor' = Tail(cursor)
  /\ cpc' = "pick"
  /\ UNCHANGED <<resQ, lock, inUse, wpc, task, mask, rep, firstRun, toVisit,
                 skipped, required, recordVars>>

SkipCpu ==
  /\ cpc = "place" /\ cursor # <<>>
  /\ IF required > 1 THEN ~CanBlock(Head(cursor)) ELSE ~CanAddRun(Head(cursor))
  /\ skipped' = Append(skipped, Head(cursor))
  /\ cursor' = Tail(cursor)
  /\ UNCHANGED <<workerVars, cpc, rep, firstRun, nextRunId, todo, toVisit,
                 required, extra, recordVars>>

\* Mutant: the for loop has no else branch.
GiveUpNoUnblock ==
  /\ cpc = "place" /\ cursor = <<>>
  /\ extra' = {}
  /\ cpc' = "undo"
  /\ UNCHANGED <<workerVars, rep, firstRun, nextRunId, todo, toVisit,
                 skipped, cursor, required, recordVars>>

(***************************************************************************)
(* The for loop's else branch: no CPU took the run, so it is dropped and   *)
(* every worker reserved for it is unblocked.                              *)
(***************************************************************************)
GiveUp ==
  /\ cpc = "place" /\ cursor = <<>>
  /\ cpc' = "undo"
  /\ UNCHANGED <<workerVars, rep, firstRun, nextRunId, todo, toVisit,
                 placeVars, recordVars>>

UndoReserve ==
  /\ cpc = "undo" /\ extra # {}
  /\ Unblock(NextExtra(extra), "flag")
  /\ cpc' = "undoRelease"
  /\ UNCHANGED <<cmd, resQ, wpc, task, mask, rep, firstRun, nextRunId, todo,
                 toVisit, placeVars, recordVars>>

UndoRelease ==
  /\ cpc = "undoRelease"
  /\ Unblock(NextExtra(extra), "lock")
  /\ extra' = extra \ {NextExtra(extra)}
  /\ cpc' = "undo"
  /\ UNCHANGED <<cmd, resQ, wpc, task, mask, rep, firstRun, nextRunId, todo,
                 toVisit, skipped, cursor, required, recordVars>>

UndoDone ==
  /\ cpc = "undo" /\ extra = {}
  /\ todo' = Tail(todo)
  /\ cpc' = "pick"
  /\ UNCHANGED <<workerVars, rep, firstRun, nextRunId, toVisit, placeVars, recordVars>>

-----------------------------------------------------------------------------
Record(r) == runtimes' = [runtimes EXCEPT ![r.benchmark] = @ \cup {r}]

(***************************************************************************)
(* TryGetResults of the next worker and the loop over what it returns, one *)
(* result at a time: a failed run is logged, the others enter runtimes.    *)
(***************************************************************************)
CollectResult ==
  /\ cpc = "collect" /\ toVisit # <<>>
  /\ resQ[Head(toVisit)] # <<>>
  /\ LET w == Head(toVisit)
         r == Head(resQ[w])
     IN /\ r # None
        /\ resQ' = [resQ EXCEPT ![w] = Tail(@)]
        /\ \/ r.rc # "ok" /\ failed' = failed \cup {r} /\ UNCHANGED runtimes
           \/ r.rc = "ok" /\ Record(r) /\ UNCHANGED failed
  /\ UNCHANGED <<cmd, lock, inUse, wpc, task, mask, cpc, rep, firstRun,
                 nextRunId, todo, toVisit, placeVars>>

CollectNext ==
  /\ cpc = "collect" /\ toVisit # <<>>
  /\ resQ[Head(toVisit)] = <<>>
  /\ toVisit' = Tail(toVisit)
  /\ UNCHANGED <<workerVars, cpc, rep, firstRun, nextRunId, todo, placeVars, recordVars>>

CollectDone ==
  /\ cpc = "collect" /\ toVisit = <<>>
  /\ cpc' = "top"
  /\ UNCHANGED <<workerVars, rep, firstRun, nextRunId, todo, toVisit, placeVars, recordVars>>

-----------------------------------------------------------------------------
\* Mutant: the stop command replaces a command that is still queued.
StopPutOverwrites ==
  /\ cpc = "stopPut" /\ toVisit # <<>>
  /\ AddRun(Head(toVisit), None)
  /\ cpc' = "stopGet"
  /\ UNCHANGED <<resQ, lock, inUse, wpc, task, mask, rep, firstRun, nextRunId,
                 todo, toVisit, placeVars, recordVars>>

(***************************************************************************)
(* StopAndGetResults of the next worker: a blocking put of the stop        *)
(* command, then every result up to the worker's None.  Here the exit code *)
(* of a result is not looked at.                                           *)
(***************************************************************************)
StopPut ==
  /\ cpc = "stopPut" /\ toVisit # <<>>
  /\ cmd[Head(toVisit)] = Empty
  /\ AddRun(Head(toVisit), None)
  /\ cpc' = "stopGet"
  /\ UNCHANGED <<resQ, lock, inUse, wpc, task, mask, rep, firstRun, nextRunId,
                 todo, toVisit, placeVars, recordVars>>

StopGetResult ==
  /\ cpc = "stopGet"
  /\ resQ[Head(toVisit)] # <<>>
  /\ LET r == Head(resQ[Head(toVisit)])
     IN /\ r # None
        /\ Record(r)
  /\ resQ' = [resQ EXCEPT ![Head(toVisit)] = Tail(@)]
  /\ UNCHANGED <<cmd, lock, inUse, wpc, task, mask, cpc, rep, firstRun,
                 nextRunId, todo, toVisit, placeVars, failed>>

\* Mutant: the results are read without waiting, as in TryGetResults.
StopGetNoneNoWait ==
  /\ cpc = "stopGet"
  /\ resQ[Head(toVisit)] # <<>> => Head(resQ[Head(toVisit)]) = None
  /\ resQ' = [resQ EXCEPT ![Head(toVisit)] = IF @ = <<>> THEN @ ELSE Tail(@)]
  /\ toVisit' = Tail(toVisit)
  /\ cpc' = "stopPut"
  /\ UNCHANGED <<cmd, lock, inUse, wpc, task, mask, rep, firstRun, nextRunId,
                 todo, placeVars, recordVars>>

StopGetNone ==
  /\ cpc = "stopGet"
  /\ resQ[Head(toVisit)] # <<>>
  /\ Head(resQ[Head(toVisit)]) = None
  /\ resQ' = [resQ EXCEPT ![Head(toVisit)] = Tail(@)]
  /\ toVisit' = Tail(toVisit)
  /\ cpc' = "stopPut"
  /\ UNCHANGED <<cmd, lock, inUse, wpc, task, mask, rep, firstRun, nextRunId,
                 todo, placeVars, recordVars>>

StopDone ==
  /\ cpc = "stopPut" /\ toVisit = <<>>
  /\ cpc' = "join"
  /\ UNCHANGED <<workerVars, rep, firstRun, nextRunId, todo, toVisit,
                 placeVars, recordVars>>

(***************************************************************************)
(* Join every worker, post-process, and go on to the next trial.           *)
(***************************************************************************)
Join ==
  /\ cpc = "join"
  /\ \A w \in Cpus : wpc[w] = "exited"
  /\ rep' = rep + 1
  /\ cpc' = IF rep + 1 < Repetitions THEN "prerun" ELSE "done"
  /\ UNCHANGED <<workerVars, firstRun, nextRunId, todo, toVisit, placeVars, recordVars>>

Terminated == cpc = "done" /\ UNCHANGED vars

-----------------------------------------------------------------------------
Place == Reserve \/ Dispatch \/ SkipCpu \/ GiveUp
Undo == UndoReserve \/ UndoRelease \/ UndoDone
Collect == CollectResult \/ CollectNext \/ CollectDone
Stop == StopPut \/ StopGetResult \/ StopGetNone \/ StopDone

Controller ==
  \/ PreRun \/ TimeUp \/ Sample \/ PickBenchmark \/ PickDone
  \/ Place \/ Undo \/ Collect \/ Stop \/ Join

WorkerNext(w) == WorkerStep(w) /\ UNCHANGED controlVars

Next == Controller \/ (\E w \in Cpus : WorkerNext(w)) \/ Terminated

Spec == Init /\ [][Next]_vars

(***************************************************************************)
(* Fairness: every thread is scheduled, a subprocess ends, and a clock     *)
(* that is read again and again is at last past the duration.              *)
(***************************************************************************)
FairSpec ==
  /\ Spec
  /\ WF_vars(Controller)
  /\ SF_vars(TimeUp)
  /\ \A w \in Cpus : WF_vars(WorkerNext(w))

-----------------------------------------------------------------------------
(***************************************************************************)
(* Who has a claim on the lock of a worker: the worker itself while it is  *)
(* inside "with self._lock", and the owner of an extra_workers list that   *)
(* names it: the controller while it places a run, the run in a command    *)
(* queue, or the current task of a thread.                                 *)
(***************************************************************************)
Owners == ({"self", "queue", "task"} \X Cpus) \cup {<<"controller">>}

InLock(w) == wpc[w] \in {"exec", "unwind", "unblock", "release"}

QueueExtra(w) == IF cmd[w] \in Task THEN cmd[w].extra ELSE {}
TaskExtra(w) == IF task[w] \in Task THEN task[w].extra ELSE {}

Claims(o) ==
  CASE o[1] = "self"  -> IF InLock(o[2]) THEN {o[2]} ELSE {}
    [] o[1] = "queue" -> QueueExtra(o[2])
    [] o[1] = "task"  -> TaskExtra(o[2])
    [] OTHER          -> extra

Reserved(x) ==
  x \in extra \/ \E w \in Cpus : x \in QueueExtra(w) \cup TaskExtra(w)

(***************************************************************************)
(* The worker an owner of extra_workers is in the middle of unblocking:    *)
(* its flag is already clear and its lock still held.                      *)
(***************************************************************************)
Releasing(x) ==
  \/ cpc = "undoRelease" /\ extra # {} /\ x = NextExtra(extra)
  \/ \E w \in Cpus :
       wpc[w] = "release" /\ TaskExtra(w) # {} /\ x = NextExtra(TaskExtra(w))

(***************************************************************************)
(* A worker's lock has at most one owner, and whoever has a claim on it    *)
(* really holds it: so no release is of a lock somebody else has taken.    *)
(***************************************************************************)
LockOwned ==
  /\ \A o1, o2 \in Owners : o1 # o2 => Claims(o1) \cap Claims(o2) = {}
  /\ \A o \in Owners : \A x \in Claims(o) : lock[x]

(***************************************************************************)
(* A worker reserved for another run carries the flag that makes TryAddRun *)
(* refuse it, until the first line of its Unblock; a worker that is free   *)
(* or executes a run of its own does not, although the flag is written by  *)
(* one thread and read by another without the lock.                        *)
(***************************************************************************)
FlagMeansReserved ==
  \A x \in Cpus :
    /\ Reserved(x) => (inUse[x] <=> ~Releasing(x))
    /\ inUse[x] => lock[x] /\ ~InLock(x)

(***************************************************************************)
(* With affinity, the subprocesses of two workers never share a CPU: a run *)
(* with n threads has its n CPUs to itself, from TryBlock on one thread to *)
(* Unblock on another.                                                     *)
(***************************************************************************)
CpuExclusive ==
  Affinity =>
    \A v, w \in Cpus :
      v # w /\ wpc[v] = "exec" /\ wpc[w] = "exec" => mask[v] \cap mask[w] = {}

(***************************************************************************)
(* A blocked worker is blocked for somebody: when Execute returns and      *)
(* affinity is on, no path of the placement loop or of the thread forgets  *)
(* an Unblock.                                                             *)
(***************************************************************************)
NoOrphanedBlock ==
  (Affinity /\ "raised" \notin Outcomes) =>
    \A x \in Cpus : lock[x] => \E o \in Owners : x \in Claims(o)

(***************************************************************************)
(* The runs that need the lock of worker x to go on, and the runs that     *)
(* have reserved x and are not finished.                                   *)
(***************************************************************************)
QueuedRun(x) == IF cmd[x] \in Task THEN {cmd[x].run} ELSE {}
LockingRun(x) == IF wpc[x] = "lock" THEN {task[x].run} ELSE {}
Waiting(x) == QueuedRun(x) \cup LockingRun(x)

ReservedBy(x) ==
  {cmd[w].run : w \in {v \in Cpus : x \in QueueExtra(v)}}
  \cup {task[w].run : w \in {v \in Cpus :
          wpc[v] \in {"lock", "exec", "dead"} /\ x \in TaskExtra(v)}}

(***************************************************************************)
(* No cycle of runs each waiting for a CPU reserved by the next: a run     *)
(* only ever waits for one that was scheduled after it.  (A queued run can *)
(* be overtaken by a later one that reserves its worker; were the reverse  *)
(* possible too, two runs could wait for each other and shutdown hang.)    *)
(***************************************************************************)
WaitsForLater ==
  \A x \in Cpus : \A r1 \in Waiting(x), r2 \in ReservedBy(x) : r1 < r2

(***************************************************************************)
(* The places where the run with a given id is found.                      *)
(***************************************************************************)
Whereabouts(i) ==
  {<<"queue", w>> : w \in {v \in Cpus : cmd[v] \in Task /\ cmd[v].run = i}}
  \cup {<<"task", w>> : w \in {v \in Cpus :
          wpc[v] \in {"lock", "exec", "dead"} /\ task[v].run = i}}
  \cup (UNION {{<<"results", w, k>> : k \in {j \in 1 .. Len(resQ[w]) :
                  resQ[w][j] # None /\ resQ[w][j].run = i}} : w \in Cpus})
  \cup (UNION {{<<"runtimes", b, r>> : r \in {s \in runtimes[b] : s.run = i}} :
                  b \in Benchmarks})
  \cup {<<"failed", r>> : r \in {s \in failed : s.run = i}}

(***************************************************************************)
(* Every run scheduled in this trial is in exactly one place, so none is   *)
(* lost, executed twice or counted twice and no two write the same output  *)
(* file; nothing of an earlier trial is left.                              *)
(***************************************************************************)
EveryRunOnce ==
  \A i \in 0 .. MaxRuns :
    Cardinality(Whereabouts(i)) = IF i < nextRunId THEN 1 ELSE 0

(***************************************************************************)
(* When the workers have been stopped, every run of the trial has been     *)
(* recorded or logged as failed: the report is made from all of them, and  *)
(* every thread has ended and has left nothing in its queues.              *)
(***************************************************************************)
TrialComplete ==
  cpc \in {"join", "done"} =>
    /\ \A i \in 0 .. nextRunId - 1 :
         \E r \in (UNION Range(runtimes)) \cup failed : r.run = i
    /\ \A w \in Cpus : wpc[w] = "exited" /\ cmd[w] = Empty /\ resQ[w] = <<>>

(***************************************************************************)
(* Nobody can go on only after a thread died in Execute (its queue is then *)
(* never read), or behind a worker left blocked by a run that is over      *)
(* (without affinity the thread does not unblock): whatever else fails, no *)
(* put, get, lock or join waits for another that waits for it.             *)
(***************************************************************************)
StuckOnlyIf ==
  ~ENABLED Next =>
    \/ \E w \in Cpus : wpc[w] = "dead"
    \/ \E x \in Cpus : inUse[x] /\ ~Reserved(x)

(***************************************************************************)
(* Run() returns: no put, get, lock or join waits for ever.                *)
(***************************************************************************)
Termination == <>(cpc = "done")

(***************************************************************************)
(* A worker is blocked only temporarily (worker.py:46).                    *)
(***************************************************************************)
BlockedIsTemporary == \A x \in Cpus : inUse[x] ~> ~inUse[x]
=============================================================================

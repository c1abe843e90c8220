------------------------------- MODULE Worker -------------------------------
(***************************************************************************)
(* The per-CPU worker threads of the parallel runner                       *)
(* (fleetbench/parallel/worker.py) and what one of them does with a run    *)
(* (fleetbench/parallel/run.py, result.py).                                *)
(*                                                                         *)
(* A worker is named by the CPU it is pinned to.  Its thread waits for a   *)
(* command, takes its own lock, executes the run while it owns the lock    *)
(* and, when the run had borrowed the CPUs of other workers, gives them    *)
(* back.  The controller (ParallelBench) calls the other methods.          *)
(***************************************************************************)
EXTENDS Naturals, Sequences

CONSTANTS
  Cpus,        \* the worker threads, one per benchmark CPU
  Benchmarks,  \* Benchmark.Name() of every selected benchmark
  Affinity,    \* --cpu_affinity: are threads bound to CPUs?
  Outcomes,    \* what Run.Execute() may do: "ok", "failed" (rc # 0), "raised"
  Empty,       \* an empty command queue, and no current task
  None         \* Python's None: the stop command and the end of the results

(***************************************************************************)
(* RunAndExtraWorkers.  run is the number in out_file (run_%03d).          *)
(***************************************************************************)
Task == [run : Nat, benchmark : Benchmarks, extra : SUBSET Cpus]

(***************************************************************************)
(* result.Result.  The code does not keep run; it names the result here.   *)
(***************************************************************************)
Result == [run : Nat, benchmark : Benchmarks, rc : {"ok", "failed"}]

ASSUME ConstantsAssumption ==
  /\ Affinity \in BOOLEAN
  /\ Outcomes \subseteq {"ok", "failed", "raised"}
  /\ Empty # None
  /\ Empty \notin Task
  /\ None \notin Task \cup Result

VARIABLES
  cmd,    \* _command_q, a queue of capacity one
  resQ,   \* _result_q
  lock,   \* is _lock held, by the worker itself or on behalf of a run?
  inUse,  \* _in_use_as_extra_worker
  wpc,    \* where the thread is in run()
  task,   \* its current task; extra holds the workers not yet unblocked
  mask    \* the CPUs its subprocesses may run on

workerVars == <<cmd, resQ, lock, inUse, wpc, task, mask>>

WorkerPCs ==
  {"get", "lock", "exec", "unwind", "unblock", "release", "exited", "dead"}

WorkerTypeOK ==
  /\ cmd \in [Cpus -> Task \cup {Empty, None}]
  /\ resQ \in [Cpus -> Seq(Result \cup {None})]
  /\ lock \in [Cpus -> BOOLEAN]
  /\ inUse \in [Cpus -> BOOLEAN]
  /\ wpc \in [Cpus -> WorkerPCs]
  /\ task \in [Cpus -> Task \cup {Empty}]
  /\ mask \in [Cpus -> SUBSET Cpus]

-----------------------------------------------------------------------------
(***************************************************************************)
(* A new worker, its thread started: with affinity the thread binds itself *)
(* to its CPU before it looks at the command queue.                        *)
(***************************************************************************)
All(v) == [w \in Cpus |-> v]
StartMask == [w \in Cpus |-> IF Affinity THEN {w} ELSE Cpus]

WorkerInit ==
  /\ cmd = All(Empty) /\ resQ = All(<<>>)
  /\ lock = All(FALSE) /\ inUse = All(FALSE)
  /\ wpc = All("get") /\ task = All(Empty) /\ mask = StartMask

StartWorkers ==
  /\ cmd' = All(Empty) /\ resQ' = All(<<>>)
  /\ lock' = All(FALSE) /\ inUse' = All(FALSE)
  /\ wpc' = All("get") /\ task' = All(Empty) /\ mask' = StartMask

(***************************************************************************)
(* The methods the controller calls.  TryAddRun and TryBlock are a test    *)
(* and an update; only the controller sets the flag they use, and it runs  *)
(* one of them at a time, so each is one step.  Unblock is two: it clears  *)
(* the flag first and releases the lock second.                            *)
(***************************************************************************)
CanAddRun(w) == ~inUse[w] /\ cmd[w] = Empty

AddRun(w, t) == cmd' = [cmd EXCEPT ![w] = t]

\* Mutant: TryBlock takes a lock that is already held.
CanBlockAlways(w) == lock[w] \in BOOLEAN

CanBlock(w) == ~lock[w]

\* Mutant: TryBlock forgets the flag.
BlockNoFlag(w) ==
  /\ lock' = [lock EXCEPT ![w] = TRUE]
  /\ UNCHANGED inUse

Block(w) ==
  /\ lock' = [lock EXCEPT ![w] = TRUE]
  /\ inUse' = [inUse EXCEPT ![w] = TRUE]

\* Mutant: Unblock releases the lock before it clears the flag.
UnblockLockFirst(w, line) ==
  \/ /\ line = "flag"
     /\ lock' = [lock EXCEPT ![w] = FALSE]
     /\ UNCHANGED inUse
  \/ /\ line = "lock"
     /\ inUse' = [inUse EXCEPT ![w] = FALSE]
     /\ UNCHANGED lock

Unblock(w, line) ==
  \/ /\ line = "flag"
     /\ inUse' = [inUse EXCEPT ![w] = FALSE]
     /\ UNCHANGED lock
  \/ /\ line = "lock"
     /\ lock' = [lock EXCEPT ![w] = FALSE]
     /\ UNCHANGED inUse

(***************************************************************************)
(* The next worker of an extra_workers list.  Nothing tells the order of   *)
(* the list apart, so it is any fixed order.                               *)
(***************************************************************************)
NextExtra(S) == CHOOSE x \in S : TRUE

-----------------------------------------------------------------------------
(***************************************************************************)
(* run(): one iteration of the thread's loop.                              *)
(***************************************************************************)
\* Mutant: the thread does not look for the stop command.
GetUnchecked(w) ==
  /\ wpc[w] = "get"
  /\ cmd[w] # Empty
  /\ cmd' = [cmd EXCEPT ![w] = Empty]
  /\ task' = [task EXCEPT ![w] = cmd[w]]
  /\ wpc' = [wpc EXCEPT ![w] = "lock"]
  /\ UNCHANGED <<resQ, lock, inUse, mask>>

Get(w) ==
  /\ wpc[w] = "get"
  /\ cmd[w] \in Task
  /\ cmd' = [cmd EXCEPT ![w] = Empty]
  /\ task' = [task EXCEPT ![w] = cmd[w]]
  /\ wpc' = [wpc EXCEPT ![w] = "lock"]
  /\ UNCHANGED <<resQ, lock, inUse, mask>>

\* Mutant: the thread stops without telling the reader of its results.
GetStopSilent(w) ==
  /\ wpc[w] = "get"
  /\ cmd[w] = None
  /\ cmd' = [cmd EXCEPT ![w] = Empty]
  /\ wpc' = [wpc EXCEPT ![w] = "exited"]
  /\ UNCHANGED <<resQ, lock, inUse, task, mask>>

GetStop(w) ==
  /\ wpc[w] = "get"
  /\ cmd[w] = None
  /\ cmd' = [cmd EXCEPT ![w] = Empty]
  /\ resQ' = [resQ EXCEPT ![w] = Append(@, None)]
  /\ wpc' = [wpc EXCEPT ![w] = "exited"]
  /\ UNCHANGED <<lock, inUse, task, mask>>

(***************************************************************************)
(* "with self._lock", then the affinity is widened for a run that borrowed *)
(* CPUs, and the benchmark's subprocess starts.                            *)
(***************************************************************************)
Acquire(w) ==
  /\ wpc[w] = "lock"
  /\ ~lock[w]
  /\ lock' = [lock EXCEPT ![w] = TRUE]
  /\ mask' = IF task[w].extra # {} /\ Affinity
             THEN [mask EXCEPT ![w] = {w} \cup task[w].extra]
             ELSE mask
  /\ wpc' = [wpc EXCEPT ![w] = "exec"]
  /\ UNCHANGED <<cmd, resQ, inUse, task>>

(***************************************************************************)
(* Execute() returns: with the metrics of the run, or with the exit code   *)
(* of a CalledProcessError and no metrics.                                 *)
(***************************************************************************)
Execute(w) ==
  /\ wpc[w] = "exec"
  /\ \E rc \in Outcomes \ {"raised"} :
       resQ' = [resQ EXCEPT ![w] = Append(@,
                  [run |-> task[w].run, benchmark |-> task[w].benchmark, rc |-> rc])]
  /\ wpc' = [wpc EXCEPT ![w] = "unwind"]
  /\ UNCHANGED <<cmd, lock, inUse, task, mask>>

(***************************************************************************)
(* Execute() raises: the output file is missing, is not JSON or holds no   *)
(* benchmark.  Nothing catches it: "with" releases the lock, the thread    *)
(* ends, no result is put and the borrowed workers stay blocked.           *)
(***************************************************************************)
ExecuteRaises(w) ==
  /\ wpc[w] = "exec"
  /\ "raised" \in Outcomes
  /\ lock' = [lock EXCEPT ![w] = FALSE]
  /\ wpc' = [wpc EXCEPT ![w] = "dead"]
  /\ UNCHANGED <<cmd, resQ, inUse, task, mask>>

\* Mutant: the thread keeps the widened affinity.
ResetAffinityMissing(w) ==
  /\ wpc[w] = "unwind"
  /\ task[w].extra # {} /\ Affinity
  /\ wpc' = [wpc EXCEPT ![w] = "unblock"]
  /\ UNCHANGED <<cmd, resQ, lock, inUse, task, mask>>

(***************************************************************************)
(* After the result is put: a thread whose run borrowed CPUs narrows its   *)
(* affinity and goes on to unblock them, but only if affinity is on.       *)
(***************************************************************************)
ResetAffinity(w) ==
  /\ wpc[w] = "unwind"
  /\ task[w].extra # {} /\ Affinity
  /\ mask' = [mask EXCEPT ![w] = {w}]
  /\ wpc' = [wpc EXCEPT ![w] = "unblock"]
  /\ UNCHANGED <<cmd, resQ, lock, inUse, task>>

UnblockExtra(w) ==
  /\ wpc[w] = "unblock"
  /\ task[w].extra # {}
  /\ Unblock(NextExtra(task[w].extra), "flag")
  /\ wpc' = [wpc EXCEPT ![w] = "release"]
  /\ UNCHANGED <<cmd, resQ, task, mask>>

\* Mutant: only the first of the extra workers is unblocked.
ReleaseExtraFirstOnly(w) ==
  /\ wpc[w] = "release"
  /\ Unblock(NextExtra(task[w].extra), "lock")
  /\ task' = [task EXCEPT ![w].extra = {}]
  /\ wpc' = [wpc EXCEPT ![w] = "unblock"]
  /\ UNCHANGED <<cmd, resQ, mask>>

ReleaseExtra(w) ==
  /\ wpc[w] = "release"
  /\ Unblock(NextExtra(task[w].extra), "lock")
  /\ task' = [task EXCEPT ![w].extra = @ \ {NextExtra(@)}]
  /\ wpc' = [wpc EXCEPT ![w] = "unblock"]
  /\ UNCHANGED <<cmd, resQ, mask>>

(***************************************************************************)
(* The end of the "with" block.                                            *)
(***************************************************************************)
ReleaseOwn(w) ==
  /\ \/ wpc[w] = "unwind" /\ ~(task[w].extra # {} /\ Affinity)
     \/ wpc[w] = "unblock" /\ task[w].extra = {}
  /\ lock' = [lock EXCEPT ![w] = FALSE]
  /\ task' = [task EXCEPT ![w] = Empty]
  /\ wpc' = [wpc EXCEPT ![w] = "get"]
  /\ UNCHANGED <<cmd, resQ, inUse, mask>>

WorkerStep(w) ==
  \/ Get(w) \/ GetStop(w) \/ Acquire(w)
  \/ Execute(w) \/ ExecuteRaises(w)
  \/ ResetAffinity(w) \/ UnblockExtra(w) \/ ReleaseExtra(w) \/ ReleaseOwn(w)

=============================================================================

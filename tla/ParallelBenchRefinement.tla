----------------------- MODULE ParallelBenchRefinement -----------------------
(***************************************************************************)
(* ParallelBench implements RunLifecycle: where each run is, read off the  *)
(* queues, the threads and the controller's records.                       *)
(***************************************************************************)
EXTENDS ParallelBench

WaitingRuns ==
  {cmd[w].run : w \in {v \in Cpus : cmd[v] \in Task}}
  \cup {task[w].run : w \in {v \in Cpus : wpc[v] = "lock"}}

RunningRuns ==
  {[run |-> task[w].run, cpus |-> mask[w]] : w \in {v \in Cpus : wpc[v] = "exec"}}

FinishedRuns ==
  UNION {{r.run : r \in Range(resQ[w]) \ {None}} : w \in Cpus}

SettledRuns ==
  {r.run : r \in (UNION {runtimes[b] : b \in Benchmarks}) \cup failed}

LostRuns == {task[w].run : w \in {v \in Cpus : wpc[v] = "dead"}}

Lifecycle == INSTANCE RunLifecycle WITH
  issued <- nextRunId, waiting <- WaitingRuns, running <- RunningRuns,
  finished <- FinishedRuns, settled <- SettledRuns, lost <- LostRuns

(***************************************************************************)
(* With affinity on, every step of the controller and of the workers is a  *)
(* step of the life of a run, or none: no run starts on a CPU in use, is   *)
(* executed or settled twice, and no trial ends with a run unaccounted for.*)
(***************************************************************************)
ImplementsLifecycle == Lifecycle!LifeSpec
=============================================================================

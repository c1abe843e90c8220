# Fleetbench in TLA+

This directory specifies the parts of Fleetbench that have behaviour worth
verifying, model-checks them with TLC on small instances and proves the central
safety properties with TLAPS for every instance. Paths are relative to the root
of the repository; `parallel/` stands for `src/fleetbench/parallel/`.

## 1. The system and its parts

Fleetbench is a set of microbenchmarks (C++, on Google Benchmark) and a Python
runner that executes them in parallel to load a machine.

| Part | State | Operations | Hard behaviour |
| --- | --- | --- | --- |
| worker (`parallel/worker.py`, `run.py`, `result.py`) | command queue (one item), result queue, lock, `_in_use_as_extra_worker`, CPU mask of the thread | `run`, `TryAddRun`, `TryBlock`, `Unblock`, `TryGetResults`, `StopAndGetResults`, `Run.Execute` | a thread per CPU; the flag is read without the lock; the lock is taken by one thread and released by another |
| controller (`parallel/parallel_bench_lib.py`) | workers, runtimes, utilization samples, run ids, `first_run` | `Run`, `_PreRun`, `_RunSchedulingLoop`, `_SelectNextBenchmarks`, post-processing | acts on a sampled utilization; reserves several workers one by one and has to undo it; stops the workers one by one |
| CPU selection (`parallel/cpu.py`) | sockets, cores and siblings as cpuinfo gives them | four selection modes, `Utilization` | termination of the balanced mode; masks that hide CPUs |
| weights and selection (`parallel/weights.py`, `_ComputeBenchmarkWeights`) | weights, runtimes, `first_run` | three strategies, custom weights, probabilities | zero sums; keys and names that do not match; trials after the first |
| reporter (`parallel/reporter.py`, `PostProcessBenchmarkResults`) | run files, data frames, reports of the trials | aggregation per trial and over trials, removal of raw data | failed runs, values that are not numbers, I/O errors |
| benchmark discovery, command line | none | listing, filtering, flags | none |
| tcmalloc replay (`tcmalloc/empirical.{h,cc}`, `empirical_driver.cc`) | live objects per size class, recorded trace, replay index, update vectors, sampler tree | `RecordNext`, `ReplayNext`, `Snapshot`, `Restore`, repair; `SetWeight`, `SampleWeight` | objects updated in place between replays; zero weights, rounding; barriers between threads |
| rpc (`rpc/grpc_client`, `grpc_server`, `rpcperf`) | in-flight count, `keep_running` | `SendOneRPC` and its callback, `Wait`, `Shutdown` | callbacks on other threads during shutdown |
| gzip header parser (`compression/gzipheader`) | state, counts, flags | `ReadMore`, `Reset` | a header split at any byte |
| zlib wrapper (`compression/zlibwrapper`) | two zlib streams, settings applied and asked for, checksum, footer, `first_chunk_` | setters, `Compress*`, `Uncompress*`, `*ChunkDone`, `Reinit` | one object for many documents; chunks and destinations of any size; setters between chunks |
| cord benchmarks (`stl/`) | the cords of a setup, shared by all iterations | eleven benchmarks of generated operations | use after move; cords shorter or longer than an operation needs |
| proto benchmark (`proto/`) | two messages per type and index, strings, the arena | the generated sequence of `ProtoLifecycle::Run` | use after destruction without an arena, leaks, growth; iterations that differ |
| registrar and main (`dynamic_registrar`, `benchmark_main`) | registered callbacks, default filter | `AddCallback`, `AddDefaultFilter`, `Run` | none: sequential |
| kernels (swissmap, hashing, libc, simd), compression benchmark and corpora, rpc messages, distributions, build | none of their own | | none: sequential measuring loops, generated code and data |

The controller calls the workers' methods on its own thread; a worker thread
calls `Unblock` on other workers; everything else goes through the two queues
of a worker. `PROJECT.json` lists each part under `components` and, under
`hazards`, the lines where things can go wrong that a unit test hardly reaches.

What makes the parallel runner correct:

* every run that was scheduled is executed once, and its result is recorded or
  logged exactly once;
* two benchmark processes never share a CPU when affinity is on;
* the lock and the flag of a worker agree with who has reserved it, so that
  nobody releases a lock that is not his;
* a worker that is reserved is given back, whether the run was placed or not;
* the runs do not wait for each other in a circle, and `Run` returns.

What makes the malloc replay correct: each replay frees only objects that are
allocated, with the size they were allocated with, and leaves as many objects of
each size as there were before; updating the lists in place gives what a list
that was maintained all along would hold; the destructor leaves nothing.

What makes the compression code correct: a header or a document is accepted or
refused alike however it is cut into buffers, and leaves nothing behind for the next
one; what was compressed comes out whole; a stream is used as it was configured.

What makes the generated benchmarks correct: no object is used after it was moved
or destroyed, nothing leaks or grows, and every iteration does the same work.

What makes selection and reports correct: the CPUs chosen are enough, distinct and
where the mode says; runtimes meet the targets; a report has the runs that ended
well and no others, and failures do not lose it.

What makes the RPC benchmark correct: the count of streams in flight is right
although a stream is sent before it is counted; when `Wait` has returned no
callback can touch the client any more; every iteration is answered; it ends.

## 2. The plan

1. `Worker`, `ParallelBench` with invariants, liveness and proofs. *Done.*
2. `RunLifecycle`, what the runner promises about a run, and the refinement
   by `ParallelBench`. *Done, with proofs.*
3. `EmpiricalData` with `AdjustableSampler`. *Done; `EmpiricalData` with proofs, the sampler
   model-checked.*
4. `RpcPerf`, with proofs. *Done.*
5. `CpuSelection`, `BenchmarkSelection`, `Reporter`: the rest of the parallel runner
   that has behaviour. *Done; `CpuSelection` and `Reporter` with proofs, `BenchmarkSelection`
   model-checked.*
6. `GZipHeader`, `ZLibUncompress`, `ZLibSettings`, `ZLibCompress`. *Done;
   `ZLibSettings` and `ZLibCompress` with proofs, the others model-checked.*
7. `CordBenchmark` and `ProtoLifecycle`, which run the operations listed in
   `CordPrograms` and `ProtoPrograms`. *Done, model-checked.*

## 3. The modules

| Module | Role |
| --- | --- |
| `Worker` | the worker threads and the methods the controller calls on them |
| `ParallelBench` | the controller composed with the workers; `Spec`, `FairSpec`, the properties |
| `RunLifecycle` | abstract: a run is new, scheduled, executed, and then recorded, failed or lost |
| `ParallelBenchRefinement` | the mapping from the queues and threads to that life cycle |
| `ParallelBenchProofs` | the inductive invariants of locks and waiting, and of runs and the shutdown, with their theorems; the refinement of `RunLifecycle`, step by step |
| `EmpiricalData` | the malloc load of one thread: filling the heap, recording, repair, update vectors, replays |
| `EmpiricalRecordingProofs` | the order of objects that the recording keeps; every object is accounted for once, by a slot or by a death |
| `EmpiricalReplayProofs` | the inductive invariant of update vectors, replay and preparation, and its theorems |
| `RpcPerf` | one execution of `BM_Rpc`: main thread, streams, callbacks, server; also the module of its run |
| `RpcPerfProofs` | the inductive invariant and the theorems |
| `AdjustableSampler` | the tree of weights, sampled as `EmpiricalData` uses it |
| `CpuSelection` | `CpuInfo` and the four selection modes; also the module of its run |
| `CpuSelectionProofs` | the inductive invariant of the dictionaries and of the loops over them, and the theorems |
| `BenchmarkSelection` | weights, probabilities and `_SelectNextBenchmarks` |
| `Reporter` | from the files and results of the runs to the reports |
| `ReporterProofs` | the inductive invariant from the first run to the final report, and the theorems |
| `GZipHeader` | the header parser as an operator, `ReadMore` on a buffer |
| `ZLibUncompress` | documents given to one `ZLib` object, in one call or in chunks; extends `GZipHeader` |
| `ZLibSettings` | the setters, and the streams that are made, reset and ended |
| `ZLibSettingsProofs` | the invariants of settings and streams, and the theorems |
| `ZLibCompress` | compressing in one call or in chunks into destinations of any size |
| `ZLibCompressProofs` | what `deflate` and each method do to the counts, the inductive invariant, and the theorems |
| `CordPrograms`, `CordBenchmark` | the generated operations on cords, and the machine that runs them |
| `ProtoPrograms`, `ProtoLifecycle` | the generated operations on messages, and the machine that runs them |
| `MC...` | sequences, tables, documents and symmetry for TLC; `MCZLib`, `MCController` and `MCWorkloads` put several components side by side |

### How state and actions correspond to the code

`Worker` has one entry per CPU in each variable: `cmd` (`_command_q`, at most
one item), `resQ` (`_result_q`), `lock`, `inUse` (`_in_use_as_extra_worker`),
`wpc` (the line `run` is at), `task` and `mask` (the affinity of the thread). A
step of a thread ends where another thread could see the difference: `Get` or
`GetStop` takes a command, `Acquire` enters `with self._lock` and widens the
mask, `Execute` runs the subprocess and puts the result, `ResetAffinity`
narrows the mask, `UnblockExtra` and `ReleaseExtra` are the two lines of
`Unblock` for the next extra worker, `ReleaseOwn` leaves the block.
`ExecuteRaises` is an exception `Execute` does not catch: the block is left, the
lock released and the thread is dead. Of a subprocess only its outcome is kept.

`ParallelBench` adds the controller: `cpc` is its line, `todo` the selected
benchmarks, `skipped \o cursor` the keys of `least_busy_cpus`, `extra` the
list `extra_workers`, `toVisit` the rest of a loop over the workers. The
placement loop takes a step per CPU (`Reserve`, `Dispatch`, `SkipCpu`), since
threads run between two of its calls; its `else` branch is `GiveUp` followed by
`UndoReserve`/`UndoRelease` for each reserved worker.

Abstractions, each of which only adds behaviours unless noted:

* the selection probabilities are dropped: any benchmark may be chosen (they are
  positive for every benchmark, so the sets of outcomes agree);
* the utilization of a CPU is any member of `Levels`, whatever the CPU does;
  the number of jobs is computed in exact arithmetic;
* the clock: `TimeUp` may happen whenever the loop is at its top;
* `extra_workers` is a set and the next one to unblock is chosen by `NextExtra`,
  a fixed order instead of the order of reservation; workers are symmetric here;
* a drain of a result queue takes its results one at a time: a result that
  arrives meanwhile is taken in the same drain, as `get_nowait` does;
* the threads of a trial start in one step with `_PreRun`: a thread that has not
  started yet has the same effect as one that has not yet got a command;
* `runtimes` is a set per benchmark, without the artificial first entry that
  `_PreRun` makes for the weights; a `Result` carries the id of its run, which
  in the code is only in the name of the output file.

`EmpiricalData` has a variable for each member vector (the comment beside each gives
its name) and `phase`, the point the object's life has reached: `DoBirth` fills the
heap, `SnapshotLiveObjects` ends the constructor, `RecordNext` and `RecordRepair`
record one operation each, `RestoreSnapshot` and `Build` prepare the replay, `Replay`
(`StartReplay`, `ReplayBirth`, `ReplayDeath`, `EndReplay`) and `PrepareNextReplay` are a
round of the benchmark, `Destroy` the destructor, which also ends the transient load of
the driver. A loop of the code is a step per iteration: of `BuildUpdateVectors` over the
trace (`BuildDeath`, `SkipBirth`, `EndDeaths`) and over the slots (`BuildSlot`, `EndSlots`),
of `PrepareNextReplay` the three loops inside the one over the classes (`PrepareObj`,
`PrepareBirth`, `PrepareDeath`, in `LoopOrder`, and `EndLoop`); `class`, `loop`, `at` and `deathAt`
are the variables of these loops. `before` is a history variable: `objs` as a replay
found it. Vectors are indexed from 1. Abstractions:

* the allocator (external) returns any address that is free, so that addresses
  are reused in every way;
* a birth is of any class and a death of any object of a class that has one; the
  code draws deaths from `AdjustableSampler`, which is modelled apart, with the cases
  in which it does draw a class without objects;
* a pointer in `birth_pointers_` is the vector it points into and the index there;
* counters of bytes, which run beside the ones of objects, are left out.

`RpcPerf` has the main thread (`main`, `next`), the state of each stream, the set
`context` of streams whose `GRPCClientRPC` exists, the mutex as held by the
constructor (other holders take and release it in one step), and `count`, which
wraps at `CountLimit` as the unsigned counter does at 2^64. A stream goes through
`SendOneRPC`, `Message`, `Finish` or `Fail`, `Callback`, `Continue` and
`MarkRPCStreamDone`. A handler goes on after it has finished its call (`HandlerReturns`), so
that the client may be ahead of the server. `calls` is a history variable: the callbacks that have
run, those with an error, and the handlers that have returned. It is what the `RPCCounters` of client
and server count where there are any; `BM_Rpc` makes none, and the code tests for them. `Fail`, the
transport's error status, is external. Delays and sizes of messages only change timing and are left out.

`AdjustableSampler` has the tree (`tree`), as the array of `AdjustableSampler::tree_`,
and the number of objects of each class. `DoBirth` fills; `RecordNext` takes for a birth any class
with a rate (`birth_sampler_` is a `discrete_distribution`, external) and for a death the class that
`SampleWeight` finds with any draw of [0, W), 0 included. Weights are integers, and `Mantissa`
bounds their bits as that of a double does, with sums and differences rounded to nearest. A death
of a class without objects ends in phase `aborted` (the `CHECK`), one of a leaf past the last class
in `undefined` (`state_` is read out of range).

`CpuSelection` reads one block of cpuinfo per step (`_AddCore`), with any affinity mask, and then
runs one mode. The loops over sockets and cores take a step per iteration: `ListCore` and
`ListNextSocket` those of the modes DISABLE and SKEWED, which differ in what `OfCore` takes of a core,
`SkipCore` and `TakePairs` those of BALANCED. The nested dictionaries are one list of entries in the order
of their insertion; `sorted` is a permutation of the list that is in order. `BenchmarkSelection` has the weights as
exact fractions, one with denominator 0 being what a division by zero gives; `SetWeights`,
`PreRun`, the arrival of a result and a selection are actions.

`Reporter` has the run files of the trial, `runtimes` with its fake first entry, the
results of every trial and the data frames; a frame has a row, or a set of runs, for each benchmark, as neither the
order of files nor that of results matters to what is aggregated. Each function of the post-processing is a step that ends in phase
`raised` where it raises. `RunSucceeds` and `RunFails` stand for the whole scheduling loop and
shutdown, which `ParallelBench` models; a failed run leaves no file or an unfinished one.
pandas (external): aggregates skip missing values, a deviation of one value is missing,
and a missing value has no int.

`GZipHeader` is a function from a parser state and a buffer to the next state and the
bytes read, one definition per state of the `switch`. `ZLibUncompress` holds one object with the fields of
the class that uncompressing uses; a deflated byte stands for one or two bytes of
data, of which `inflate` (external) writes as many as there is room for, and holds the rest.
`ZLibSettings` has `settings_` and `init_settings_`, and for each stream what
it was made with; `ZLibCompress` counts the bytes that `deflate` (external) takes and
gives, in the header mode `mode`, which the initial state chooses.

`CordPrograms` and `ProtoPrograms` list the operations of the generated code in its
order, a definition per function, or per 150 lines of one. A cord is its length, since all
its characters are alike; a message the number of elements in its repeated fields,
which is what merging adds to and the other operations preserve. The machines are given
the programs as constants and take a step per operation. Reads of sizes and fields change nothing and are left out.

## 4. What TLC checks

| Run | Instance | What it shows |
| --- | --- | --- |
| `affinity` | 3 CPUs, benchmarks with 1, 2 and 3 threads, 3 runs, affinity on | `TypeOK`, `LockOwned`, `FlagMeansReserved`, `CpuExclusive`, `WaitsForLater`, `NoOrphanedBlock`, `TrialComplete`; no deadlock |
| `failures` | 2 CPUs, 4 runs, affinity off, runs may fail or raise | `EveryRunOnce` although threads die and workers stay blocked, and `StuckOnlyIf`: these two faults are the only ways to get stuck |
| `liveness` | 2 CPUs, 3 runs, affinity on, runs may fail | `Termination` and `BlockedIsTemporary` under `FairSpec` |
| `refinement` | 2 CPUs, 3 runs in each of 2 trials, runs may fail or raise | `ParallelBench` implements `RunLifecycle` |
| `replay` | 2 size classes (sizes 1 and 2), heap of 3, trace of 3 operations and its repair, 2 replays, 6 addresses | `FreesLiveObject`, `SteadyState`, `ObjectsMoveDown`, `PrepareFollowsRecording`, with every way to reuse addresses |
| `rpc` | 3 streams, 5 iterations, calls may fail | `CountsStreams`, `QuietAfterWait`, `EveryIterationAnswered` and, under `FairSpec`, `Termination` |
| `cpus` | every machine of 4 CPUs, 2 sockets and core ids 0 and 2, every mask that leaves CPUs on the lower sockets, 2 or 3 CPUs asked for | `TypeOK` (no CPU twice), `SelectedAsAsked` and, under `FairSpec`, `Termination` |
| `zlib` | see below | `TypeOK`, `UsedAsAsked`, `StreamReady`, `SplitDoesNotMatter`, `AcceptsExactlyValid` |
| `controller` | see below | `TypeOK`, `CountsTheSuccessful`, `FinalOfAllTrials`, `RaisesOnlyIf`, `TimeSharedAsAsked` |
| `workloads` | see below | `TypeOK`, `CompressedWhole`, `DrawnInProportion`, `CordsUsable`, `MessagesUsable`, `IterationsAlike` |

The last three check components that are sequential and do not interact, several
in one state graph, and the initial state chooses the `part` that runs. `MCZLib` extends `ZLibSettings`,
`MCController` extends `Reporter` and `MCWorkloads` extends `ZLibCompress`: the constants of these are in the
.cfg, and the run checks the very definitions the theorems are about. The other parts are instances with
their constants in the MC module. A part that does not run stays in an initial state, or its variables are
`"unused"`. A property of an instance includes the type invariant of its module.

* `zlib`: 2 levels, 2 windows, a dictionary, and every order of setters and uses but the three named
  below (`ZLibSettings`); gzip headers with every combination of fields, of lengths 0 to 2, and invalid
  starts, in every split into buffers (`GZipHeader`); 2 documents one after the other, valid,
  truncated in the header or behind it, corrupt or with bytes after the end, in every split, as gzip, as raw
  deflate and with any footer (`ZLibUncompress`). `AcceptsExactlyValid` says nothing of the document behind one that
  was cut within its header (`cut`), and lets a valid document be refused to a caller that asks for no more data
  after a `Z_OK` with a full destination (`full`); both happen.
* `controller`: one trial or two, of up to 3 runs of 2 benchmarks, any of which may fail, with reports that may
  fail to be written and counters that may not be supported (`Reporter`); 3 benchmarks of 2 workloads, all
  strategies, custom weights, zero or not, 2 trials (`BenchmarkSelection`).
  `RaisesOnlyIf` lists the only cases in which an exception ends the post-processing.
* `workloads`: data of 0, 1 and 3 units, nine sizes of destination around the sizes of header and footer,
  6 calls, in the three header modes (`ZLibCompress`); `AdjustableSampler` three times, with every draw: 3 size classes of up to
  4 objects with exact weights, 3 of up to 4 whose weights round, and 7 of one object, where only sums over classes
  round; all benchmarks of `GetBenchmarks`, 2 iterations (`CordBenchmark`); all
  message types, with and without an arena, a working set of 2, 2 iterations (`ProtoLifecycle`).

Two runs are expected to end in a violation: there the code does not do what
the repository says of it (`findings` in `PROJECT.json` quotes the lines).

| Run | What the code does |
| --- | --- |
| `affinity_off_hangs` | without affinity nobody calls `Unblock` for the extra workers of a run; a worker that was reserved while it had a run in its queue waits for its own lock, and `StopAndGetResults` waits for the worker |
| `ran_once` | with several trials, a benchmark that ran once in one of them makes the final report fail: its deviation is the string "NaN" |

**Other disagreements** between the code and what is said of it came up while modelling.
The models have them as behaviours; the passing runs state their properties around them, and each
shows up as a violation when the constant or the condition named here is changed.

* Without affinity a reserved worker stays blocked for the rest of the trial
  (`worker.py:141`; `BlockedIsTemporary` with `Affinity = FALSE`), and an exception that `Execute` does not catch
  ends the thread, for which `StopAndGetResults` then waits (`run.py:53`; `Termination` with `"raised"` in
  `Outcomes`). These are the two disjuncts of `StuckOnlyIf`.
* `TryBlock` takes a worker whose command queue is not empty (`worker.py:85`); `WaitsForLater` is why this does
  no harm.
* A failed run collected at shutdown is recorded without metrics (`parallel_bench_lib.py:593`). If it is the only
  result of its benchmark the report raises (`reporter.py:198`), as it does for an unfinished file of a failed
  run (`reporter.py:57`): the second case of `Reporter!RaisesOnlyIf`.
* An I/O error on a report is printed, and the raw data removed (`reporter.py:233`; `SaveMayFail = TRUE`).
* With as many jobs as benchmarks, or in a later trial, the first selection is random
  (`parallel_bench_lib.py:332`). A custom weight is stored under an upper-cased key, which with
  `BM_WEIGHTED` is read only for a name that is upper-case (`weights.py:56`). A weight of 0 of the first benchmark,
  or of a whole workload, ends in a division by zero (the cases of `RaisesOnlyForZero`).
* The balanced CPU selection never ends when the mask leaves no CPU of socket 0 (`cpu.py:236`;
  `MayHideSocket = TRUE`); the skewed one takes both siblings of a core before the next core.
* A draw of exactly 0 ends in the first class, also if it has no objects (`empirical.h:144`); with sums that
  round a class may keep a weight after its last object died, and a draw may pass its class and end in one
  without objects or past the last (`empirical.h:108`). `RecordDeath` then aborts or reads out of range. All
  three happen in `workloads`; `FaultsOnlyIf`, a part of `DrawnInProportion`, says that there are no other causes.
* A document that ends within its gzip header leaves the parser where it was, and the next is
  refused (`AcceptsExactlyValid` without `~cut`); `UncompressAtMost` returns `Z_OK` although output is pending,
  when the source is used up (`AcceptsExactlyValid` without `full`).
* `Reinit` keeps a bare stream that the next use takes for one with a header (`MayReinitBare = TRUE`);
  `SetNoHeaderMode(false)` in gzip mode gives the stream two headers (`MayTurnBack = TRUE`); a change of
  header mode amid chunks leaves a stream in use that was ended (`MayInterrupt = TRUE`); without a
  gzip footer a destination of `MinFooterSize` bytes is too small (`MinFooterSizeIsEnough` without
  `mode = "gzip"`). With a gzip header a first destination too small for it gets no `destLen` (`LengthTold`
  without `mode # "gzip"`).

**Bounds.** `MaxRuns` bounds the runs a trial may schedule, `Repetitions` the
trials, `Levels` the utilizations: with `{0, 100}` and `Target = 100` a sample asks
for any number of jobs from 0 to the number of CPUs, and every order of the CPUs
occurs. Two CPUs are enough for two runs to need each other's CPU; three are
needed for a run with two extra workers, for a reservation that fails after it
has succeeded once, and for a first selection that asks for more jobs than there
are benchmarks. With three runs on a CPU one can be executed, one queued and one
reserved. The trial is only bounded by `MaxRuns`: the scheduling loop may go round any
number of times.

In `replay`, a heap of 3 gives a class up to three objects, so that a death can hit
the first, the last or one between; with three operations and up to three more
of the repair an object can be born and die in the trace, die as one of the
snapshot, or move twice. A second replay frees what the first has left; the state
after it has the same shape, so a third adds nothing. Six addresses are as many as
can be live at once, and the addresses are interchangeable (`SYMMETRY`). In `rpc`, five
iterations are enough for each of three streams to start and for two to continue,
and for a stream to end before the last one has started.

In `cpus`, four CPUs are enough for two sockets with a core of two siblings
or two cores of one, for cores whose ids have a gap, and for a request that ends within
a core. In `BenchmarkSelection` a window of one run makes each measurement count at once. In
`Reporter`, three runs allow two of one benchmark and one of the other, or a failed
one beside two; two trials are enough for one to leave something for the other.
Fields of lengths 0, 1 and 2 are the empty field, one that ends with its buffer and one that is
cut. Two documents are enough for an object to keep something from the first.
Two iterations are enough for the generated benchmarks, whose second iteration starts
in the state each later one starts in: the operations on cords copy those of the setup and write none, and for the
messages it is what `IterationsAlike` shows. The settings have two values
each, one the default.

`cpus`, `zlib`, `controller` and `workloads` turn the deadlock check off: a sequential program ends, and
an object's inputs are used up. So do `failures`, `refinement` and the violation runs, since there the
runner really may stop (a dead thread is waited for).

**Fairness.** `FairSpec` assumes that the operating system schedules the
controller and each thread (weak fairness), which includes that a
subprocess ends, and that a loop that reads the clock again and again finds the
duration elapsed (strong fairness of `TimeUp`, which is enabled at each round and
not between). No fairness is assumed of any choice: not of the selection of
benchmarks nor of the order of CPUs. Locks need no fairness of their own: a
thread waits for its own lock only, and while it waits nobody else can place a
later claim in front of it for ever since the number of runs is bounded.

`FairSpec` of `RpcPerf` assumes that the main thread and the threads of gRPC are
scheduled and that a call is answered or fails (weak fairness), which gRPC
promises; a call without an answer has no deadline in this code.

`FairSpec` of `CpuSelection` is weak fairness of `Next`: the selection is a computation of one
thread, which runs until it returns.

**Mutants.** Each property of a passing run has a mutant in `PROJECT.json`: a
changed form of one definition (a dropped guard, a swapped order, a missing
reset), under which TLC finds the property violated.


## 5. What is proved

`ParallelBenchProofs` proves, for every set of CPUs, every list of benchmarks and
thread counts, with and without affinity and with every set of outcomes:

* `TypeCorrect`: `Spec => []TypeOK`;
* `LocksCorrect`: `Spec => [](LockOwned /\ FlagMeansReserved)`, and `LocksOwned` for the
  first half alone;
* `NoCircularWait`: `Spec => []WaitsForLater`;
* `CpusExclusive`: `Spec => []CpuExclusive`.

They follow from `IndInvCorrect`, an inductive invariant with seven parts. Why each
is needed:

* `TypeOK`, and `Shape`: which of the command, task, `extra` and `toVisit` are set at
  which line of the controller and of a thread; without it the guards say too little
  about the data they lead to.
* `LockOwned`: the lock of a worker is claimed by at most one of the worker itself,
  the controller's `extra`, a queued run and a thread's task, and who claims it
  holds it. `TryBlock` succeeds only on a free lock, so a new claim is alone; each
  hand-over (controller to queue, queue to task) moves a whole set of claims.
* `FlagMeansReserved`: the flag and the reservation agree but for the window between
  the two lines of `Unblock`. It is what keeps `TryAddRun` from giving a run to a
  worker that is reserved.
* `MaskShape`: a thread's mask is its own CPU and, from `Acquire` to `ResetAffinity`, the
  CPUs of its extra workers. With `LockOwned` (the masks of two running subprocesses
  are claims of different owners) this gives `CpuExclusive`.
* `IdsIssued`: every run in a queue or a task has an id below `nextRunId`.
* `WaitsForLater`: a run that waits for a worker was scheduled before the run that
  reserved the worker. A run is put in a queue only when the worker is not flagged;
  a run that reserves a worker whose queue is full has a later id, by `IdsIssued`.
  Ids of waiting and reserving runs thus increase along every chain of waiting,
  and a chain cannot close.

The assumptions are here `ConstantsAssumption` (`Worker`) and `ControllerAssumption`
(`ParallelBench`): the constants have their types, `Empty` and `None` are not tasks
or results, and the lists of CPUs and benchmarks have no repetitions.

Its second part proves, under the same assumptions:

* `RunsCorrect`: `Spec => []EveryRunOnce`;
* `TrialsCorrect`: `Spec => []TrialComplete`;
* `NothingOrphaned`: `Spec => []NoOrphanedBlock`.

They follow from `RunsInvCorrect`, the invariant `RunsInv` with three parts, which is
inductive given `TypeOK` and `Shape` of the first one:

* `RunsOnce`: each id below `nextRunId` has one place among the queues, the threads,
  the queued results, `runtimes` and `failed`, and every other id has none. A step that
  moves a run empties one place and fills another; the lemmas say for each of the five
  which steps leave it alone. That ids not yet issued have no place is what makes the
  place of a new run the only one.
* `StopOrder`: the workers that `StopAndGetResults` has not reached are alive and have no
  end mark in their queues; the one whose turn it is has the `None` command or, once it
  has exited, a result queue whose only `None` is the last entry; the ones before it are
  exited with empty queues. Only this tells that the `None` the controller reads
  means that nothing is left behind, from which `TrialComplete` follows. A thread that
  died never exits, so that the controller then never gets past its turn: the theorem
  needs no assumption about exceptions.
* `HeldForSomebody`: `NoOrphanedBlock` in terms of the reservations.

Its third part proves `RefinementCorrect`: `Affinity => (Spec => ImplementsLifecycle)`.
Affinity is a hypothesis since `RunLifecycle` says that two runs in progress share no CPU, which
without affinity is not so. The initial states map to initial states; each action of a
thread or of the controller maps to one step of the life cycle or to none. `RunsOnce` is
what makes the mapping a function of a run: a run that leaves one abstract set is not in
another. `Acquire` maps to a start on CPUs that are free by `CpuExclusive` in the next state;
the result that the controller takes maps to a settled run; the start of the next trial maps to
`NewTrial` because `StopOrder` leaves no run queued, in progress or finished.

`RpcPerfProofs` proves, for every number of streams and iterations (`RpcAssumption`:
the number of streams is below the range of the counter):

* `CountCorrect`: `Spec => []CountsStreams`;
* `WaitCorrect`: `Spec => []QuietAfterWait`;
* `IterationsCorrect`: `Spec => []EveryIterationAnswered`.

The inductive invariant adds to them which streams have been started at which point
of the constructor (`Starting`), the count at every point, also inside the mutex
where the stream just sent is not yet counted, and that exactly the streams with
a call out have a context. A stream that is done stays done, so the count can
only reach 0 for good when the constructor has returned.

`IterationsCorrect` needs an invariant of its own, `Accounting`: the iterations granted are
the calls whose callback ran, the calls out and the one the constructor is about to send; a stream
that stops, or that the constructor leaves idle, was told there are no more iterations; the
callbacks that have run, with those still to run, bound the handlers that have returned or are running
from both sides, up to errors; and `ServerWait` returns only
with no handler left.

The next two modules prove, for every number of classes, heap size, trace, set of addresses
and number of replays (`EmpiricalAssumption`):

* `MovesDownCorrect` (`EmpiricalRecordingProofs`): `Spec => []ObjectsMoveDown`;
* `RecordedCorrect` (the same): `Spec => []RecordInv`, that the recording
  accounts for every object exactly once;
* `TypesCorrect`, `FreesCorrect`, `SteadyCorrect`, `PrepareCorrect` (`EmpiricalReplayProofs`): `TypeOK`,
  `FreesLiveObject`, `SteadyState` and `PrepareFollowsRecording`. They follow from
  `ReplayInvCorrect`, the inductive invariant `ReplayInv` of the whole life of the object.

The argument goes along the life of the object.

* *Recording.* A death moves the last object of a list into the hole. Hence an object of the
  snapshot is in its own slot or below it, and if it has left its slot, it was the last then, so no
  object of the snapshot is in that slot or after it (`ObjectsMoveDown`). `RecordInv` adds that a slot
  holds an object of its class, that a death frees an object of its class, after its birth, and
  that of the objects of the snapshot and the births none is forgotten and none named
  twice, by two slots, two deaths or one of each. The lists `objs` and `indices` of a class have the same
  length while the trace is recorded, so that one index removes from both.
* *Building.* `VectorsBuilt`: each pair of an update vector is the move or the look-up that the recording
  asks for, no such pair is missing, and each birth has its place: the entry of the death that frees
  it, or its own in `birth_objects_`. No birth has two places, as it is named once.
* *Replaying.* The objects alive at a position of the trace are those of the snapshot and the births
  so far that no death so far has freed. `AliveAllocated`: their addresses, each read from where the vectors
  say it is stored, are exactly the allocated ones, each of its class. A birth stores
  its address in an entry no living object uses; a death reads that of an object alive.
  This is `FreesLiveObject`. At the end of the trace the living objects are those of the slots.
* *Preparing.* Each loop keeps what the earlier ones have done and, of its own pairs, those before
  `at`. When `obj_update` reads a slot, nothing has been written there, since by `ObjectsMoveDown` the slots it
  writes are below those it reads. So each slot ends with its target, which gives
  `PrepareFollowsRecording` and, with the end of the replay, the list of allocated objects again.

`ZLibSettingsProofs` proves, for all sets of levels, windows and dictionaries (with the default
level and window in them), each under the restriction of the caller that it needs:

* `SettingsTyped`: `[]TypeOK`, for every caller;
* `SettingsCorrect`: `[]FitsAsked`, if the caller does not `Reinit` an object
  that has compressed without header. It may set the header mode amid chunks: this ends the
  stream, and an ended stream is not used as asked but not used at all;
* `StreamsReady`: `StreamReady`, if the caller does not set the header mode amid chunks;
* `GzipStreamsBare`: `[]UsedAsAsked`, which is `FitsAsked` and `GzipIsBare`, under the first restriction and
  if the caller does not leave no-header mode while in gzip mode.

The difficulty is that one `init_settings_` describes two streams. `InitDescribesComp` says what
it may be trusted for: as long as `comp_stream_` is initialised, its level, window and framing are
those of `init_settings_`, although uncompressing overwrites the framing there. This holds since
the framing is also the one in `settings_`: a setter that changes it ends both streams. `StreamAsAsked` carries `asked` from the first chunk to the next ones, and `AmidChunks`
ties `first_chunk_` to what the caller is amid. The hypothesis `~MayReinitBare` excludes the one path,
`Reinit`, on which the record changes to another framing without the stream.

`ZLibCompressProofs` proves, for all sets of source lengths and of destination sizes, every header
mode and any number of calls and of pieces of data:

* `CompressTyped`: `Spec => []TypeOK`;
* `CompressionWhole`: `Spec => []CompressedWhole`.

`DeflateDoes` says what is used of the model of `deflate`: it takes no more than it is given and writes no
more than there is room for, counts what it writes, and if it did not fill the destination it has taken
everything and holds nothing back. The lemmas about the methods carry this through `CompressAtMostOrAll`,
`CompressChunkOrAll` and the footer. The inductive invariant:

* `ChunksInv`: `first_chunk_` is set whenever a piece of data is over, well or not, and as long as it is set
  nothing was taken or written of this one. This is why nothing of failed data shows in the next.
* `CountsInv`: amid chunks, size and checksum count what was taken, what was written is the header and what
  `deflate` made, the stream has not ended, and bytes are pending only after a destination that was filled. The
  last is what `MinFooterSizeIsEnough` follows from: with nothing pending `deflate` ends with a block of two bytes, and
  eight are left for the footer.
* `ToldInv`: outside gzip mode `destLen` adds up to what was written, also for data that failed.
* `OutputComplete`, which the last call of a piece of data establishes from `CountsInv`.

`CpuSelectionProofs` proves, for every finite set of CPUs, all sets of socket and core ids, every mask and
every request (`CpuAssumption`):

* `NoCpuTwice`: `Spec => []TypeOK`, also for machines with hidden sockets and undescribed CPUs;
* `SelectionAsAsked`: `~MayHideSocket => (Spec => []SelectedAsAsked)`. The hypothesis is that every CPU is described and
  that the sockets in use are 0 to k: else the balanced mode asks sockets that do not exist and
  passes over some that do.

The parts of the inductive invariant, besides the types:

* `EntriesInv`: the entries of `cpu_info` are those of the described and available CPUs read so far: two
  entries are of different cores, an entry has just the CPUs of its core, each once, and none is empty.
* `MachineInv`: the mask leaves a CPU; under the hypothesis all CPUs are described and the sockets in use are 0 to k.
* `PhaseInv`: from the end of the file on all blocks were read, and each loop belongs to its mode.
* `ListInv` and `BalanceInv`: what a loop has selected so far is exactly what the cores it has passed offer. For
  the lists these are the entries of lower sockets and those before `at`; for the balanced mode the cores with a
  lower number on every socket, and those with the number `core_id` on sockets below `socket_id`. Each core is thus
  added once, which is `NoCpuTwice`. The list is ordered by socket, so that its first `num_cpus` CPUs leave a lower
  socket only when it is used up.
* `DoneInv`: `SelectsEnough` and `Socket0First` at the end.

`EvenAcrossSockets` follows from `BalanceInv`: the balanced mode has taken of each socket the cores below
`core_id` and of some sockets that core too; sockets with equal cores then differ by one core at most.

That as many sockets as `GetSocketsCount` counts are the sockets 0 to k, and what a prefix of a list
holds, are shown with lemmas on cardinality. The sum over the cores below
`core_id` needs induction, which `AllNaturals` gives for a set that has 0 and with each number the next: its
counterexamples would have a least member. It takes a set where the library's theorem takes an operator.

`ReporterProofs` proves, for all sets of benchmarks, times and numbers of trials, whatever fails
(`ReporterAssumption`):

* `TypeCorrect`: `Spec => []TypeOK`;
* `ReportsAreOfSuccessfulRuns`: `Spec => []CountsTheSuccessful`;
* `FinalReportIsOfAllTrials`: `Spec => []FinalOfAllTrials`;
* `RaisesInKnownCases`: `Spec => []RaisesOnlyIf`.

The inductive invariant follows the data from the runs to the final report:

* `ListsInv`: how many trials `data_list` and `context_list` have at each line;
* `RunsInv`: of the trial in progress, the collected rows with a time and the files that parse are the runs that ended
  well, and a row or a file without a time means that a run has failed; no runs of a later trial exist;
* `FramesInv`: what the data frames hold between two functions, in terms of the runs;
* `ReportsInv`: each row of `data_list` gives count, mean and counter of the successful runs of its trial, and a
  report that was written is the frame of its trial;
* `DatesInv`: the first context is not later than any run that ended well, of later trials too, since the clock has
  passed it;
* `FinalInv`, that there is a final report only at the end, with `FinalOfAllTrials`; and `RaisesOnlyIf`.

A mean is not expanded in these proofs: they show of which runs it is taken, and that is where the code
could go wrong. What `Mean` computes is left to TLC.

## 6. What is only model-checked, and what is not modelled

Only model-checked, because the prover does not handle it:

* liveness (`Termination` of the runner, of the RPC benchmark and of the CPU selection, `BlockedIsTemporary`), and
  `StuckOnlyIf`, which speaks of ENABLED;
* `TimeSharedAsAsked`: sums of fractions over all benchmarks, in lowest terms, which are folds and a recursive
  `gcd`. What they compute for every input needs induction over data;
* `SplitDoesNotMatter` and `AcceptsExactlyValid`: the parser of `GZipHeader` goes through a buffer recursively, and the
  properties compare it, for all splits, with what it does on the whole;
* `DrawnInProportion`: sums over the leaves of a tree, and rounding, which searches for the unit recursively;
* `CordsUsable`, `MessagesUsable` and `IterationsAlike`: the generated programs have no parameter a theorem could
  range over, and TLC executes all of each.

Not modelled:

* of the parallel runner: discovery and filtering of benchmarks, flags, the context
  fields of reports other than the date, and the case of a failed run that has written
  all of its output;
* of `zlibwrapper`: `SetDontHideStreamEnd`, lengths that do not fit an unsigned int, and memory
  errors; the wrappers of `algorithms.cc`, which keep no state;
* of the proto benchmark: the `Get` functions, which only read, and `Set` functions that
  the sequence does not call; the messages of `rpc/protos`, which are the same kind of code;
* the registrar, `benchmark_main` and `common`: sequential setup code whose order is fixed;
* the compression benchmark and its corpora, swissmap, hashing, libc and simd:
  sequential loops around library calls, without state of their own;
* the counters and delays of the RPC programs (`rpc_counters`, `generator_process`): `BM_Rpc` has no counters, and
  delays only change timing;
* data files, distributions, build and CI.

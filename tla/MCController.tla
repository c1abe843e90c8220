---------------------------- MODULE MCController ----------------------------
(***************************************************************************)
(* Instances for TLC of what the controller does besides scheduling, side  *)
(* by side: reporting on one and on two trials, which is Reporter itself,  *)
(* and choosing benchmarks.  The initial state chooses which part runs;    *)
(* the other stays where it starts.                                        *)
(***************************************************************************)
EXTENDS Reporter

VARIABLES
  part,
  strategy, custom, benchmark_weights, target_ratios, first_run,
  repetition, asked, picked, measured, line  \* BenchmarkSelection

selection == <<strategy, custom, benchmark_weights, target_ratios, first_run,
               repetition, asked, picked, measured, line>>

Unused == "unused"
NoSelection ==
  /\ strategy = Unused /\ custom = Unused /\ benchmark_weights = Unused
  /\ target_ratios = Unused /\ first_run = Unused /\ repetition = Unused
  /\ asked = Unused /\ picked = Unused /\ measured = Unused /\ line = Unused
NoReporter == Init /\ repetitions = 1 /\ counters = "on" /\ ~keep_raw_data

-----------------------------------------------------------------------------
(***************************************************************************)
(* A tcmalloc benchmark and two of proto, of which the first is called     *)
(* BM_Proto_Arena and the other has "cold" in its name.                    *)
(***************************************************************************)
Workloads == <<"tcmalloc", "proto", "proto">>
KeywordIn == [k \in {"COLD", "BM_PROTO_ARENA"} |-> IF k = "COLD" THEN {3} ELSE {2}]
NameOf == [k \in {"BM_PROTO_ARENA"} |-> 2]

Selection == INSTANCE BenchmarkSelection WITH
  Benchmarks <- 3, Workload <- Workloads, TCMalloc <- {1},
  Keywords <- DOMAIN KeywordIn, Matches <- KeywordIn, Names <- NameOf, DCTax <- <<3, 1, 2>>,
  Strategies <- {"BM_WEIGHTED", "WORKLOAD_WEIGHTED", "DCTAX_WEIGHTED"},
  Weights <- {0, 3}, Durations <- {2, 5}, Counts <- {0, 2, 4}, Window <- 1,
  Repetitions <- 2, MaxRuns <- 2, runtimes <- measured, phase <- line

\* A first benchmark without a weight.
Weightless == INSTANCE BenchmarkSelection WITH
  Benchmarks <- 3, Workload <- Workloads, TCMalloc <- {1},
  Keywords <- {}, Matches <- KeywordIn, Names <- NameOf, DCTax <- <<0, 1, 2>>,
  Strategies <- {"DCTAX_WEIGHTED"},
  Weights <- {}, Durations <- {2, 5}, Counts <- {0, 2, 4}, Window <- 1,
  Repetitions <- 2, MaxRuns <- 2, runtimes <- measured, phase <- line

MCInit ==
  \/ /\ \/ part = "select" /\ Selection!Init
        \/ part = "weightless" /\ Weightless!Init
     /\ NoReporter
  \/ part = "report" /\ Init /\ NoSelection

MCNext ==
  \/ /\ \/ part = "select" /\ Selection!Next
        \/ part = "weightless" /\ Weightless!Next
     /\ UNCHANGED <<part, vars>>
  \/ part = "report" /\ Next /\ UNCHANGED <<part, selection>>

MCSpec == MCInit /\ [][MCNext]_<<part, vars, selection>>

-----------------------------------------------------------------------------
\* The probabilities of a selection make the expected runtimes follow the weights
\* (_ComputeBenchmarkWeights), a benchmark that has not run is taken to last as
\* long as one that has (_AdjustRuntime), and WORKLOAD_WEIGHTED gives every
\* workload the same weight, custom weights or not (weights.py): together, no
\* workload gets more time than the strategy says.  Choosing raises only for a
\* weight of zero (GetBenchmarkWeights, _SelectNextBenchmarks).
TimeSharedAsAsked ==
  /\ part = "select" =>
       /\ Selection!TypeOK /\ Selection!RaisesOnlyForZero
       /\ Selection!RuntimesMeetTargets
       /\ Selection!UnmeasuredNotShorter
       /\ Selection!WorkloadsEqual
  /\ part = "weightless" =>
       /\ Weightless!TypeOK /\ Weightless!RaisesOnlyForZero
       /\ Weightless!RuntimesMeetTargets /\ Weightless!UnmeasuredNotShorter
=============================================================================

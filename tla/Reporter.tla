------------------------------ MODULE Reporter ------------------------------
(***************************************************************************)
(* From the output files and results of the runs to the reports            *)
(* (parallel/reporter.py and the post-processing of                        *)
(* parallel/parallel_bench_lib.py): each trial writes results.json in its  *)
(* own directory, and the last step combines the trials.  Every function   *)
(* of the post-processing is a step, and ends in phase "raised" where it   *)
(* raises an exception, which nobody catches.                              *)
(*                                                                         *)
(* A run has one measured time, which stands for the wall time, the CPU    *)
(* time and the iterations, and is also its performance counter.  A date   *)
(* is the number of runs started before, and so tells the runs apart: what *)
(* the reports aggregate are sets of runs, since neither the order of the  *)
(* files nor that of the results matters to them.  A mean is a fraction    *)
(* <<n, d>>; a standard deviation is only known to be a number or not.     *)
(***************************************************************************)
EXTENDS Integers, SequencesExt

CONSTANTS
  Benchmarks,
  Times,        \* what a run may measure
  Repetitions,  \* values of --repetitions
  MaxRuns,      \* bound: runs of a trial
  FileOfFailed, \* what a failing run may leave: a subset of {"none", "partial"}
  SaveMayFail,  \* whether writing a report may end in an IOError
  Counters      \* --benchmark_perf_counters: a subset of {"off", "on", "unsupported"}

NaN == 0 \* no time

ASSUME ReporterAssumption ==
  /\ Times \subseteq Nat \ {NaN} /\ Repetitions \subseteq Nat \ {0}
  /\ FileOfFailed \subseteq {"none", "partial"} /\ SaveMayFail \in BOOLEAN
  /\ Counters \subseteq {"off", "on", "unsupported"}

NoReport      == [date |-> -1, benchmarks |-> << >>]
PartialReport == [date |-> -2, benchmarks |-> << >>]

VARIABLES
  repetitions, counters, keep_raw_data, \* flags
  trial, phase,
  clock,                   \* runs started so far, in all trials
  files,                   \* temp_root: what the runs wrote
  runtimes,                \* [Benchmarks -> Seq of runs], with the fake first one
  done,                    \* history: [Trials -> the successful runs]
  failed,                  \* history: [Trials -> the number of failed runs]
  df, perf_counter_df,     \* the data frames: benchmark -> row
  results,                 \* [Trials -> results.json in run_<i>]
  context_list, data_list,
  final                    \* results.json of temp_parent_root

flags == <<repetitions, counters, keep_raw_data>>
history == <<clock, done, failed>>
reports == <<results, context_list, data_list, final>>
vars == <<repetitions, counters, keep_raw_data, trial, phase, clock, files, runtimes, done, failed,
          df, perf_counter_df, results, context_list, data_list, final>>

-----------------------------------------------------------------------------
gcd[m \in Nat, n \in Nat] == IF n = 0 THEN m ELSE gcd[n, m % n]
Fraction(n, d) == <<n \div gcd[n, d], d \div gcd[n, d]>>
Mean(runs) == Fraction(MapThenSumSet(LAMBDA r : r.time, runs), Cardinality(runs))
MeanOfMeans(means) ==
  LET sum == FoldFunction(LAMBDA m, s : <<m[1] * s[2] + s[1] * m[2], m[2] * s[2]>>, <<0, 1>>, means)
  IN  Fraction(sum[1], sum[2] * Cardinality(DOMAIN means))

\* pandas skips what is not a number.
Numbers(runs) == {r \in runs : r.time # NaN}

Count(runs) == Cardinality(Numbers(runs))

RunsOf(b, runs) == {r \in runs : r.benchmark = b}

Trials == 1..repetitions

Init ==
  /\ repetitions \in Repetitions /\ counters \in Counters /\ keep_raw_data \in BOOLEAN
  /\ trial = 0 /\ phase = "next" /\ clock = 0
  /\ files = {} /\ runtimes = [b \in Benchmarks |-> << >>]
  /\ done = [t \in Trials |-> {}] /\ failed = [t \in Trials |-> 0]
  /\ df = << >> /\ perf_counter_df = << >>
  /\ results = [t \in Trials |-> NoReport]
  /\ context_list = << >> /\ data_list = << >> /\ final = NoReport

-----------------------------------------------------------------------------
(***************************************************************************)
(* A trial: the scheduling loop and the shutdown, as far as the reports    *)
(* depend on them.                                                         *)
(***************************************************************************)
\* The fake run that runtimes begins with.
Fake(b) == [benchmark |-> b, time |-> 1, date |-> 0]

\* Mutant: one trial too many.
StartTrialOnceMore ==
  /\ phase = "next" /\ trial <= repetitions
  /\ trial' = trial + 1 /\ phase' = "loop"
  /\ files' = {}
  /\ runtimes' = [b \in Benchmarks |-> <<Fake(b)>>]
  /\ UNCHANGED <<flags, history, reports, df, perf_counter_df>>

\* Mutant: all trials share a directory.
StartTrialSameRoot ==
  /\ phase = "next" /\ trial < repetitions
  /\ trial' = trial + 1 /\ phase' = "loop"
  /\ runtimes' = [b \in Benchmarks |-> <<Fake(b)>>]
  /\ UNCHANGED <<flags, history, reports, files, df, perf_counter_df>>

\* The directory of the trial is made anew, and _PreRun resets the runtimes.
StartTrial ==
  /\ phase = "next" /\ trial < repetitions
  /\ trial' = trial + 1 /\ phase' = "loop"
  /\ files' = {}
  /\ runtimes' = [b \in Benchmarks |-> <<Fake(b)>>]
  /\ UNCHANGED <<flags, history, reports, df, perf_counter_df>>

\* An output file that does not parse.
PartialFile(b) == [benchmark |-> b, time |-> NaN, date |-> clock]
Parses(f) == f.time # NaN

RunsLeft == phase = "loop" /\ Cardinality(done[trial]) + failed[trial] < MaxRuns

\* A run that ends well writes its file, and its result is recorded.
RunSucceeds ==
  /\ RunsLeft
  /\ \E b \in Benchmarks, t \in Times :
       LET r == [benchmark |-> b, time |-> t, date |-> clock]
       IN  /\ files' = files \union {r}
           /\ runtimes' = [runtimes EXCEPT ![b] = Append(@, r)]
           /\ done' = [done EXCEPT ![trial] = @ \union {r}]
  /\ clock' = clock + 1
  /\ UNCHANGED <<flags, reports, trial, phase, failed, df, perf_counter_df>>

\* A run that fails may leave the beginning of its file.  Its result is dropped
\* in the loop, and recorded without times if the shutdown collects it.
RunFails ==
  /\ RunsLeft
  /\ \E b \in Benchmarks :
       /\ \E left \in FileOfFailed :
            files' = IF left = "none" THEN files ELSE files \union {PartialFile(b)}
       /\ \/ UNCHANGED runtimes
          \/ runtimes' = [runtimes EXCEPT ![b] =
               Append(@, [benchmark |-> b, time |-> NaN, date |-> clock])]
  /\ failed' = [failed EXCEPT ![trial] = @ + 1]
  /\ clock' = clock + 1
  /\ UNCHANGED <<flags, reports, trial, phase, done, df, perf_counter_df>>

-----------------------------------------------------------------------------
(***************************************************************************)
(* PostProcessBenchmarkResults                                             *)
(***************************************************************************)
Goto(line) == phase' = line /\ UNCHANGED <<flags, history, trial, runtimes>>

\* times_list[1:]
Collected(b) == {runtimes[b][k] : k \in 2..Len(runtimes[b])}

\* Mutant: a benchmark that did not run has a row without times.
ConvertToDataFrameAll ==
  /\ phase = "loop"
  /\ df' = [b \in Benchmarks |-> Collected(b)]
  /\ Goto("perf")
  /\ UNCHANGED <<reports, files, perf_counter_df>>

\* The rows of all runs but the fake ones.  A frame without rows has no
\* column "Benchmark", which is then counted.
ConvertToDataFrame ==
  /\ phase = "loop"
  /\ df' = [b \in {c \in Benchmarks : Collected(c) # {}} |-> Collected(b)]
  /\ Goto(IF DOMAIN df' = {} THEN "raised" ELSE "perf")
  /\ UNCHANGED <<reports, files, perf_counter_df>>

\* The mean of the counter over the files that parse.  A counter that no file
\* has is not a column to aggregate.
GeneratePerfCounterDataFrame ==
  /\ phase = "perf"
  /\ LET parsed == {f \in files : Parses(f)}
     IN  /\ perf_counter_df' =
              IF counters # "on" THEN << >>
              ELSE [b \in {f.benchmark : f \in parsed} |-> Mean(RunsOf(b, parsed))]
         /\ Goto(IF counters = "unsupported" /\ parsed # {} THEN "raised" ELSE "report")
  /\ UNCHANGED <<reports, files, df>>

\* A row per benchmark.  Mean_Iterations is converted to int, which raises when
\* there is no number.
GenerateBenchmarkReport ==
  /\ phase = "report"
  /\ IF \E b \in DOMAIN df : Numbers(df[b]) = {}
     THEN Goto("raised") /\ UNCHANGED df
     ELSE /\ df' = [b \in DOMAIN df |->
                      [Count |-> <<Count(df[b]), 1>>, real_time |-> Mean(Numbers(df[b])),
                       real_time_std |-> IF Count(df[b]) = 1 THEN "NaN" ELSE "number",
                       counter |-> IF b \in DOMAIN perf_counter_df THEN perf_counter_df[b]
                                   ELSE <<0, 1>>]]
          /\ Goto("context")
  /\ UNCHANGED <<reports, files, perf_counter_df>>

\* Every file of the directory is parsed, in any order; the context is the
\* earliest date.
AggregateContext ==
  /\ phase = "context"
  /\ IF \E f \in files : ~Parses(f)
     THEN Goto("raised") /\ UNCHANGED context_list
     ELSE /\ \E first \in files : /\ \A f \in files : first.date <= f.date
                                 /\ context_list' = Append(context_list, first.date)
          /\ Goto("save")
  /\ UNCHANGED <<files, df, perf_counter_df, results, data_list, final>>

\* _SaveFile: an IOError is printed, whether the file was opened or not.
Saved(report) == {report} \union (IF SaveMayFail THEN {NoReport, PartialReport} ELSE {})

SaveBenchmarkResults ==
  /\ phase = "save"
  /\ \E saved \in Saved([date |-> Last(context_list), benchmarks |-> df]) :
       results' = [results EXCEPT ![trial] = saved]
  /\ data_list' = Append(data_list, df)
  /\ Goto("remove")
  /\ UNCHANGED <<files, df, perf_counter_df, context_list, final>>

RemoveRawData ==
  /\ phase = "remove"
  /\ files' = IF keep_raw_data THEN files ELSE {}
  /\ Goto("next")
  /\ UNCHANGED <<reports, df, perf_counter_df>>

-----------------------------------------------------------------------------
(***************************************************************************)
(* GenerateFinalReport                                                     *)
(***************************************************************************)
AllDone == phase = "next" /\ trial = repetitions

\* One trial: its results.json is copied, and parsed for the summary.
CopyReport ==
  /\ AllDone /\ repetitions = 1
  /\ final' = results[1]
  /\ Goto(IF results[1] = PartialReport THEN "raised" ELSE "end")
  /\ UNCHANGED <<files, df, perf_counter_df, results, context_list, data_list>>

\* The trials that have a row for the benchmark.
RowsOf(b) == {k \in DOMAIN data_list : b \in DOMAIN data_list[k]}

\* Mutant: benchmarks of the first trial only.
AggregateFinalDataFirst ==
  [b \in DOMAIN data_list[1] |->
     [Count     |-> MeanOfMeans([k \in RowsOf(b) |-> data_list[k][b].Count]),
      real_time |-> MeanOfMeans([k \in RowsOf(b) |-> data_list[k][b].real_time])]]

\* Numbers are averaged over the trials, whose rows are grouped by name.
AggregateFinalData ==
  [b \in UNION {DOMAIN data_list[k] : k \in DOMAIN data_list} |->
     [Count     |-> MeanOfMeans([k \in RowsOf(b) |-> data_list[k][b].Count]),
      real_time |-> MeanOfMeans([k \in RowsOf(b) |-> data_list[k][b].real_time])]]

\* The context of the first trial.
AggregateFinalContext == Head(context_list)

\* "NaN" ** 2 raises.
AggregateTrials ==
  /\ AllDone /\ repetitions > 1
  /\ IF \E k \in DOMAIN data_list : \E b \in DOMAIN data_list[k] : data_list[k][b].real_time_std = "NaN"
     THEN Goto("raised") /\ UNCHANGED final
     ELSE /\ final' \in Saved([date |-> AggregateFinalContext, benchmarks |-> AggregateFinalData])
          /\ Goto("end")
  /\ UNCHANGED <<files, df, perf_counter_df, results, context_list, data_list>>

Next ==
  \/ StartTrial \/ RunSucceeds \/ RunFails
  \/ ConvertToDataFrame \/ GeneratePerfCounterDataFrame \/ GenerateBenchmarkReport
  \/ AggregateContext \/ SaveBenchmarkResults \/ RemoveRawData
  \/ CopyReport \/ AggregateTrials

Spec == Init /\ [][Next]_vars

-----------------------------------------------------------------------------
IsReport(r) == r.date >= 0

Runs == [benchmark : Benchmarks, time : Times \union {NaN, 1}, date : Nat]

\* The post-processing is at one of its lines, a trial is over at most once, and
\* its context and its data are recorded together (parallel_bench_lib.py:606-609).
TypeOK ==
  /\ repetitions \in Repetitions /\ counters \in Counters /\ keep_raw_data \in BOOLEAN
  /\ phase \in {"next", "loop", "perf", "report", "context", "save", "remove", "end", "raised"}
  /\ trial \in 0..repetitions /\ clock \in Nat
  /\ runtimes \in [Benchmarks -> Seq(Runs)] /\ files \subseteq Runs
  /\ done \in [Trials -> SUBSET Runs] /\ failed \in [Trials -> Nat]
  /\ context_list \in Seq(Nat)
  /\ Len(data_list) <= trial /\ Len(context_list) \in {Len(data_list), Len(data_list) + 1}

\* The report of a trial (SaveBenchmarkResults) has a row for each benchmark that
\* the trial ran successfully, which counts these runs and no others, gives their
\* mean, and with performance counters the mean counter of the same runs.
CountsTheSuccessful ==
  \A t \in Trials : IsReport(results[t]) =>
    /\ DOMAIN results[t].benchmarks = {r.benchmark : r \in done[t]}
    /\ \A b \in DOMAIN results[t].benchmarks :
         LET row == results[t].benchmarks[b]  runs == RunsOf(b, done[t])
         IN  /\ row.Count = <<Cardinality(runs), 1>> /\ row.real_time = Mean(runs)
             /\ counters = "on" => row.counter = Mean(runs)

\* The final report of several trials (AggregateFinalData) averages each benchmark
\* over just the trials that ran it.
FinalIsAverage ==
  phase = "end" /\ repetitions > 1 /\ IsReport(final) =>
    \A b \in Benchmarks :
      LET ran == {t \in Trials : RunsOf(b, done[t]) # {}}
      IN  /\ b \in DOMAIN final.benchmarks <=> ran # {}
          /\ ran # {} => final.benchmarks[b].real_time
                           = MeanOfMeans([t \in ran |-> Mean(RunsOf(b, done[t]))])

\* The date of the final report is that of the earliest run that ended well, of
\* all trials, in whatever order the files were listed (AggregateContext).
DateIsEarliest ==
  IsReport(final) => \A t \in Trials : \A r \in done[t] : final.date <= r.date

\* The final report averages a benchmark over the trials that ran it
\* (AggregateFinalData), and has the earliest date (AggregateContext).
FinalOfAllTrials == FinalIsAverage /\ DateIsEarliest

\* An exception ends the program only in one of these cases: counters that the
\* build does not support, a trial without a successful run, a failed run, a
\* single trial whose report was not written to its end, or several trials of
\* which one has run a benchmark exactly once (PostProcessBenchmarkResults,
\* GenerateFinalReport).
RaisesOnlyIf ==
  phase = "raised" =>
    \/ counters = "unsupported"
    \/ done[trial] = {} \/ failed[trial] > 0
    \/ repetitions = 1 /\ results[1] = PartialReport
    \/ repetitions > 1 /\ \E t \in Trials : \E b \in Benchmarks : Cardinality(RunsOf(b, done[t])) = 1

\* When all trials have made their reports, the final report is made
\* (AggregateFinalData).
TrialsAreCombined == phase = "raised" => Len(data_list) < repetitions
=============================================================================

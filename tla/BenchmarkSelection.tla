------------------------- MODULE BenchmarkSelection -------------------------
(***************************************************************************)
(* Which benchmarks the scheduling loop runs next: the weights a strategy  *)
(* and the user's custom weights give them (parallel/weights.py), and the  *)
(* probabilities that weights and measured runtimes make together          *)
(* (parallel/parallel_bench_lib.py).  A float is a fraction <<n, d>>; one  *)
(* with d = 0 is what a division by zero gives.                            *)
(***************************************************************************)
EXTENDS Integers, SequencesExt

CONSTANTS
  Benchmarks,  \* how many there are: benchmark 1 is the first in the dictionary
  Workload,    \* [1..Benchmarks -> workload]
  TCMalloc,    \* the benchmarks with "TCMALLOC" in their name
  Keywords,    \* what custom weights may be given for, in upper case
  Matches,     \* [Keywords -> SUBSET 1..Benchmarks]: in the upper-cased name
  Names,       \* the keywords that are a name -> its benchmark
  DCTax,       \* [1..Benchmarks -> weight]: weights.csv
  Strategies, Weights, Durations, Counts,
  Window,      \* how many runs the mean is over: 10
  Repetitions,
  MaxRuns      \* bound: measured runs of one benchmark

B == 1..Benchmarks

VARIABLES
  strategy, custom,  \* --scheduling_strategy and --benchmark_weights
  benchmark_weights, runtimes, target_ratios, first_run,
  repetition,
  asked, picked,     \* the last selection: how many, and which
  phase              \* "weights", "idle", "run", "raised" or "end"

vars == <<strategy, custom, benchmark_weights, runtimes, target_ratios, first_run,
          repetition, asked, picked, phase>>

-----------------------------------------------------------------------------
gcd[m \in Nat, n \in Nat] == IF n = 0 THEN m ELSE gcd[n, m % n]

\* In lowest terms; x/0 keeps its denominator.
Reduced(n, d) == LET g == IF n = 0 /\ d = 0 THEN 1 ELSE gcd[n, d] IN <<n \div g, d \div g>>

Scaled(p, q)  == Reduced(p[1] * q[1], p[2] * q[2])
Over(p, q)    == Reduced(p[1] * q[2], p[2] * q[1])
Equal(p, q)   == p[1] * q[2] = q[1] * p[2]
Plus(p, q)    == Reduced(p[1] * q[2] + q[1] * p[2], p[2] * q[2])
Total(f, S)   == FoldSet(LAMBDA b, sum : Plus(sum, f[b]), <<0, 1>>, S)
IsNumber(p)   == p[2] # 0

(***************************************************************************)
(* GetBenchmarkWeights                                                     *)
(***************************************************************************)
Siblings(b) == {c \in B : Workload[c] = Workload[b]}

\* dict.update: a custom weight counts for the benchmark whose name is the
\* upper-cased key, and is an entry nobody reads for any other key.
BmWeighted(cw) ==
  [b \in B |-> LET of == {k \in DOMAIN cw \cap DOMAIN Names : Names[k] = b}
               IN  IF of = {} THEN <<1, 1>> ELSE <<cw[CHOOSE k \in of : TRUE], 1>>]

Factor(cw, b) ==
  FoldSet(LAMBDA k, f : f * cw[k], 1, {k \in DOMAIN cw : b \in Matches[k]})

\* Each weight of a workload is multiplied and divided by the workload's sum.
_UpdateWorkloadWeights(w, cw) ==
  LET scaled == [b \in B |-> Scaled(w[b], <<Factor(cw, b), 1>>)]
  IN  [b \in B |-> IF Siblings(b) = {b} THEN w[b]
                   ELSE Over(scaled[b], Total(scaled, Siblings(b)))]

WorkloadWeighted(cw) ==
  LET w == [b \in B |-> <<1, Cardinality(Siblings(b))>>]
  IN  IF DOMAIN cw = {} THEN w ELSE _UpdateWorkloadWeights(w, cw)

GetBenchmarkWeights(st, cw) ==
  CASE st = "BM_WEIGHTED"       -> BmWeighted(cw)
    [] st = "WORKLOAD_WEIGHTED" -> WorkloadWeighted(cw)
    [] st = "DCTAX_WEIGHTED"    -> [b \in B |-> <<DCTax[b], 1>>]

-----------------------------------------------------------------------------
(***************************************************************************)
(* The probabilities of a selection                                        *)
(***************************************************************************)
\* The durations of a benchmark; the first is the fake one of _PreRun.
Measured(b) == LET n == Len(runtimes[b])
               IN  SubSeq(runtimes[b], IF n - Window > 1 THEN n - Window + 1 ELSE 2, n)

Mean(s) == Reduced(FoldSeq(+, 0, s), Len(s))

\* Mutant: the fake duration is taken for a measured one.
_AdjustRuntimeFake ==
  [b \in B |-> IF Measured(b) = << >> THEN <<runtimes[b][1], 1>> ELSE Mean(Measured(b))]

\* Benchmarks that have not run yet take as long as the last one that has,
\* times their fake duration.
_AdjustRuntime ==
  LET valid == {b \in B : Measured(b) # << >>}
      last  == IF valid = {} THEN <<1, 1>> ELSE Mean(Measured(Max(valid)))
  IN  [b \in B |-> IF b \in valid THEN Mean(Measured(b))
                   ELSE Scaled(<<runtimes[b][1], 1>>, last)]

\* The probability of a benchmark relative to the first one's.
_AdjustProbabilities(target, current) ==
  [b \in B |-> IF b = 1 THEN <<1, 1>>
               ELSE Over(Scaled(current[1], target[b]), Scaled(current[b], target[1]))]

_ComputeBenchmarkWeights ==
  LET current == _AdjustRuntime
  IN  IF \A b \in B : Equal(current[b], <<1, 1>>) THEN target_ratios
      ELSE _AdjustProbabilities(target_ratios, current)

\* What np.random.choice accepts: after the division by their sum, numbers.
Accepted(p) == (\A b \in B : IsNumber(p[b])) /\ \E b \in B : p[b][1] > 0

-----------------------------------------------------------------------------
Init ==
  /\ strategy \in Strategies
  /\ \E keys \in SUBSET Keywords : custom \in [keys -> Weights]
  /\ benchmark_weights = << >> /\ target_ratios = << >> /\ runtimes = << >>
  /\ first_run = TRUE
  /\ repetition = 0
  /\ asked = 0 /\ picked = {}
  /\ phase = "weights"

\* A sum of zero raises ZeroDivisionError.
SetWeights ==
  /\ phase = "weights"
  /\ LET w == GetBenchmarkWeights(strategy, custom)
     IN  IF \A b \in B : IsNumber(w[b])
         THEN benchmark_weights' = w /\ phase' = "idle"
         ELSE phase' = "raised" /\ UNCHANGED benchmark_weights
  /\ UNCHANGED <<strategy, custom, runtimes, target_ratios, first_run, repetition, asked, picked>>

_PreRun ==
  /\ phase = "idle" /\ repetition < Repetitions
  /\ runtimes' = [b \in B |-> <<IF b \in TCMalloc THEN 4 ELSE 1>>]
  /\ target_ratios' = benchmark_weights
  /\ phase' = "run"
  /\ asked' = 0 /\ picked' = {}
  /\ UNCHANGED <<strategy, custom, benchmark_weights, first_run, repetition>>

\* All benchmarks when the first selection is for more than there are, and
\* then any that have a probability.
_SelectNextBenchmarks(count) ==
  /\ phase = "run"
  /\ asked' = count
  /\ IF count <= 0 THEN picked' = {} /\ UNCHANGED <<first_run, phase>>
     ELSE LET all  == IF first_run /\ count > Benchmarks THEN B ELSE {}
              left == count - Cardinality(all)
              p    == _ComputeBenchmarkWeights
          IN  /\ first_run' = FALSE
              /\ IF Accepted(p)
                 THEN /\ \E s \in SUBSET {b \in B : p[b][1] > 0} :
                           /\ s # {} /\ Cardinality(s) <= left
                           /\ picked' = all \union s
                      /\ UNCHANGED phase
                 ELSE phase' = "raised" /\ UNCHANGED picked
  /\ UNCHANGED <<strategy, custom, benchmark_weights, runtimes, target_ratios, repetition>>

\* A run that was selected has ended well.
Result(b, duration) ==
  /\ phase = "run" /\ b \in picked /\ Len(runtimes[b]) <= MaxRuns
  /\ runtimes' = [runtimes EXCEPT ![b] = Append(@, duration)]
  /\ UNCHANGED <<strategy, custom, benchmark_weights, target_ratios, first_run,
                 repetition, asked, picked, phase>>

EndOfRun ==
  /\ phase = "run"
  /\ repetition' = repetition + 1
  /\ phase' = IF repetition' = Repetitions THEN "end" ELSE "idle"
  /\ UNCHANGED <<strategy, custom, benchmark_weights, runtimes, target_ratios,
                 first_run, asked, picked>>

Next ==
  \/ SetWeights \/ _PreRun \/ EndOfRun
  \/ \E count \in Counts : _SelectNextBenchmarks(count)
  \/ \E b \in B, d \in Durations : Result(b, d)

Spec == Init /\ [][Next]_vars

-----------------------------------------------------------------------------
\* The variables are of their types: a selection has at most as many
\* different benchmarks as were asked for.
TypeOK ==
  /\ strategy \in Strategies
  /\ first_run \in BOOLEAN
  /\ repetition \in 0..Repetitions
  /\ picked \subseteq B /\ (Cardinality(picked) <= asked \/ picked = {})
  /\ phase \in {"weights", "idle", "run", "raised", "end"}

\* parallel_bench_lib.py:218-297: whatever was measured, the probabilities are
\* such that the expected runtimes (probability times runtime) are in the
\* ratio of the weights.
RuntimesMeetTargets ==
  phase = "run" /\ Accepted(_ComputeBenchmarkWeights) =>
    LET p == _ComputeBenchmarkWeights
    IN  \A a, b \in B :
          Equal(Scaled(Scaled(p[a], _AdjustRuntime[a]), target_ratios[b]),
                Scaled(Scaled(p[b], _AdjustRuntime[b]), target_ratios[a]))

\* parallel_bench_lib.py:256-281: a benchmark that has never run is expected
\* to take as long as a run that was measured, not one second, so that it is
\* not run more often than all others.
UnmeasuredNotShorter ==
  phase = "run" /\ (\E a \in B : Measured(a) # << >>) =>
    \A b \in B : \E a \in B : /\ Measured(a) # << >>
                              /\ LET r == _AdjustRuntime[b] m == Mean(Measured(a))
                                 IN  r[1] * m[2] >= m[1] * r[2]

\* weights.py:83-109, SchedulingStrategy.WORKLOAD_WEIGHTED: every workload has
\* the total weight 1, custom weights or not.
WorkloadsEqual ==
  strategy = "WORKLOAD_WEIGHTED" /\ phase \in {"idle", "run", "end"} =>
    \A b \in B : Equal(Total(benchmark_weights, Siblings(b)), <<1, 1>>)

\* SetWeights and a selection raise only for a weight of zero: a custom one, or
\* one of the first benchmark, to which the probabilities are relative.  Without
\* one no sum and no divisor is zero, however many benchmarks a workload has and
\* whatever was measured.
RaisesOnlyForZero ==
  phase = "raised" =>
    \/ \E k \in DOMAIN custom : custom[k] = 0
    \/ strategy = "DCTAX_WEIGHTED" /\ DCTax[1] = 0
=============================================================================

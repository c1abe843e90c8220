--------------------------- MODULE ReporterProofs ---------------------------
(***************************************************************************)
(* Proofs about Reporter, for any benchmarks, measured times, repetitions  *)
(* and number of runs: the types, and what the reports of the trials and   *)
(* the final report say about the runs.  Mean and MeanOfMeans are never    *)
(* expanded: what is proved is that they are taken of the right runs.      *)
(***************************************************************************)
EXTENDS Reporter, TLAPS

-----------------------------------------------------------------------------
(***************************************************************************)
(* The inductive invariant                                                 *)
(***************************************************************************)
\* data_list is a sequence, of whatever data frames.
IsSequence(s) == s \in Seq({s[k] : k \in DOMAIN s})

\* A trial that is over has a context and a data frame, in this order.
ListsInv ==
  /\ IsSequence(data_list)
  /\ phase \in {"loop", "perf", "report", "context"} =>
       trial >= 1 /\ Len(context_list) = trial - 1 /\ Len(data_list) = trial - 1
  /\ phase = "save" => trial >= 1 /\ Len(context_list) = trial /\ Len(data_list) = trial - 1
  /\ phase \in {"remove", "next", "end"} => Len(context_list) = trial /\ Len(data_list) = trial
  /\ phase = "remove" => trial >= 1

\* The runs of the history, and the files of the trial.
RunsInv ==
  /\ \A t \in Trials : t > trial => done[t] = {}
  /\ \A t \in Trials : \A r \in done[t] : Parses(r)
  /\ \A f \in files : f.date < clock
  /\ phase \in {"loop", "perf", "report", "context"} =>
       /\ {f \in files : Parses(f)} = done[trial]
       /\ \A f \in files : ~Parses(f) => failed[trial] > 0

\* Rows of runs, among which are the runs that ended well.
HoldRuns(rows, runs, failures) ==
  /\ DOMAIN rows \subseteq Benchmarks
  /\ \A b \in DOMAIN rows : rows[b] # {} /\ Numbers(rows[b]) = RunsOf(b, runs)
  /\ \A b \in Benchmarks \ DOMAIN rows : RunsOf(b, runs) = {}
  /\ \A b \in DOMAIN rows : \A r \in rows[b] : r.time = NaN => failures > 0

\* Rows that say of each benchmark what its runs in a trial were.
Summarize(rows, runs, flag) ==
  /\ DOMAIN rows = {r.benchmark : r \in runs}
  /\ \A b \in DOMAIN rows :
       /\ rows[b].Count = <<Cardinality(RunsOf(b, runs)), 1>>
       /\ rows[b].real_time = Mean(RunsOf(b, runs))
       /\ rows[b].real_time_std = "NaN" => Cardinality(RunsOf(b, runs)) = 1
       /\ flag = "on" => rows[b].counter = Mean(RunsOf(b, runs))

\* The counters of the runs of a trial.
CountersOf(runs) == [b \in {r.benchmark : r \in runs} |-> Mean(RunsOf(b, runs))]

\* What the loop has collected of a benchmark.
HoldsRuntimes(b, list, runs, failures) ==
  LET collected == {list[k] : k \in 2..Len(list)}
  IN  /\ Len(list) >= 1
      /\ Numbers(collected) = RunsOf(b, runs)
      /\ \A r \in collected : r.time = NaN => failures > 0

\* The data frames of the trial, from the runtimes to the report.
FramesInv ==
  /\ phase = "loop" =>
       \A b \in Benchmarks : HoldsRuntimes(b, runtimes[b], done[trial], failed[trial])
  /\ phase \in {"perf", "report"} => HoldRuns(df, done[trial], failed[trial])
  /\ phase = "report" /\ counters = "on" => perf_counter_df = CountersOf(done[trial])
  /\ phase \in {"context", "save"} => Summarize(df, done[trial], counters)

\* What is written and kept of each trial.
ReportsInv ==
  /\ DOMAIN results = Trials
  /\ \A t \in Trials : IsReport(results[t]) =>
       /\ t <= Len(context_list) /\ results[t].date = context_list[t]
       /\ Summarize(results[t].benchmarks, done[t], counters)
  /\ \A k \in 1..Len(data_list) : Summarize(data_list[k], done[k], counters)

\* The first context has the earliest date of all runs, of later trials too.
DatesInv ==
  Len(context_list) > 0 =>
    /\ context_list[1] < clock
    /\ \A t \in Trials : \A r \in done[t] : context_list[1] <= r.date

\* There is a final report at the end only.
FinalInv ==
  /\ phase # "end" => ~IsReport(final)
  /\ FinalOfAllTrials

IInv ==
  /\ TypeOK /\ ListsInv /\ RunsInv /\ FramesInv /\ ReportsInv /\ DatesInv /\ FinalInv
  /\ RaisesOnlyIf

-----------------------------------------------------------------------------
(***************************************************************************)
(* Sequences                                                               *)
(***************************************************************************)
LEMMA AppendElements ==
  ASSUME NEW S, NEW s \in Seq(S), NEW e
  PROVE  /\ Append(s, e) \in Seq(S \union {e})
         /\ Len(Append(s, e)) = Len(s) + 1
         /\ \A k \in 1..Len(s) : Append(s, e)[k] = s[k]
         /\ Append(s, e)[Len(s) + 1] = e
<1>1. s \in Seq(S \union {e})
  <2>1. s \in [1..Len(s) -> S] /\ Len(s) \in Nat
    OBVIOUS
  <2>2. s \in [1..Len(s) -> S \union {e}]
    BY <2>1
  <2> QED
    BY <2>1, <2>2
<1> QED
  BY <1>1

LEMMA AppendIsSequence ==
  ASSUME NEW s, IsSequence(s), NEW e
  PROVE  /\ IsSequence(Append(s, e))
         /\ Len(Append(s, e)) = Len(s) + 1
         /\ \A k \in 1..Len(s) : Append(s, e)[k] = s[k]
         /\ Append(s, e)[Len(s) + 1] = e
<1> DEFINE S == {s[k] : k \in DOMAIN s}
           a == Append(s, e)
<1>1. s \in Seq(S)
  BY DEF IsSequence
<1> HIDE DEF S
<1>2. /\ a \in Seq(S \union {e}) /\ Len(a) = Len(s) + 1
      /\ \A k \in 1..Len(s) : a[k] = s[k]
      /\ a[Len(s) + 1] = e
  BY <1>1, AppendElements
<1> HIDE DEF a
<1>3. DOMAIN a = 1..Len(a) /\ Len(a) \in Nat /\ a \in [1..Len(a) -> S \union {e}]
  BY <1>2
<1>4. a \in [1..Len(a) -> {a[k] : k \in DOMAIN a}]
  BY <1>3
<1>5. a \in Seq({a[k] : k \in DOMAIN a})
  BY <1>3, <1>4
<1> QED
  BY <1>2, <1>5 DEF IsSequence, a

\* A result is added to what the loop has collected.
LEMMA AppendCollects ==
  ASSUME NEW S, NEW s \in Seq(S), Len(s) >= 1, NEW e
  PROVE  {Append(s, e)[k] : k \in 2..Len(Append(s, e))} = {s[k] : k \in 2..Len(s)} \union {e}
<1> DEFINE a == Append(s, e)
<1>1. /\ Len(a) = Len(s) + 1 /\ Len(s) \in Nat
      /\ \A k \in 1..Len(s) : a[k] = s[k]
      /\ a[Len(s) + 1] = e
  BY AppendElements
<1> HIDE DEF a
<1>2. 2..Len(a) = 2..Len(s) \union {Len(s) + 1}
  BY <1>1
<1>3. \A k \in 2..Len(s) : a[k] = s[k]
  BY <1>1
<1>4. {a[k] : k \in 2..Len(a)} = {s[k] : k \in 2..Len(s)} \union {e}
  BY <1>1, <1>2, <1>3
<1> QED
  BY <1>4 DEF a

-----------------------------------------------------------------------------
(***************************************************************************)
(* The invariant holds at the start and after every step                   *)
(***************************************************************************)
LEMMA Initially == Init => IInv
<1> SUFFICES ASSUME Init PROVE IInv
  OBVIOUS
<1> USE DEF Init
<1>1. repetitions \in Nat \ {0}
  BY ReporterAssumption
<1>2. context_list \in Seq(Nat) /\ Len(context_list) = 0 /\ Len(data_list) = 0
  BY DEF Init
<1>3. IsSequence(data_list)
  BY DEF IsSequence
<1>4. runtimes \in [Benchmarks -> Seq(Runs)]
  BY DEF Runs
<1>5. ~IsReport(NoReport)
  BY DEF IsReport, NoReport
<1>6. TypeOK
  BY <1>1, <1>2, <1>4 DEF TypeOK, Trials
<1>7. ListsInv
  BY <1>2, <1>3 DEF ListsInv
<1>8. RunsInv
  BY DEF RunsInv, Trials
<1>9. FramesInv
  BY DEF FramesInv
<1>10. ReportsInv
  BY <1>2, <1>5 DEF ReportsInv, Trials
<1>11. DatesInv /\ FinalInv /\ RaisesOnlyIf
  BY <1>2, <1>5 DEF DatesInv, FinalInv, FinalOfAllTrials, FinalIsAverage, DateIsEarliest, RaisesOnlyIf
<1> QED
  BY <1>6, <1>7, <1>8, <1>9, <1>10, <1>11 DEF IInv

\* The numbers that the invariant is about.
LEMMA Numerals ==
  ASSUME TypeOK
  PROVE  /\ repetitions \in Nat \ {0} /\ trial \in Nat /\ trial <= repetitions /\ clock \in Nat
         /\ context_list \in Seq(Nat) /\ Len(context_list) \in Nat
BY ReporterAssumption DEF TypeOK

LEMMA Lengths ==
  ASSUME ListsInv
  PROVE  Len(data_list) \in Nat /\ DOMAIN data_list = 1..Len(data_list)
BY DEF ListsInv, IsSequence

LEMMA NotFinal ==
  ASSUME FinalInv, phase # "end", phase' # "end", final' = final
  PROVE  FinalInv'
BY DEF FinalInv, FinalOfAllTrials, FinalIsAverage, DateIsEarliest, IsReport

LEMMA SameReports ==
  ASSUME ReportsInv, DatesInv, UNCHANGED <<flags, history, reports>>
  PROVE  ReportsInv' /\ DatesInv'
<1>1. /\ UNCHANGED <<repetitions, counters, clock, done, results, context_list, data_list>>
      /\ Trials' = Trials
  BY DEF flags, history, reports, Trials
<1> QED
  BY <1>1 DEF ReportsInv, DatesInv, IsReport

\* A step of the post-processing that adds nothing to the lists.
LEMMA SameLists ==
  ASSUME TypeOK, UNCHANGED <<flags, history, trial, runtimes, context_list, data_list>>,
         files' \subseteq files, phase' \in {"next", "perf", "report", "context", "end", "raised"}
  PROVE  TypeOK'
BY DEF TypeOK, flags, history, Trials

LEMMA StartTrialKeeps ==
  ASSUME IInv, StartTrial
  PROVE  IInv'
<1> USE DEF StartTrial
<1>1. TypeOK /\ ListsInv /\ RunsInv /\ FramesInv /\ ReportsInv /\ DatesInv /\ FinalInv
  BY DEF IInv
<1>2. /\ repetitions \in Nat \ {0} /\ trial \in Nat /\ trial' = trial + 1 /\ trial' <= repetitions
      /\ trial' \in Trials /\ Trials' = Trials
  BY <1>1, Numerals DEF flags, Trials
<1>3. /\ UNCHANGED <<repetitions, counters, keep_raw_data, clock, done, failed>>
      /\ UNCHANGED <<results, context_list, data_list, final>>
  BY DEF flags, history, reports
<1>4. /\ Len(context_list) = trial /\ Len(data_list) = trial /\ done[trial'] = {}
      /\ \A t \in Trials : t > trial => done[t] = {}
  BY <1>1, <1>2 DEF ListsInv, RunsInv
<1>5. TypeOK'
  <2>1. \A b \in Benchmarks : <<Fake(b)>> \in Seq(Runs)
    BY DEF Fake, Runs
  <2> QED
    BY <1>1, <1>2, <1>3, <1>4, <2>1 DEF TypeOK
<1>6. ListsInv'
  BY <1>1, <1>2, <1>3, <1>4 DEF ListsInv
<1>7. RunsInv'
  BY <1>1, <1>2, <1>3, <1>4 DEF RunsInv, Parses
<1>8. FramesInv'
  <2>1. \A b \in Benchmarks : HoldsRuntimes(b, <<Fake(b)>>, {}, failed[trial'])
    BY DEF HoldsRuntimes, Numbers, RunsOf
  <2> QED
    BY <1>3, <1>4, <2>1 DEF FramesInv
<1>9. ReportsInv' /\ DatesInv'
  BY <1>1, SameReports
<1>10. FinalInv' /\ RaisesOnlyIf'
  BY <1>1, <1>3, NotFinal DEF RaisesOnlyIf
<1> QED
  BY <1>5, <1>6, <1>7, <1>8, <1>9, <1>10 DEF IInv

\* A step of the loop changes neither the lists nor earlier trials.
LEMMA LoopKeepsReports ==
  ASSUME TypeOK, ListsInv, ReportsInv, phase = "loop",
         UNCHANGED <<flags, reports>>,
         \A t \in Trials \ {trial} : done'[t] = done[t]
  PROVE  ReportsInv'
<1>1. /\ UNCHANGED <<repetitions, counters, results, context_list, data_list>>
      /\ Trials' = Trials
  BY DEF flags, reports, Trials
<1>2. /\ trial \in Nat /\ Len(context_list) = trial - 1 /\ Len(data_list) = trial - 1
      /\ repetitions \in Nat /\ trial <= repetitions
  BY Numerals DEF ListsInv
<1>3. \A k \in 1..Len(data_list) : k \in Trials \ {trial}
  BY <1>2 DEF Trials
<1>4. \A t \in Trials : t <= Len(context_list) => t \in Trials \ {trial}
  BY <1>2 DEF Trials
<1> QED
  BY <1>1, <1>3, <1>4 DEF ReportsInv, IsReport

LEMMA OtherBenchmark ==
  ASSUME NEW b, NEW list, NEW runs, NEW more, NEW failures,
         HoldsRuntimes(b, list, runs, failures), RunsOf(b, more) = RunsOf(b, runs)
  PROVE  HoldsRuntimes(b, list, more, failures)
BY DEF HoldsRuntimes

LEMMA RunSucceedsKeeps ==
  ASSUME IInv, RunSucceeds
  PROVE  IInv'
<1> USE DEF RunSucceeds, RunsLeft
<1>1. TypeOK /\ ListsInv /\ RunsInv /\ FramesInv /\ ReportsInv /\ DatesInv /\ FinalInv
  BY DEF IInv
<1>2. /\ UNCHANGED <<repetitions, counters, keep_raw_data, trial, phase, failed>>
      /\ UNCHANGED <<results, context_list, data_list, final>> /\ Trials' = Trials
  BY DEF flags, reports, Trials
<1>3. /\ trial \in Trials /\ clock \in Nat /\ clock' = clock + 1 /\ phase = "loop"
      /\ done \in [Trials -> SUBSET Runs] /\ runtimes \in [Benchmarks -> Seq(Runs)]
      /\ files \subseteq Runs
  BY <1>1, Numerals DEF ListsInv, Trials, TypeOK
<1>4. PICK b \in Benchmarks, time \in Times :
        LET r == [benchmark |-> b, time |-> time, date |-> clock]
        IN  /\ files' = files \union {r}
            /\ runtimes' = [runtimes EXCEPT ![b] = Append(@, r)]
            /\ done' = [done EXCEPT ![trial] = @ \union {r}]
  OBVIOUS
<1> DEFINE r == [benchmark |-> b, time |-> time, date |-> clock]
<1>5. r \in Runs /\ Parses(r) /\ r.time # NaN /\ r.date = clock /\ r.benchmark = b
  BY <1>3, ReporterAssumption DEF Runs, Parses
<1>6. /\ files' = files \union {r} /\ runtimes' = [runtimes EXCEPT ![b] = Append(@, r)]
      /\ done' = [done EXCEPT ![trial] = @ \union {r}]
  BY <1>4
<1> HIDE DEF r
<1>7. /\ done'[trial] = done[trial] \union {r}
      /\ \A t \in Trials \ {trial} : done'[t] = done[t]
  BY <1>3, <1>6
<1>8. TypeOK'
  <2>1. done' \in [Trials -> SUBSET Runs]
    BY <1>3, <1>5, <1>6
  <2>2. runtimes' \in [Benchmarks -> Seq(Runs)]
    <3>1. Append(runtimes[b], r) \in Seq(Runs)
      BY <1>3, <1>5
    <3> QED
      BY <1>3, <1>6, <3>1
  <2> QED
    BY <1>1, <1>2, <1>3, <1>5, <1>6, <2>1, <2>2 DEF TypeOK
<1>9. ListsInv'
  BY <1>1, <1>2 DEF ListsInv
<1>10. RunsInv'
  <2>1. \A t \in Trials : t > trial => done'[t] = {}
    BY <1>1, <1>3, <1>7, Numerals DEF RunsInv
  <2>2. \A t \in Trials : \A x \in done'[t] : Parses(x)
    BY <1>1, <1>5, <1>7 DEF RunsInv
  <2>3. \A f \in files' : f.date < clock'
    BY <1>1, <1>3, <1>5, <1>6 DEF RunsInv, Runs
  <2>4. {f \in files' : Parses(f)} = done'[trial]
    BY <1>1, <1>3, <1>5, <1>6, <1>7 DEF RunsInv
  <2>5. \A f \in files' : ~Parses(f) => failed'[trial] > 0
    BY <1>1, <1>2, <1>3, <1>5, <1>6 DEF RunsInv
  <2> QED
    BY <1>2, <2>1, <2>2, <2>3, <2>4, <2>5 DEF RunsInv, Parses
<1>11. FramesInv'
  <2> SUFFICES ASSUME NEW c \in Benchmarks
               PROVE  HoldsRuntimes(c, runtimes'[c], done'[trial], failed[trial])
    BY <1>2, <1>3 DEF FramesInv
  <2>1. HoldsRuntimes(c, runtimes[c], done[trial], failed[trial])
    BY <1>1, <1>3 DEF FramesInv
  <2>2. CASE c # b
    <3>1. runtimes'[c] = runtimes[c] /\ RunsOf(c, done'[trial]) = RunsOf(c, done[trial])
      BY <1>3, <1>5, <1>6, <1>7, <2>2 DEF RunsOf
    <3> QED
      BY <2>1, <3>1, OtherBenchmark
  <2>3. CASE c = b
    <3> DEFINE old == {runtimes[c][k] : k \in 2..Len(runtimes[c])}
               new == {runtimes'[c][k] : k \in 2..Len(runtimes'[c])}
    <3>1. /\ runtimes'[c] = Append(runtimes[c], r) /\ runtimes[c] \in Seq(Runs)
          /\ Len(runtimes[c]) >= 1
          /\ Numbers(old) = RunsOf(c, done[trial])
          /\ \A x \in old : x.time = NaN => failed[trial] > 0
      BY <1>3, <1>6, <2>1, <2>3 DEF HoldsRuntimes
    <3>2. new = old \union {r}
      BY <3>1, AppendCollects
    <3>3. Len(runtimes'[c]) >= 1
      BY <3>1, AppendElements
    <3> HIDE DEF old, new
    <3>4. Numbers(new) = RunsOf(c, done'[trial])
      BY <1>5, <1>7, <2>3, <3>1, <3>2 DEF Numbers, RunsOf
    <3>5. \A x \in new : x.time = NaN => failed[trial] > 0
      BY <1>5, <3>1, <3>2
    <3> QED
      BY <3>3, <3>4, <3>5 DEF HoldsRuntimes, new
  <2> QED
    BY <2>2, <2>3
<1>12. ReportsInv'
  BY <1>1, <1>3, <1>7, LoopKeepsReports
<1>13. DatesInv'
  <2> SUFFICES ASSUME Len(context_list) > 0
               PROVE  /\ context_list[1] < clock'
                      /\ \A t \in Trials : \A x \in done'[t] : context_list[1] <= x.date
    BY <1>2 DEF DatesInv
  <2>1. context_list[1] \in Nat /\ context_list[1] < clock
    BY <1>1, Numerals DEF DatesInv
  <2> QED
    BY <1>1, <1>3, <1>5, <1>7, <2>1 DEF DatesInv
<1>14. FinalInv' /\ RaisesOnlyIf'
  BY <1>1, <1>2, <1>3, NotFinal DEF RaisesOnlyIf
<1> QED
  BY <1>8, <1>9, <1>10, <1>11, <1>12, <1>13, <1>14 DEF IInv

LEMMA RunFailsKeeps ==
  ASSUME IInv, RunFails
  PROVE  IInv'
<1> USE DEF RunFails, RunsLeft
<1>1. TypeOK /\ ListsInv /\ RunsInv /\ FramesInv /\ ReportsInv /\ DatesInv /\ FinalInv
  BY DEF IInv
<1>2. /\ UNCHANGED <<repetitions, counters, keep_raw_data, trial, phase, done>>
      /\ UNCHANGED <<results, context_list, data_list, final>> /\ Trials' = Trials
  BY DEF flags, reports, Trials
<1>3. /\ trial \in Trials /\ clock \in Nat /\ clock' = clock + 1 /\ phase = "loop"
      /\ failed \in [Trials -> Nat] /\ runtimes \in [Benchmarks -> Seq(Runs)]
      /\ files \subseteq Runs
  BY <1>1, Numerals DEF ListsInv, Trials, TypeOK
<1>4. PICK b \in Benchmarks :
        /\ \E left \in FileOfFailed :
             files' = IF left = "none" THEN files ELSE files \union {PartialFile(b)}
        /\ \/ UNCHANGED runtimes
           \/ runtimes' = [runtimes EXCEPT ![b] =
                Append(@, [benchmark |-> b, time |-> NaN, date |-> clock])]
  OBVIOUS
<1> DEFINE r == [benchmark |-> b, time |-> NaN, date |-> clock]
<1>5. r \in Runs /\ ~Parses(r) /\ r.time = NaN /\ r.date = clock
  BY <1>3 DEF Runs, Parses
<1>6. files' \subseteq files \union {r} /\ files \subseteq files'
  BY <1>4 DEF PartialFile
<1>7. UNCHANGED runtimes \/ runtimes' = [runtimes EXCEPT ![b] = Append(@, r)]
  BY <1>4
<1> HIDE DEF r
<1>8. failed' \in [Trials -> Nat] /\ failed'[trial] > 0
  BY <1>3
<1>9. TypeOK'
  <2>1. runtimes' \in [Benchmarks -> Seq(Runs)]
    <3>1. Append(runtimes[b], r) \in Seq(Runs)
      BY <1>3, <1>5
    <3> QED
      BY <1>3, <1>7, <3>1
  <2> QED
    BY <1>1, <1>2, <1>3, <1>5, <1>6, <1>8, <2>1 DEF TypeOK
<1>10. ListsInv'
  BY <1>1, <1>2 DEF ListsInv
<1>11. RunsInv'
  <2>1. \A f \in files' : f.date < clock'
    BY <1>1, <1>3, <1>5, <1>6 DEF RunsInv, Runs
  <2>2. {f \in files' : Parses(f)} = done[trial]
    BY <1>1, <1>3, <1>5, <1>6 DEF RunsInv
  <2> QED
    BY <1>1, <1>2, <1>8, <2>1, <2>2 DEF RunsInv, Parses
<1>12. FramesInv'
  <2> SUFFICES ASSUME NEW c \in Benchmarks
               PROVE  HoldsRuntimes(c, runtimes'[c], done[trial], failed'[trial])
    BY <1>2, <1>3 DEF FramesInv
  <2>1. HoldsRuntimes(c, runtimes[c], done[trial], failed[trial])
    BY <1>1, <1>3 DEF FramesInv
  <2>2. CASE runtimes'[c] = runtimes[c]
    <3>1. HoldsRuntimes(c, runtimes[c], done[trial], failed'[trial])
      BY <1>8, <2>1 DEF HoldsRuntimes
    <3> QED
      BY <2>2, <3>1
  <2>3. CASE runtimes'[c] = Append(runtimes[c], r)
    <3> DEFINE old == {runtimes[c][k] : k \in 2..Len(runtimes[c])}
               new == {runtimes'[c][k] : k \in 2..Len(runtimes'[c])}
    <3>1. /\ runtimes[c] \in Seq(Runs) /\ Len(runtimes[c]) >= 1
          /\ Numbers(old) = RunsOf(c, done[trial])
      BY <1>3, <2>1 DEF HoldsRuntimes
    <3>2. new = old \union {r}
      BY <2>3, <3>1, AppendCollects
    <3>3. Len(runtimes'[c]) >= 1
      BY <2>3, <3>1, AppendElements
    <3> HIDE DEF old, new
    <3>4. Numbers(new) = RunsOf(c, done[trial])
      BY <1>5, <3>1, <3>2 DEF Numbers
    <3> QED
      BY <1>8, <3>3, <3>4 DEF HoldsRuntimes, new
  <2> QED
    BY <1>3, <1>7, <2>2, <2>3
<1>13. ReportsInv'
  BY <1>1, <1>2, <1>3, LoopKeepsReports
<1>14. DatesInv'
  <2>1. Len(context_list) > 0 => context_list[1] \in Nat
    BY <1>1, Numerals
  <2> QED
    BY <1>1, <1>2, <1>3, <2>1 DEF DatesInv
<1>15. FinalInv' /\ RaisesOnlyIf'
  BY <1>1, <1>2, <1>3, NotFinal DEF RaisesOnlyIf
<1> QED
  BY <1>9, <1>10, <1>11, <1>12, <1>13, <1>14, <1>15 DEF IInv

\* A step of the post-processing before the context.
LEMMA FramesOnly ==
  ASSUME IInv, phase \in {"loop", "perf", "report"},
         phase' \in {"perf", "report", "context", "raised"},
         UNCHANGED <<flags, history, trial, runtimes, reports, files>>
  PROVE  TypeOK' /\ ListsInv' /\ RunsInv' /\ ReportsInv' /\ DatesInv' /\ FinalInv'
<1>1. TypeOK /\ ListsInv /\ RunsInv /\ ReportsInv /\ DatesInv /\ FinalInv
  BY DEF IInv
<1>2. /\ UNCHANGED <<repetitions, clock, done, failed>>
      /\ UNCHANGED <<context_list, data_list, final>> /\ Trials' = Trials
  BY DEF flags, history, reports, Trials
<1>3. TypeOK'
  BY <1>1, <1>2, SameLists
<1>4. ListsInv'
  BY <1>1, <1>2 DEF ListsInv
<1>5. RunsInv'
  BY <1>1, <1>2 DEF RunsInv, Parses
<1>6. ReportsInv' /\ DatesInv'
  BY <1>1, SameReports
<1>7. FinalInv'
  BY <1>1, <1>2, NotFinal
<1> QED
  BY <1>3, <1>4, <1>5, <1>6, <1>7

\* What the trial has done, in the lines before the context.
LEMMA DoneInTrial ==
  ASSUME IInv, phase \in {"loop", "perf", "report", "context"}
  PROVE  /\ trial \in Trials /\ trial \in Nat /\ done[trial] \subseteq Runs
         /\ {f \in files : Parses(f)} = done[trial]
         /\ \A f \in files : ~Parses(f) => failed[trial] > 0
<1>1. TypeOK /\ ListsInv /\ RunsInv
  BY DEF IInv
<1>2. trial \in Trials /\ trial \in Nat
  BY <1>1, Numerals DEF ListsInv, Trials
<1> QED
  BY <1>1, <1>2 DEF RunsInv, TypeOK

LEMMA ConvertToDataFrameKeeps ==
  ASSUME IInv, ConvertToDataFrame
  PROVE  IInv'
<1> USE DEF ConvertToDataFrame, Goto
<1> DEFINE rows == {c \in Benchmarks : Collected(c) # {}}
<1>1. /\ phase = "loop" /\ df' = [b \in rows |-> Collected(b)]
      /\ phase' = IF rows = {} THEN "raised" ELSE "perf"
      /\ UNCHANGED <<flags, history, trial, runtimes, reports, files>>
  OBVIOUS
<1>2. UNCHANGED <<trial, done, failed>>
  BY DEF history
<1>3. TypeOK' /\ ListsInv' /\ RunsInv' /\ ReportsInv' /\ DatesInv' /\ FinalInv'
  BY <1>1, FramesOnly
<1>4. \A b \in Benchmarks : /\ Numbers(Collected(b)) = RunsOf(b, done[trial])
                            /\ \A r \in Collected(b) : r.time = NaN => failed[trial] > 0
  BY <1>1 DEF IInv, FramesInv, HoldsRuntimes, Collected
<1>5. \A b \in Benchmarks \ rows : RunsOf(b, done[trial]) = {}
  BY <1>4 DEF Numbers
<1>6. FramesInv'
  <2>1. HoldRuns(df', done[trial], failed[trial])
    BY <1>1, <1>4, <1>5 DEF HoldRuns
  <2> QED
    BY <1>1, <1>2, <2>1 DEF FramesInv
<1>7. RaisesOnlyIf'
  <2> SUFFICES ASSUME rows = {} PROVE done[trial] = {}
    BY <1>1, <1>2 DEF RaisesOnlyIf
  <2>1. \A r \in done[trial] : r.benchmark \in Benchmarks
    BY <1>1, DoneInTrial DEF Runs
  <2> QED
    BY <1>5, <2>1 DEF RunsOf
<1> QED
  BY <1>3, <1>6, <1>7 DEF IInv

LEMMA GeneratePerfCounterDataFrameKeeps ==
  ASSUME IInv, GeneratePerfCounterDataFrame
  PROVE  IInv'
<1> USE DEF GeneratePerfCounterDataFrame, Goto
<1>1. /\ phase = "perf" /\ phase' \in {"raised", "report"} /\ df' = df
      /\ UNCHANGED <<flags, history, trial, runtimes, reports, files>>
  OBVIOUS
<1>2. UNCHANGED <<counters, trial, done, failed>>
  BY DEF flags, history
<1>3. TypeOK' /\ ListsInv' /\ RunsInv' /\ ReportsInv' /\ DatesInv' /\ FinalInv'
  BY <1>1, FramesOnly
<1>4. {f \in files : Parses(f)} = done[trial]
  BY <1>1, DoneInTrial
<1>5. counters = "on" => perf_counter_df' = CountersOf(done[trial])
  BY <1>4 DEF CountersOf
<1>6. HoldRuns(df, done[trial], failed[trial])
  BY <1>1 DEF IInv, FramesInv
<1>7. FramesInv'
  BY <1>1, <1>2, <1>5, <1>6 DEF FramesInv
<1>8. RaisesOnlyIf'
  BY <1>2 DEF RaisesOnlyIf
<1> QED
  BY <1>3, <1>7, <1>8 DEF IInv

\* The report of a trial is about the runs that ended well.
LEMMA GenerateBenchmarkReportKeeps ==
  ASSUME IInv, GenerateBenchmarkReport
  PROVE  IInv'
<1> USE DEF GenerateBenchmarkReport, Goto
<1>1. /\ phase = "report" /\ phase' \in {"raised", "context"}
      /\ UNCHANGED <<flags, history, trial, runtimes, reports, files>>
  OBVIOUS
<1>2. UNCHANGED <<counters, trial, done, failed>>
  BY DEF flags, history
<1>3. TypeOK' /\ ListsInv' /\ RunsInv' /\ ReportsInv' /\ DatesInv' /\ FinalInv'
  BY <1>1, FramesOnly
<1>4. /\ HoldRuns(df, done[trial], failed[trial])
      /\ counters = "on" => perf_counter_df = CountersOf(done[trial])
  BY <1>1 DEF IInv, FramesInv
<1>5. \A r \in done[trial] : r.benchmark \in Benchmarks
  BY <1>1, DoneInTrial DEF Runs
<1>6. CASE \E b \in DOMAIN df : Numbers(df[b]) = {}
  <2>1. phase' = "raised"
    BY <1>6
  <2>2. failed[trial] > 0
    BY <1>4, <1>6 DEF HoldRuns, Numbers
  <2> QED
    BY <1>2, <1>3, <2>1, <2>2 DEF IInv, FramesInv, RaisesOnlyIf
<1>7. CASE \A b \in DOMAIN df : Numbers(df[b]) # {}
  <2>1. /\ phase' = "context"
        /\ df' = [b \in DOMAIN df |->
                    [Count |-> <<Count(df[b]), 1>>, real_time |-> Mean(Numbers(df[b])),
                     real_time_std |-> IF Count(df[b]) = 1 THEN "NaN" ELSE "number",
                     counter |-> IF b \in DOMAIN perf_counter_df THEN perf_counter_df[b]
                                 ELSE <<0, 1>>]]
    BY <1>7
  <2>2. \A b \in DOMAIN df : Numbers(df[b]) = RunsOf(b, done[trial])
    BY <1>4 DEF HoldRuns
  <2>3. DOMAIN df = {r.benchmark : r \in done[trial]}
    <3>1. \A b \in DOMAIN df : \E r \in done[trial] : r.benchmark = b
      BY <1>7, <2>2 DEF RunsOf
    <3>2. \A b \in Benchmarks \ DOMAIN df : RunsOf(b, done[trial]) = {}
      BY <1>4 DEF HoldRuns
    <3>3. \A r \in done[trial] : r.benchmark \in DOMAIN df
      BY <1>5, <3>2 DEF RunsOf
    <3>4. DOMAIN df \subseteq {r.benchmark : r \in done[trial]}
      BY <3>1
    <3>5. {r.benchmark : r \in done[trial]} \subseteq DOMAIN df
      BY <3>3
    <3> QED
      BY <3>4, <3>5, Zenon
  <2>4. \A b \in DOMAIN df : counters = "on" =>
          b \in DOMAIN perf_counter_df /\ perf_counter_df[b] = Mean(RunsOf(b, done[trial]))
    BY <1>4, <2>3 DEF CountersOf
  <2>5. Summarize(df', done[trial], counters)
    <3>1. DOMAIN df' = {r.benchmark : r \in done[trial]}
      BY <2>1, <2>3
    <3> SUFFICES ASSUME NEW b \in DOMAIN df
                 PROVE  /\ df'[b].Count = <<Cardinality(RunsOf(b, done[trial])), 1>>
                        /\ df'[b].real_time = Mean(RunsOf(b, done[trial]))
                        /\ df'[b].real_time_std = "NaN" => Cardinality(RunsOf(b, done[trial])) = 1
                        /\ counters = "on" => df'[b].counter = Mean(RunsOf(b, done[trial]))
      BY <2>1, <3>1 DEF Summarize
    <3> QED
      BY <2>1, <2>2, <2>4 DEF Count
  <2> QED
    BY <1>2, <1>3, <2>1, <2>5 DEF IInv, FramesInv, RaisesOnlyIf
<1> QED
  BY <1>6, <1>7

\* The context of the first trial is earlier than every run.
LEMMA AggregateContextKeeps ==
  ASSUME IInv, AggregateContext
  PROVE  IInv'
<1> USE DEF AggregateContext, Goto
<1>1. TypeOK /\ ListsInv /\ RunsInv /\ FramesInv /\ ReportsInv /\ DatesInv /\ FinalInv
  BY DEF IInv
<1>2. /\ UNCHANGED <<repetitions, counters, keep_raw_data, clock, done, failed, trial, runtimes>>
      /\ UNCHANGED <<files, df, perf_counter_df, results, data_list, final>> /\ Trials' = Trials
  BY DEF flags, history, Trials
<1>3. /\ phase = "context" /\ trial \in Nat /\ trial \in Trials
      /\ Len(context_list) = trial - 1 /\ Len(data_list) = trial - 1
      /\ context_list \in Seq(Nat) /\ clock \in Nat
      /\ {f \in files : Parses(f)} = done[trial]
      /\ \A f \in files : ~Parses(f) => failed[trial] > 0
  BY <1>1, Numerals, DoneInTrial DEF ListsInv
<1>4. CASE \E f \in files : ~Parses(f)
  <2>1. phase' = "raised" /\ context_list' = context_list /\ UNCHANGED <<flags, history, reports>>
    BY <1>2, <1>4 DEF flags, history, reports
  <2>2. TypeOK'
    BY <1>1, <1>2, <2>1, SameLists
  <2>3. ReportsInv' /\ DatesInv'
    BY <1>1, <2>1, SameReports
  <2>4. ListsInv' /\ RunsInv' /\ FramesInv'
    BY <1>1, <1>2, <2>1 DEF ListsInv, RunsInv, FramesInv, Parses
  <2>5. FinalInv'
    BY <1>1, <1>2, <1>3, <2>1, NotFinal
  <2>6. RaisesOnlyIf'
    BY <1>2, <1>3, <1>4 DEF RaisesOnlyIf
  <2> QED
    BY <2>2, <2>3, <2>4, <2>5, <2>6 DEF IInv
<1>5. CASE \A f \in files : Parses(f)
  <2>1. PICK first \in files : /\ \A f \in files : first.date <= f.date
                               /\ context_list' = Append(context_list, first.date)
    BY <1>5
  <2>2. /\ phase' = "save" /\ first.date \in Nat /\ first.date < clock
        /\ \A r \in done[trial] : first.date <= r.date
    BY <1>1, <1>3, <1>5, <2>1 DEF TypeOK, Runs, RunsInv
  <2>3. /\ context_list' \in Seq(Nat) /\ Len(context_list') = trial
        /\ \A k \in 1..(trial - 1) : context_list'[k] = context_list[k]
        /\ context_list'[trial] = first.date
    BY <1>3, <2>1, <2>2
  <2>4. TypeOK'
    BY <1>1, <1>2, <1>3, <2>2, <2>3 DEF TypeOK
  <2>5. ListsInv'
    BY <1>1, <1>2, <1>3, <2>2, <2>3 DEF ListsInv, Trials
  <2>6. RunsInv' /\ FramesInv'
    BY <1>1, <1>2, <1>3, <2>2 DEF RunsInv, FramesInv, Parses
  <2>7. ReportsInv'
    <3>1. \A t \in Trials : IsReport(results[t]) =>
            t <= Len(context_list') /\ results[t].date = context_list'[t]
      BY <1>1, <1>3, <2>3 DEF ReportsInv, Trials
    <3> QED
      BY <1>1, <1>2, <3>1 DEF ReportsInv, IsReport
  <2>8. DatesInv'
    <3>1. CASE trial = 1
      <4>1. context_list'[1] = first.date
        BY <2>3, <3>1
      <4>2. \A t \in Trials : t # trial => done[t] = {}
        BY <1>1, <1>3, <3>1 DEF RunsInv, Trials
      <4> QED
        BY <1>2, <2>2, <4>1, <4>2 DEF DatesInv
    <3>2. CASE trial # 1
      <4>1. Len(context_list) > 0 /\ context_list'[1] = context_list[1]
        BY <1>3, <2>3, <3>2 DEF Trials
      <4> QED
        BY <1>1, <1>2, <4>1 DEF DatesInv
    <3> QED
      BY <3>1, <3>2
  <2>9. FinalInv' /\ RaisesOnlyIf'
    BY <1>1, <1>2, <1>3, <2>2, NotFinal DEF RaisesOnlyIf
  <2> QED
    BY <2>4, <2>5, <2>6, <2>7, <2>8, <2>9 DEF IInv
<1> QED
  BY <1>4, <1>5

\* A report is one that was written, or none.
LEMMA SavedReport ==
  ASSUME NEW report, NEW saved \in Saved(report), IsReport(saved)
  PROVE  saved = report
BY DEF Saved, IsReport, NoReport, PartialReport

LEMMA SaveBenchmarkResultsKeeps ==
  ASSUME IInv, SaveBenchmarkResults
  PROVE  IInv'
<1> USE DEF SaveBenchmarkResults, Goto
<1>1. TypeOK /\ ListsInv /\ RunsInv /\ FramesInv /\ ReportsInv /\ DatesInv /\ FinalInv
  BY DEF IInv
<1>2. /\ UNCHANGED <<repetitions, counters, keep_raw_data, clock, done, failed, trial, runtimes>>
      /\ UNCHANGED <<files, df, perf_counter_df, context_list, final>> /\ Trials' = Trials
  BY DEF flags, history, Trials
<1>3. /\ phase = "save" /\ phase' = "remove" /\ trial \in Nat /\ trial \in Trials
      /\ Len(context_list) = trial /\ Len(data_list) = trial - 1
      /\ context_list \in Seq(Nat) /\ IsSequence(data_list)
  BY <1>1, Numerals DEF ListsInv, Trials
<1>4. /\ IsSequence(data_list') /\ Len(data_list') = trial
      /\ \A k \in 1..(trial - 1) : data_list'[k] = data_list[k]
      /\ data_list'[trial] = df
  BY <1>3, AppendIsSequence
<1>5. TypeOK'
  BY <1>1, <1>2, <1>3, <1>4 DEF TypeOK
<1>6. ListsInv'
  BY <1>1, <1>2, <1>3, <1>4 DEF ListsInv, Trials
<1>7. RunsInv' /\ FramesInv'
  BY <1>1, <1>2, <1>3 DEF RunsInv, FramesInv, Parses
<1>8. Summarize(df, done[trial], counters)
  BY <1>1, <1>3 DEF FramesInv
<1>9. ReportsInv'
  <2> DEFINE report == [date |-> Last(context_list), benchmarks |-> df]
  <2>1. PICK saved \in Saved(report) : results' = [results EXCEPT ![trial] = saved]
    OBVIOUS
  <2>2. Last(context_list) = context_list[trial]
    BY <1>3 DEF Last
  <2>3. IsReport(saved) => saved.date = context_list[trial] /\ saved.benchmarks = df
    BY <2>2, SavedReport
  <2> HIDE DEF report
  <2>4. /\ DOMAIN results' = Trials /\ results'[trial] = saved
        /\ \A t \in Trials \ {trial} : results'[t] = results[t]
    BY <1>1, <1>3, <2>1 DEF ReportsInv
  <2>5. \A t \in Trials : IsReport(results'[t]) =>
          /\ t <= Len(context_list) /\ results'[t].date = context_list[t]
          /\ Summarize(results'[t].benchmarks, done[t], counters)
    BY <1>1, <1>3, <1>8, <2>3, <2>4 DEF ReportsInv
  <2>6. \A k \in 1..Len(data_list') : Summarize(data_list'[k], done[k], counters)
    BY <1>1, <1>3, <1>4, <1>8 DEF ReportsInv
  <2> QED
    BY <1>2, <2>4, <2>5, <2>6 DEF ReportsInv, IsReport
<1>10. DatesInv'
  BY <1>1, <1>2 DEF DatesInv
<1>11. FinalInv' /\ RaisesOnlyIf'
  BY <1>1, <1>2, <1>3, NotFinal DEF RaisesOnlyIf
<1> QED
  BY <1>5, <1>6, <1>7, <1>9, <1>10, <1>11 DEF IInv

LEMMA RemoveRawDataKeeps ==
  ASSUME IInv, RemoveRawData
  PROVE  IInv'
<1> USE DEF RemoveRawData, Goto
<1>1. TypeOK /\ ListsInv /\ RunsInv /\ FramesInv /\ ReportsInv /\ DatesInv /\ FinalInv
  BY DEF IInv
<1>2. /\ UNCHANGED <<repetitions, clock, done, failed, trial, runtimes>>
      /\ UNCHANGED <<context_list, data_list, final>> /\ Trials' = Trials
      /\ phase = "remove" /\ phase' = "next" /\ files' \subseteq files
  BY DEF flags, history, reports, Trials
<1>3. TypeOK'
  BY <1>1, <1>2, SameLists
<1>4. ListsInv'
  BY <1>1, <1>2 DEF ListsInv
<1>5. RunsInv' /\ FramesInv'
  BY <1>1, <1>2 DEF RunsInv, FramesInv, Parses
<1>6. ReportsInv' /\ DatesInv'
  BY <1>1, SameReports
<1>7. FinalInv' /\ RaisesOnlyIf'
  BY <1>1, <1>2, NotFinal DEF RaisesOnlyIf
<1> QED
  BY <1>3, <1>4, <1>5, <1>6, <1>7 DEF IInv

\* The last step keeps everything but the final report.
LEMMA LastStep ==
  ASSUME IInv, AllDone, phase' \in {"end", "raised"},
         UNCHANGED <<flags, history, trial, runtimes>>,
         UNCHANGED <<files, df, perf_counter_df, results, context_list, data_list>>
  PROVE  TypeOK' /\ ListsInv' /\ RunsInv' /\ FramesInv' /\ ReportsInv' /\ DatesInv'
<1>1. TypeOK /\ ListsInv /\ RunsInv /\ ReportsInv /\ DatesInv
  BY DEF IInv
<1>2. /\ UNCHANGED <<repetitions, counters, clock, done, failed>>
      /\ Trials' = Trials /\ phase = "next"
  BY DEF flags, history, Trials, AllDone
<1>3. TypeOK'
  BY <1>1, SameLists
<1>4. ListsInv'
  BY <1>1, <1>2 DEF ListsInv
<1>5. RunsInv' /\ FramesInv'
  BY <1>1, <1>2 DEF RunsInv, FramesInv, Parses
<1>6. ReportsInv' /\ DatesInv'
  BY <1>1, <1>2 DEF ReportsInv, DatesInv, IsReport
<1> QED
  BY <1>3, <1>4, <1>5, <1>6

LEMMA CopyReportKeeps ==
  ASSUME IInv, CopyReport
  PROVE  IInv'
<1> USE DEF CopyReport, Goto
<1>1. /\ AllDone /\ repetitions = 1 /\ final' = results[1] /\ phase' \in {"end", "raised"}
      /\ phase' = IF results[1] = PartialReport THEN "raised" ELSE "end"
      /\ UNCHANGED <<flags, history, trial, runtimes>>
      /\ UNCHANGED <<files, df, perf_counter_df, results, context_list, data_list>>
  OBVIOUS
<1>2. TypeOK' /\ ListsInv' /\ RunsInv' /\ FramesInv' /\ ReportsInv' /\ DatesInv'
  BY <1>1, LastStep
<1>3. repetitions' = 1 /\ Trials' = Trials /\ 1 \in Trials /\ done' = done
  BY <1>1 DEF flags, history, Trials
<1>4. phase' = "raised" => ~IsReport(results[1])
  BY <1>1 DEF IsReport, PartialReport
<1>5. IsReport(results[1]) => \A t \in Trials : \A r \in done[t] : results[1].date <= r.date
  <2> SUFFICES ASSUME IsReport(results[1])
               PROVE  \A t \in Trials : \A r \in done[t] : results[1].date <= r.date
    OBVIOUS
  <2>1. 1 <= Len(context_list) /\ results[1].date = context_list[1] /\ Len(context_list) \in Nat
    BY <1>3, Numerals DEF IInv, ReportsInv
  <2> QED
    BY <2>1 DEF IInv, DatesInv
<1>6. FinalInv'
  BY <1>1, <1>3, <1>4, <1>5
     DEF FinalInv, FinalOfAllTrials, FinalIsAverage, DateIsEarliest, IsReport
<1>7. RaisesOnlyIf'
  BY <1>1, <1>3 DEF RaisesOnlyIf
<1> QED
  BY <1>2, <1>6, <1>7 DEF IInv

LEMMA AggregateTrialsKeeps ==
  ASSUME IInv, AggregateTrials
  PROVE  IInv'
<1> USE DEF AggregateTrials, Goto
<1>1. /\ AllDone /\ repetitions > 1 /\ phase' \in {"end", "raised"}
      /\ UNCHANGED <<flags, history, trial, runtimes>>
      /\ UNCHANGED <<files, df, perf_counter_df, results, context_list, data_list>>
  OBVIOUS
<1>2. TypeOK' /\ ListsInv' /\ RunsInv' /\ FramesInv' /\ ReportsInv' /\ DatesInv'
  BY <1>1, LastStep
<1>3. /\ repetitions' = repetitions /\ Trials' = Trials /\ done' = done
      /\ repetitions \in Nat /\ context_list \in Seq(Nat)
      /\ Len(context_list) = repetitions /\ DOMAIN data_list = Trials
      /\ 1..Len(data_list) = Trials
  BY <1>1, Numerals, Lengths DEF flags, history, Trials, AllDone, IInv, ListsInv
<1>4. \A k \in Trials : Summarize(data_list[k], done[k], counters)
  BY <1>3 DEF IInv, ReportsInv
<1>5. \A k \in Trials : \A r \in done[k] : r.benchmark \in Benchmarks
  BY DEF IInv, TypeOK, Runs
<1>6. CASE \E k \in DOMAIN data_list : \E b \in DOMAIN data_list[k] :
             data_list[k][b].real_time_std = "NaN"
  <2>1. phase' = "raised" /\ final' = final
    BY <1>6
  <2>2. FinalInv'
    BY <1>1, <2>1, NotFinal DEF IInv, AllDone
  <2>3. PICK k \in Trials : \E b \in DOMAIN data_list[k] : data_list[k][b].real_time_std = "NaN"
    BY <1>3, <1>6
  <2>4. PICK b \in DOMAIN data_list[k] : data_list[k][b].real_time_std = "NaN"
    BY <2>3
  <2>5. b \in Benchmarks /\ Cardinality(RunsOf(b, done[k])) = 1
    BY <1>4, <1>5, <2>4 DEF Summarize
  <2>6. RaisesOnlyIf'
    BY <1>1, <1>3, <2>5 DEF RaisesOnlyIf
  <2> QED
    BY <1>2, <2>2, <2>6 DEF IInv
<1>7. CASE \A k \in DOMAIN data_list : \A b \in DOMAIN data_list[k] :
             data_list[k][b].real_time_std # "NaN"
  <2> DEFINE report == [date |-> AggregateFinalContext, benchmarks |-> AggregateFinalData]
             ran(b) == {t \in Trials : RunsOf(b, done[t]) # {}}
  <2>1. phase' = "end" /\ final' \in Saved(report)
    BY <1>7
  <2>2. CASE ~IsReport(final')
    BY <1>2, <2>1, <2>2 DEF IInv, RaisesOnlyIf, FinalInv, FinalOfAllTrials, FinalIsAverage,
                            DateIsEarliest, IsReport
  <2>3. CASE IsReport(final')
    <3>1. final' = report
      BY <2>1, <2>3, SavedReport
    <3>2. final'.date = context_list[1] /\ final'.benchmarks = AggregateFinalData
      BY <1>1, <1>3, <3>1 DEF AggregateFinalContext
    <3>3. \A t \in Trials : \A r \in done[t] : final'.date <= r.date
      BY <1>1, <1>3, <3>2 DEF IInv, DatesInv
    <3>4. ASSUME NEW b \in Benchmarks
          PROVE  /\ b \in DOMAIN final'.benchmarks <=> ran(b) # {}
                 /\ ran(b) # {} => final'.benchmarks[b].real_time
                                     = MeanOfMeans([t \in ran(b) |-> Mean(RunsOf(b, done[t]))])
      <4>1. \A t \in Trials : b \in DOMAIN data_list[t] <=> RunsOf(b, done[t]) # {}
        BY <1>4 DEF Summarize, RunsOf
      <4>2. RowsOf(b) = ran(b)
        BY <1>3, <4>1 DEF RowsOf
      <4>3. b \in DOMAIN final'.benchmarks <=> ran(b) # {}
        <5>1. DOMAIN final'.benchmarks = UNION {DOMAIN data_list[k] : k \in DOMAIN data_list}
          BY <3>2 DEF AggregateFinalData
        <5>2. b \in DOMAIN final'.benchmarks <=> \E k \in Trials : b \in DOMAIN data_list[k]
          BY <1>3, <5>1
        <5> QED
          BY <4>1, <5>2
      <4>4. \A t \in ran(b) : data_list[t][b].real_time = Mean(RunsOf(b, done[t]))
        BY <1>4, <4>1 DEF Summarize
      <4>5. [k \in RowsOf(b) |-> data_list[k][b].real_time]
              = [t \in ran(b) |-> Mean(RunsOf(b, done[t]))]
        BY <4>2, <4>4
      <4>6. b \in DOMAIN final'.benchmarks =>
              final'.benchmarks[b].real_time
                = MeanOfMeans([k \in RowsOf(b) |-> data_list[k][b].real_time])
        BY <3>2 DEF AggregateFinalData
      <4> HIDE DEF ran
      <4> QED
        BY <4>3, <4>5, <4>6
    <3>5. FinalOfAllTrials'
      BY <1>3, <3>3, <3>4 DEF FinalOfAllTrials, FinalIsAverage, DateIsEarliest
    <3> QED
      BY <1>2, <2>1, <3>5 DEF IInv, RaisesOnlyIf, FinalInv
  <2> QED
    BY <2>2, <2>3
<1> QED
  BY <1>6, <1>7

LEMMA Inductive == IInv /\ [Next]_vars => IInv'
<1> SUFFICES ASSUME IInv, [Next]_vars PROVE IInv'
  OBVIOUS
<1>1. CASE UNCHANGED vars
  <2>1. /\ UNCHANGED <<repetitions, counters, keep_raw_data, trial, phase, clock, files, runtimes>>
        /\ UNCHANGED <<done, failed, df, perf_counter_df, results, context_list, data_list, final>>
        /\ Trials' = Trials
    BY <1>1 DEF vars, Trials
  <2>2. TypeOK' /\ ListsInv' /\ RunsInv' /\ DatesInv'
    BY <2>1 DEF IInv, TypeOK, ListsInv, RunsInv, DatesInv, Parses
  <2>3. FramesInv' /\ ReportsInv'
    BY <2>1 DEF IInv, FramesInv, ReportsInv, IsReport
  <2>4. FinalInv' /\ RaisesOnlyIf'
    BY <2>1 DEF IInv, FinalInv, FinalOfAllTrials, FinalIsAverage, DateIsEarliest, IsReport,
                RaisesOnlyIf
  <2> QED
    BY <2>2, <2>3, <2>4 DEF IInv
<1>2. CASE Next
  BY <1>2, StartTrialKeeps, RunSucceedsKeeps, RunFailsKeeps, ConvertToDataFrameKeeps,
     GeneratePerfCounterDataFrameKeeps, GenerateBenchmarkReportKeeps, AggregateContextKeeps,
     SaveBenchmarkResultsKeeps, RemoveRawDataKeeps, CopyReportKeeps, AggregateTrialsKeeps
     DEF Next
<1> QED
  BY <1>1, <1>2

LEMMA Invariant == Spec => []IInv
BY Initially, Inductive, PTL DEF Spec

-----------------------------------------------------------------------------
(***************************************************************************)
(* The theorems                                                            *)
(***************************************************************************)
\* The post-processing is always at one of its lines, no trial is over twice, and
\* a trial's context and data are recorded together.
THEOREM TypeCorrect == Spec => []TypeOK
<1>1. IInv => TypeOK
  BY DEF IInv
<1> QED
  BY <1>1, Invariant, PTL

\* The report of a trial is about the runs of this trial that ended well, all of
\* them and no others: GenerateBenchmarkReport works on the results, the counters
\* come from the files, and both stand for the same runs.
THEOREM ReportsAreOfSuccessfulRuns == Spec => []CountsTheSuccessful
<1>1. IInv => CountsTheSuccessful
  BY DEF IInv, ReportsInv, Summarize, CountsTheSuccessful
<1> QED
  BY <1>1, Invariant, PTL

\* The final report averages a benchmark over the trials that ran it, and has the
\* date of the earliest run, although it takes the context of the first trial only.
THEOREM FinalReportIsOfAllTrials == Spec => []FinalOfAllTrials
<1>1. IInv => FinalOfAllTrials
  BY DEF IInv, FinalInv
<1> QED
  BY <1>1, Invariant, PTL

\* The post-processing raises an exception in the cases of RaisesOnlyIf only.
THEOREM RaisesInKnownCases == Spec => []RaisesOnlyIf
<1>1. IInv => RaisesOnlyIf
  BY DEF IInv
<1> QED
  BY <1>1, Invariant, PTL
=============================================================================

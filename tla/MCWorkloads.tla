---------------------------- MODULE MCWorkloads ----------------------------
(***************************************************************************)
(* Instances for TLC of what benchmarks do in their loops, side by side:   *)
(* compressing, which is ZLibCompress itself, the sampler of tcmalloc's    *)
(* traces, the cord benchmarks and the proto benchmark.  The initial state *)
(* chooses which part runs; the object that compresses stays as it was     *)
(* made in the others.                                                     *)
(***************************************************************************)
EXTENDS ZLibCompress

VARIABLES
  part,
  stage,                                              \* phase of the other parts
  pc, iteration,                                      \* of cords and protos
  tree, count,                                        \* AdjustableSampler
  bench, cord, cords, str,                            \* CordBenchmark
  arena, object, string, heap, i, work, reference     \* ProtoLifecycle

loop    == <<pc, iteration>>
sampler == <<tree, count>>
ofCords == <<bench, cord, cords, str>>
protos  == <<arena, object, string, heap, i, work, reference>>
others  == <<stage, loop, sampler, ofCords, protos>>

Unused == "unused"
NoLoop    == pc = Unused /\ iteration = Unused
NoSampler == tree = Unused /\ count = Unused
NoCords   == bench = Unused /\ cord = Unused /\ cords = Unused /\ str = Unused
NoProtos  == arena = Unused /\ object = Unused /\ string = Unused /\ heap = Unused /\ i = Unused
             /\ work = Unused /\ reference = Unused

\* Three classes: the tree has a leaf that is nobody's.
Rates == [c \in 0..2 |-> <<2, 6, 4>>[c + 1]]

Exact == INSTANCE AdjustableSampler WITH
  NumClasses <- 3, AllocRate <- Rates, DeathRate <- Rates,
  Mantissa <- 20, MaxObjects <- 4, phase <- stage

\* Few bits and odd rates: the weight of a class rounds, up and down.
OddRates == [c \in 0..2 |-> <<3, 1, 5>>[c + 1]]

Rounding == INSTANCE AdjustableSampler WITH
  NumClasses <- 3, AllocRate <- OddRates, DeathRate <- OddRates,
  Mantissa <- 3, MaxObjects <- 4, phase <- stage

\* One object of a class: only the sums of classes round, in a tree of three levels.
WideRates == [c \in 0..6 |-> <<5, 3, 3, 3, 12, 5, 6>>[c + 1]]

Wide == INSTANCE AdjustableSampler WITH
  NumClasses <- 7, AllocRate <- WideRates, DeathRate <- WideRates,
  Mantissa <- 3, MaxObjects <- 1, phase <- stage

CordPrograms == INSTANCE CordPrograms
GetBenchmarks == CordPrograms!GetBenchmarks
Cords == INSTANCE CordBenchmark WITH Iterations <- 2, phase <- stage

ProtoPrograms == INSTANCE ProtoPrograms
Run == ProtoPrograms!Run
MessageSet == ProtoPrograms!MessageSet
Protos == INSTANCE ProtoLifecycle WITH WorkingSet <- 2, Iterations <- 2, phase <- stage

NoOther == NoLoop /\ NoSampler /\ NoCords /\ NoProtos /\ stage = Unused
NoCompress == Init /\ mode = "gzip" /\ source = 0

MCInit ==
  \/ part = "compress" /\ Init /\ NoOther
  \/ /\ \/ part = "exact" /\ Exact!Init /\ NoLoop /\ NoCords /\ NoProtos
        \/ part = "rounding" /\ Rounding!Init /\ NoLoop /\ NoCords /\ NoProtos
        \/ part = "wide" /\ Wide!Init /\ NoLoop /\ NoCords /\ NoProtos
        \/ part = "cords" /\ Cords!Init /\ NoSampler /\ NoProtos
        \/ part = "protos" /\ Protos!Init /\ NoSampler /\ NoCords
     /\ NoCompress

MCNext ==
  \/ part = "compress" /\ Next /\ UNCHANGED <<part, others>>
  \/ /\ \/ part = "exact" /\ Exact!Next /\ UNCHANGED <<loop, ofCords, protos>>
        \/ part = "rounding" /\ Rounding!Next /\ UNCHANGED <<loop, ofCords, protos>>
        \/ part = "wide" /\ Wide!Next /\ UNCHANGED <<loop, ofCords, protos>>
        \/ part = "cords" /\ Cords!Next /\ UNCHANGED <<sampler, protos>>
        \/ part = "protos" /\ Protos!Next /\ UNCHANGED <<sampler, ofCords>>
     /\ UNCHANGED <<part, vars>>

MCSpec == MCInit /\ [][MCNext]_<<part, vars, others>>

-----------------------------------------------------------------------------
\* While the sums of weights are exact every node of the sampler's tree weighs what
\* the objects below it weigh (SetWeight); where they are, a class is drawn in
\* proportion to its weight, but a draw of 0 ends in class 0 (SampleWeight).  The
\* CHECK of RecordDeath fails and state_ is read out of range only if class 0, where
\* a draw of 0 ends, is empty or rounding has left its trace in the weights.
DrawnInProportion ==
  /\ part = "exact" =>
       /\ Exact!TypeOK /\ Exact!TreeSums
       /\ Exact!DrawsInProportion /\ Exact!FaultsOnlyIf
  /\ part = "rounding" =>
       /\ Rounding!TypeOK /\ Rounding!NodesUpToDate
       /\ Rounding!DrawsInProportion /\ Rounding!FaultsOnlyIf
  /\ part = "wide" =>
       /\ Wide!TypeOK /\ Wide!NodesUpToDate
       /\ Wide!DrawsInProportion /\ Wide!FaultsOnlyIf

\* The generated operations find the cords they need (generated_cord_benchmarks.cc):
\* none that was moved from, none shorter than what RemovePrefix takes off, none
\* the setup did not return, and none longer than the string it is copied to.
CordsUsable ==
  part = "cords" =>
    /\ Cords!TypeOK /\ Cords!NoUseAfterMove /\ Cords!PrefixIsThere
    /\ Cords!CordsInRange /\ Cords!CopyFits

\* The generated operations are on messages that exist, with and without an arena,
\* and every message made on the heap is destroyed once (lifecycle.cc); none grows
\* from operation to operation.
MessagesUsable ==
  part = "protos" =>
    /\ Protos!TypeOK /\ Protos!NoUseAfterDestroy /\ Protos!NothingLeaks
    /\ Protos!GrowthBounded

\* Every iteration of the proto benchmark does the work the first one did, although
\* all use one lifecycle object, with the strings the last has left in it
\* (proto/benchmark.cc:38).
IterationsAlike == part = "protos" => Protos!IterationsAlike
=============================================================================

SPECIFICATION Spec
CONSTANTS
  Cpus = {1, 2, 3}
  CpuList <- ThreeCpus
  Benchmarks = {"one", "two", "three"}
  BenchmarkList <- UpToThree
  BenchmarkThreads <- TwoAndThreeThreads
  Affinity = TRUE
  Outcomes = {"ok"}
  Target = 100
  Levels = {0, 100}
  Repetitions = 1
  MaxRuns = 3
  Empty = Empty
  None = None
INVARIANT TypeOK
INVARIANT LockOwned
INVARIANT FlagMeansReserved
INVARIANT CpuExclusive
INVARIANT WaitsForLater
INVARIANT NoOrphanedBlock
INVARIANT TrialComplete

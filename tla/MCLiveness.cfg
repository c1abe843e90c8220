SPECIFICATION FairSpec
CONSTANTS
  Cpus = {1, 2}
  CpuList <- TwoCpus
  Benchmarks = {"one", "two"}
  BenchmarkList <- Mixed
  BenchmarkThreads <- TwoThreads
  Affinity = TRUE
  Outcomes = {"ok", "failed"}
  Target = 100
  Levels = {0, 100}
  Repetitions = 1
  MaxRuns = 3
  Empty = Empty
  None = None
PROPERTY Termination
PROPERTY BlockedIsTemporary

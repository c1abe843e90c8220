SPECIFICATION Spec
CONSTANTS
  Cpus = {1, 2}
  CpuList <- TwoCpus
  Benchmarks = {"one", "two"}
  BenchmarkList <- Mixed
  BenchmarkThreads <- TwoThreads
  Affinity = TRUE
  Outcomes = {"ok", "failed", "raised"}
  Target = 100
  Levels = {0, 100}
  Repetitions = 2
  MaxRuns = 3
  Empty = Empty
  None = None
PROPERTY ImplementsLifecycle
CHECK_DEADLOCK FALSE

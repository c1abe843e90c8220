SPECIFICATION FairSpec
CONSTANTS
  NumStreams = 3
  Iterations = 5
  MayFail = TRUE
  CountLimit = 16
INVARIANT CountsStreams
INVARIANT QuietAfterWait
INVARIANT EveryIterationAnswered
PROPERTY Termination

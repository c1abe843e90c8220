SPECIFICATION Spec
CONSTANTS
  NumClasses = 2
  Size <- OneAndTwo
  TotalMem = 3
  RecordTarget = 3
  Addresses = {a, b, c, d, e, f}
  Null = Null
  MaxReplays = 2
SYMMETRY AnyAddress
INVARIANT TypeOK
INVARIANT FreesLiveObject
INVARIANT SteadyState
INVARIANT ObjectsMoveDown
INVARIANT PrepareFollowsRecording

CONSTANTS
  Vcpus = {0, 1, 2, 3}
  SocketIds = {0, 1}
  CoreIds = {0, 2}
  Requests = {2, 3}
  Utilizations = {40, 100}
  MayHideSocket = FALSE
SPECIFICATION FairSpec
CHECK_DEADLOCK FALSE
INVARIANTS
  TypeOK
  SelectedAsAsked
PROPERTY Termination

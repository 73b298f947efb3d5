\* A search of two rounds; the dispatcher is lost, or stopped, once.
SPECIFICATION ClientSpec
CONSTANTS
  MaxSteps = 8
  Nary = 4
  MaxAttempts = 2
  MaxMailbox = 1
  MaxCrashes = 1
  JobRequests <- Jobs
  Pings = {}
  Junk = {}
  JobIds = {"uid_job"}
  Files = {"commands_file"}
  Types <- Kinds
  JobIdOf <- OneId
  FileOf <- OneFile
  TypeOf <- ByKind
  Unspawnable = {}
  Pids = {p1}
  None = None
  Bad = Bad
INVARIANTS
  ClientTypeOK
  AnswersInOrder
  OutputsAreOwn
  NothingMissed
  PatientOnBase
  SearchIsComplete

\* A proof that is made and verified; the dispatcher is lost at most once.
SPECIFICATION ClientSpec
CONSTANTS
  prove = prove  verify = verify  other = other  d1 = d1  d2 = d2  d3 = d3
  Requests = {prove, verify, other}
  KindOf <- Kinds3
  Dirs = {d1, d2, d3}
  DirOf <- OwnDirs
  ProofFiles <- TwoFiles
  Runs = {n1, n2, n3}
  MaxCrashes = 1
  None = None
  Torn = Torn
  Bad = Bad
SYMMETRY Processes
CHECK_DEADLOCK FALSE
INVARIANTS
  TrackedReadsSound
  AnswerIsSound
  ClientTypeOK
  ProofIsFinal

\* Two jobs with ids, types and files of their own, and a ping; the dispatcher is lost at most once.
SPECIFICATION Spec
CONSTANTS
  r1 = r1  r2 = r2  r3 = r3  i1 = i1  i2 = i2  f1 = f1  f2 = f2  t1 = t1  t2 = t2
  JobRequests = {r1, r2}
  Pings = {ping}
  Junk = {}
  JobIds = {i1, i2}
  Files = {f1, f2}
  Types = {t1}
  Pids = {p1, p2}
  Unspawnable = {}
  JobIdOf <- OwnIds
  FileOf <- OwnFiles
  TypeOf <- SameType
  MaxCrashes = 1
  None = None
  Bad = Bad
INVARIANTS
  TypeOK
  AckedIsSafe
  WorkersMatchStorage
  SuccessIsCommitted
  AnswerIsItsOwn
PROPERTIES
  NoLateRerun
  ServiceSafety
SYMMETRY Slots

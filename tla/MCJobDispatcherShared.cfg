\* Two requests with one job id but different types, and one with an id of its
\* own whose worker can not be spawned; all name one result file.
SPECIFICATION Spec
CONSTANTS
  r1 = r1  r2 = r2  r3 = r3  i1 = i1  i2 = i2  f1 = f1  f2 = f2  t1 = t1  t2 = t2
  JobRequests = {r1, r2, r3}
  Pings = {}
  Junk = {junk}
  JobIds = {i1, i2}
  Files = {f1}
  Types = {t1, t2}
  Pids = {p1, p2}
  Unspawnable = {r3}
  JobIdOf <- PoisonIds
  FileOf <- SameFile
  TypeOf <- OwnTypes
  MaxCrashes = 2
  None = None
  Bad = Bad
INVARIANTS
  AckedIdIsSafe
  AnswerHasItsType
SYMMETRY Slots

\* Two requests use one job id.
SPECIFICATION Spec
CONSTANTS
  r1 = r1  r2 = r2  r3 = r3  i1 = i1  i2 = i2  f1 = f1  f2 = f2  t1 = t1  t2 = t2
  JobRequests = {r1, r2}
  Pings = {}
  Junk = {}
  JobIds = {i1}
  Files = {f1}
  Types = {t1}
  Pids = {p1, p2}
  Unspawnable = {}
  JobIdOf <- SameId
  FileOf <- SameFile
  TypeOf <- SameType
  MaxCrashes = 0
  None = None
  Bad = Bad
PROPERTIES
  ResultIsKept

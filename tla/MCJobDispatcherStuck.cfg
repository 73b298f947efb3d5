\* The worker of one of two jobs can not be spawned.
SPECIFICATION FairSpec
CONSTANTS
  r1 = r1  r2 = r2  r3 = r3  i1 = i1  i2 = i2  f1 = f1  f2 = f2  t1 = t1  t2 = t2
  JobRequests = {r1, r2}
  Pings = {}
  Junk = {}
  JobIds = {i1, i2}
  Files = {f1}
  Types = {t1}
  Pids = {p1, p2}
  Unspawnable = {r2}
  JobIdOf <- OwnIds
  FileOf <- SameFile
  TypeOf <- SameType
  MaxCrashes = 0
  None = None
  Bad = Bad
PROPERTIES
  QueueDrains
